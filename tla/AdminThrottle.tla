---------------------------- MODULE AdminThrottle ----------------------------
(***************************************************************************)
(* AdminAccessThrottle: the in-memory limits on administrative logins and  *)
(* on calls of the administrative API.                                     *)
(*                                                                         *)
(* Failed logins are counted per login and per address; at the limit the   *)
(* key is locked, each time for longer.  API calls are counted per address *)
(* in a sliding window.  The server runs one worker and the calls contain  *)
(* no await, so each of them is one step.  time.time() is a clock of ticks *)
(* that never goes back.  A tick may be any fraction of a second: only a   *)
(* Retry-After is rounded, up to whole seconds.                            *)
(***************************************************************************)
EXTENDS Naturals, Sequences

CONSTANTS
    Logins,          \* logins that are tried
    AdminLogin,      \* the login of the settings
    Addresses,       \* addresses that logins come from
    Callers,         \* those of them that call the API
    Second,                      \* ticks of a second; all times are in ticks
    LoginLimit, LoginWindow,     \* failures per login, in that time
    IpLimit, IpWindow,           \* failures per address, in that time
    ApiLimit, ApiWindow,         \* API calls per address, in that time
    LockoutBase, LockoutMax,     \* times of the first and of the longest lockout
    MaxClock         \* bound on the clock

ASSUME ThrottleAssumption ==
    /\ AdminLogin \in Logins
    /\ Logins \cap Addresses = {}
    /\ "api" \notin Logins
    /\ Callers \subseteq Addresses
    /\ {Second, LoginLimit, IpLimit, ApiLimit, LockoutBase, LockoutMax} \subseteq Nat \ {0}
    /\ {LoginWindow, IpWindow, ApiWindow, MaxClock} \subseteq Nat

Keys == Logins \cup Addresses

Limit(k) == IF k \in Logins THEN LoginLimit ELSE IpLimit

Window(k) == IF k \in Logins THEN LoginWindow ELSE IpWindow

VARIABLES
    clock,      \* time.time()
    counters,   \* counters[k]: the _CounterState of a login or an address
    calls,      \* calls[a]: the remembered times of a's API calls
    admitted,   \* history: the times of all API calls of a that were let through
    failed,     \* history: the failures of one key since its last success
    promised    \* history: one of the Retry-After answers given so far

vars == <<clock, counters, calls, admitted, failed, promised>>

loginVars == <<counters, failed>>

apiVars == <<calls, admitted>>

(***************************************************************************)
(* A Retry-After answer: to a login l from address a, or to an API call of *)
(* a (login = "api"), not to come back before a time.  The history keeps   *)
(* any one of the answers, so what holds for it holds for all.  The header *)
(* is in whole seconds, rounded up, and at least one.                      *)
(***************************************************************************)
Answer(l, a, until) == [login |-> l, address |-> a, until |-> until]

Promise(answer) == promised' \in {promised, answer}

RetryAfter(wait) == IF wait = 0 THEN 1 ELSE (wait + Second - 1) \div Second

Returning(time) == clock + Second * RetryAfter(time - clock)

NoFailures == [timestamps |-> <<>>, until |-> 0, level |-> 0]

(***************************************************************************)
(* _prune_old_timestamps: drop the leading times that are older than the   *)
(* window; a time exactly one window old is kept.                          *)
(***************************************************************************)
\* Variant of Outdated: a time exactly one window old is dropped.
Outdated_Inclusive(time, window) == time + window <= clock

Outdated(time, window) == time + window < clock

OutdatedPrefixes(times, window) ==
    {n \in 0 .. Len(times) : \A i \in 1 .. n : Outdated(times[i], window)}

Pruned(times, window) ==
    LET n == CHOOSE n \in OutdatedPrefixes(times, window) :
                \A m \in OutdatedPrefixes(times, window) : m <= n
    IN  SubSeq(times, n + 1, Len(times))

(***************************************************************************)
(* _record_failure, _ensure_not_locked                                     *)
(***************************************************************************)
\* Variant of Capped: the maximum is not applied.
Capped_Never(seconds) == seconds

Capped(seconds) == IF seconds \in 1 .. LockoutMax THEN seconds ELSE LockoutMax

LockoutTime(level) == Capped(LockoutBase * 2 ^ (level - 1))

\* Variant of AfterFailure: the limit is compared before the failure counts.
AfterFailure_LateLimit(k) ==
    LET times == Append(Pruned(counters[k].timestamps, Window(k)), clock)
        level == counters[k].level + 1
    IN  IF Len(times) <= Limit(k)
        THEN [counters[k] EXCEPT !.timestamps = times]
        ELSE [timestamps |-> <<>>,
              until      |-> clock + LockoutTime(level),
              level      |-> level]

AfterFailure(k) ==
    LET times == Append(Pruned(counters[k].timestamps, Window(k)), clock)
        level == counters[k].level + 1
    IN  IF Len(times) < Limit(k)
        THEN [counters[k] EXCEPT !.timestamps = times]
        ELSE [timestamps |-> <<>>,
              until      |-> clock + LockoutTime(level),
              level      |-> level]

Locked(k) == counters[k].until > clock

\* Variant of Refused: only the login is looked at.
Refused_ByLogin(l, a) == Locked(l)

\* assert_login_allowed
Refused(l, a) == Locked(l) \/ Locked(a)

\* The lock that a refusal reports: the login's comes first.
Reported(l, a) ==
    Returning(IF Locked(l) THEN counters[l].until ELSE counters[a].until)

(***************************************************************************)
(* create_admin_session                                                    *)
(***************************************************************************)
RefuseLogin(l, a) ==
    /\ Refused(l, a)
    /\ Promise(Answer(l, a, Reported(l, a)))
    /\ UNCHANGED <<clock, loginVars, apiVars>>

\* Both keys are charged; Retry-After is the longer of the new lockouts, which
\* are whole seconds, or absent.
FailLogin(l, a) ==
    LET charged == {l, a}
        byLogin == AfterFailure(l).until
        byIp    == AfterFailure(a).until
    IN
    /\ ~Refused(l, a)
    /\ counters' = [k \in Keys |-> IF k \in charged THEN AfterFailure(k) ELSE counters[k]]
    /\ failed' = IF failed.key \in charged
                 THEN [failed EXCEPT !.times = Append(@, clock)]
                 ELSE failed
    /\ IF clock < byLogin \/ clock < byIp
       THEN Promise(Answer(l, a, IF byIp <= byLogin THEN byLogin ELSE byIp))
       ELSE UNCHANGED promised
    /\ UNCHANGED <<clock, apiVars>>

\* Variant of Login: the credentials are checked before the throttle.
Login_Unthrottled(a) ==
    /\ counters' = [counters EXCEPT ![AdminLogin] = NoFailures, ![a] = NoFailures]
    /\ failed' = IF failed.key \in {AdminLogin, a} THEN [failed EXCEPT !.times = <<>>] ELSE failed
    /\ UNCHANGED <<clock, promised, apiVars>>

\* The counters of the login and of the address are dropped.
Login(a) ==
    /\ ~Refused(AdminLogin, a)
    /\ counters' = [counters EXCEPT ![AdminLogin] = NoFailures, ![a] = NoFailures]
    /\ failed' = IF failed.key \in {AdminLogin, a} THEN [failed EXCEPT !.times = <<>>] ELSE failed
    /\ UNCHANGED <<clock, promised, apiVars>>

(***************************************************************************)
(* register_admin_api_request, called by AdminGuardMiddleware before it    *)
(* looks for a session.                                                    *)
(***************************************************************************)
\* Variant of CallApi: refused calls are counted, too.
CallApi_CountsRefused(a) ==
    LET times == Pruned(calls[a], ApiWindow) IN
    /\ calls' = [calls EXCEPT ![a] = Append(times, clock)]
    /\ \/ /\ Len(times) >= ApiLimit
          /\ Promise(Answer("api", a, Returning(times[1] + ApiWindow)))
          /\ UNCHANGED admitted
       \/ /\ Len(times) < ApiLimit
          /\ admitted' = [admitted EXCEPT ![a] = Append(@, clock)]
          /\ UNCHANGED promised
    /\ UNCHANGED <<clock, loginVars>>

CallApi(a) ==
    LET times == Pruned(calls[a], ApiWindow) IN
    /\ \/ /\ Len(times) >= ApiLimit
          /\ calls' = [calls EXCEPT ![a] = times]
          /\ Promise(Answer("api", a, Returning(times[1] + ApiWindow)))
          /\ UNCHANGED admitted
       \/ /\ Len(times) < ApiLimit
          /\ calls' = [calls EXCEPT ![a] = Append(times, clock)]
          /\ admitted' = [admitted EXCEPT ![a] = Append(@, clock)]
          /\ UNCHANGED promised
    /\ UNCHANGED <<clock, loginVars>>

(***************************************************************************)
(* The specification: one run of the server process.  The history          *)
(* variables decide nothing; they start when the process does, as the      *)
(* counters do.                                                            *)
(***************************************************************************)
Tick ==
    /\ clock < MaxClock
    /\ clock' = clock + 1
    /\ UNCHANGED <<loginVars, apiVars, promised>>

Init ==
    /\ clock = 0
    /\ counters = [k \in Keys |-> NoFailures]
    /\ calls = [a \in Callers |-> <<>>]
    /\ admitted = [a \in Callers |-> <<>>]
    /\ failed \in [key : Keys, times : {<<>>}]
    /\ promised \in {Answer("api", a, 0) : a \in Addresses}

Next ==
    \/ Tick
    \/ \E a \in Callers : CallApi(a)
    \/ \E a \in Addresses :
          \/ Login(a)
          \/ \E l \in Logins : RefuseLogin(l, a) \/ FailLogin(l, a)

Spec == Init /\ [][Next]_vars

(***************************************************************************)
(* Properties.                                                             *)
(***************************************************************************)
Counter == [timestamps : Seq(Nat), until : Nat, level : Nat]

\* Every counter, remembered time and promise has its type, and no lock is
\* further away than the longest lockout.
TypeOK ==
    /\ clock \in 0 .. MaxClock
    /\ counters \in [Keys -> Counter]
    /\ \A k \in Keys : counters[k].until <= clock + LockoutMax
    /\ calls \in [Callers -> Seq(Nat)]
    /\ admitted \in [Callers -> Seq(Nat)]
    /\ failed \in [key : Keys, times : Seq(Nat)]
    /\ promised \in [login : Logins \cup {"api"}, address : Addresses, until : Nat]

\* Whatever the bursts, no closed window of length ApiWindow holds more than
\* ApiLimit API calls of one address that were let through, although old
\* calls are forgotten one by one and refused ones are not remembered.
ApiWindowBound ==
    \A a \in Callers : \A i \in 1 .. Len(admitted[a]) :
        i + ApiLimit <= Len(admitted[a]) =>
            admitted[a][i + ApiLimit] > admitted[a][i] + ApiWindow

\* An API call is refused only if that many calls were let through in the
\* window that ends now: neither refused nor outdated calls count.
RefusedOnlyAtLimit ==
    \A a \in Callers :
        Len(Pruned(calls[a], ApiWindow)) >= ApiLimit =>
            LET n == Len(admitted[a]) IN
            /\ n >= ApiLimit
            /\ admitted[a][n - ApiLimit + 1] + ApiWindow >= clock

\* A Retry-After is kept to less than the second that it was rounded up by:
\* while a full second of it is left, the login is refused from that address
\* and the address is refused by the API, whatever other logins and addresses
\* do meanwhile.  In the last second the code lets a caller in as soon as the
\* lock is over (_ensure_not_locked).
RefusalHolds ==
    promised.until >= clock + Second =>
        IF promised.login = "api"
        THEN Len(Pruned(calls[promised.address], ApiWindow)) >= ApiLimit
        ELSE Refused(promised.login, promised.address)

\* A lock runs its full time: neither a failure nor a successful login from
\* another address, which drop or raise counters, touches a locked key.
LockRunsItsTime ==
    [][\A k \in Keys : Locked(k) => counters'[k] = counters[k]]_vars

\* Guessing is slow: one more failure of a key than its limit, with no success
\* in between, takes longer than the window or a lockout of the first level,
\* though a lockout clears the times that led to it.
FailureSpacing ==
    LET times == failed.times
        limit == Limit(failed.key)
    IN  \A i \in 1 .. Len(times) :
            i + limit <= Len(times) =>
                \/ times[i + limit] > times[i] + Window(failed.key)
                \/ times[i + limit] >= times[i] + LockoutTime(1)
=============================================================================
