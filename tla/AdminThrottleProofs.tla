------------------------- MODULE AdminThrottleProofs -------------------------
(***************************************************************************)
(* Proofs about AdminThrottle, for all limits, windows and lockout times,  *)
(* any number of logins and addresses, and any length of a run.            *)
(***************************************************************************)
EXTENDS AdminThrottle, NumberLemmas, FiniteSetTheorems, TLAPS

(***************************************************************************)
(* Pruning.                                                                *)
(***************************************************************************)
\* What pruning leaves of times when it drops the first n of them.
DropsOutdated(times, window, n) ==
    /\ n \in 0 .. Len(times)
    /\ Pruned(times, window) = SubSeq(times, n + 1, Len(times))
    /\ \A i \in 1 .. n : Outdated(times[i], window)
    /\ n < Len(times) => ~Outdated(times[n + 1], window)

\* _prune_old_timestamps drops all times before the first recent one.
LEMMA PruningStops ==
    ASSUME NEW times \in Seq(Nat), NEW window \in Nat
    PROVE  \E n : DropsOutdated(times, window, n)
<1>. DEFINE S == OutdatedPrefixes(times, window)
            Kept == {d \in Nat : d <= Len(times) /\ Len(times) - d \in S}
<1>1. Len(times) \in Nat
  OBVIOUS
<1>2. S \subseteq 0 .. Len(times) /\ 0 \in S
  BY <1>1 DEF OutdatedPrefixes
<1>3. Len(times) \in Kept
  BY <1>1, <1>2
<1>4. PICK d \in Kept : \A e \in Kept : d <= e
  BY <1>3, LeastNumber
<1>5. \A m \in S : m <= Len(times) - d
  <2>. TAKE m \in S
  <2>1. m \in 0 .. Len(times)
    BY <1>2
  <2>2. Len(times) - m \in Nat /\ Len(times) - m <= Len(times)
    BY <1>1, <2>1
  <2>3. Len(times) - (Len(times) - m) = m
    BY <1>1, <2>1
  <2>. HIDE DEF S
  <2>4. Len(times) - m \in Kept
    BY <2>2, <2>3
  <2>5. d \in Nat /\ d <= Len(times)
    BY <1>4
  <2>. HIDE DEF Kept
  <2>6. d <= Len(times) - m
    BY <1>4, <2>4
  <2>. QED
    BY <1>1, <2>1, <2>5, <2>6
<1>. DEFINE n == CHOOSE k \in S : \A m \in S : m <= k
<1>6. n \in S /\ \A m \in S : m <= n
  <2>1. Len(times) - d \in S
    BY <1>4
  <2>. QED
    BY <1>5, <2>1
<1>7. Pruned(times, window) = SubSeq(times, n + 1, Len(times))
  BY DEF Pruned
<1>. HIDE DEF n
<1>8. n \in 0 .. Len(times) /\ \A i \in 1 .. n : Outdated(times[i], window)
  BY <1>6 DEF OutdatedPrefixes
<1>9. ASSUME n < Len(times), Outdated(times[n + 1], window)
      PROVE  FALSE
  <2>1. \A i \in 1 .. n + 1 : Outdated(times[i], window)
    BY <1>8, <1>9
  <2>2. n + 1 \in S
    BY <1>1, <1>8, <1>9, <2>1 DEF OutdatedPrefixes
  <2>. QED
    BY <1>6, <1>8, <2>2
<1>. QED
  BY <1>7, <1>8, <1>9 DEF DropsOutdated

\* The times that are left, one by one.
LEMMA PrunedTimes ==
    ASSUME NEW times \in Seq(Nat), NEW window, NEW n, DropsOutdated(times, window, n)
    PROVE  /\ Pruned(times, window) \in Seq(Nat)
           /\ Len(Pruned(times, window)) = Len(times) - n
           /\ \A i \in 1 .. Len(times) - n : Pruned(times, window)[i] = times[n + i]
<1>1. n \in 0 .. Len(times)
  BY DEF DropsOutdated
<1>. DEFINE rest == SubSeq(times, n + 1, Len(times))
<1>2. rest \in Seq(Nat)
  BY <1>1
<1>3. Len(rest) = Len(times) - n
  BY <1>1
<1>4. ASSUME NEW i \in 1 .. Len(times) - n
      PROVE  rest[i] = times[n + i]
  BY <1>1
<1>5. Pruned(times, window) = rest
  BY DEF DropsOutdated
<1>. HIDE DEF rest
<1>. QED
  BY <1>2, <1>3, <1>4, <1>5

\* Pruning returns a sequence of times.
LEMMA PrunedType ==
    ASSUME NEW times \in Seq(Nat), NEW window \in Nat
    PROVE  Pruned(times, window) \in Seq(Nat)
  BY PruningStops, PrunedTimes

(***************************************************************************)
(* Types.                                                                  *)
(***************************************************************************)
LEMMA PolicyNumbers ==
    /\ \A k : Window(k) \in Nat /\ Limit(k) \in Nat
    /\ ApiLimit \in Nat /\ ApiLimit > 0
    /\ Second \in Nat /\ Second > 0
    /\ ApiWindow \in Nat /\ MaxClock \in Nat /\ LockoutMax \in Nat /\ LockoutMax > 0
    /\ Logins \subseteq Keys /\ Addresses \subseteq Keys /\ Callers \subseteq Addresses
    /\ AdminLogin \in Logins
  BY ThrottleAssumption DEF Window, Limit, Keys

\* Rounding up: a Retry-After ends less than a second after the lock, or a
\* second after it if nothing of the lock is left.
LEMMA RoundedUp ==
    ASSUME clock \in Nat, NEW time \in Nat, time >= clock
    PROVE  /\ Returning(time) \in Nat
           /\ Returning(time) >= time /\ Returning(time) <= time + Second
           /\ time > clock => Returning(time) < time + Second
<1>. DEFINE wait == time - clock
            seconds == (wait + Second - 1) \div Second
<1>1. wait \in Nat /\ Second \in Nat \ {0}
  BY PolicyNumbers
<1>2. /\ seconds \in Int
      /\ Second * seconds \in Int
      /\ Second * seconds >= wait /\ Second * seconds < wait + Second
  <2>. HIDE DEF wait
  <2>. QED
    BY <1>1, SMT
<1>3. Second * 1 = Second
  BY <1>1
<1>4. Returning(time) = clock + (IF wait = 0 THEN Second ELSE Second * seconds)
  BY <1>3 DEF Returning, RetryAfter
<1>. HIDE DEF seconds
<1>. QED
  BY <1>1, <1>2, <1>4

\* The oldest call that pruning leaves is still in the window.
LEMMA PrunedHead ==
    ASSUME NEW times \in Seq(Nat), clock \in Nat,
           Len(Pruned(times, ApiWindow)) >= ApiLimit
    PROVE  /\ Pruned(times, ApiWindow)[1] \in Nat
           /\ Pruned(times, ApiWindow)[1] + ApiWindow >= clock
<1>. DEFINE rest == Pruned(times, ApiWindow)
<1>1. ApiWindow \in Nat /\ ApiLimit \in Nat /\ ApiLimit > 0
  BY PolicyNumbers
<1>2. PICK n : DropsOutdated(times, ApiWindow, n)
  BY <1>1, PruningStops
<1>3. /\ rest \in Seq(Nat) /\ Len(rest) = Len(times) - n
      /\ \A i \in 1 .. Len(times) - n : rest[i] = times[n + i]
  BY <1>2, PrunedTimes
<1>4. n \in 0 .. Len(times) /\ (n < Len(times) => ~Outdated(times[n + 1], ApiWindow))
  BY <1>2 DEF DropsOutdated
<1>5. Len(rest) >= ApiLimit
  OBVIOUS
<1>. HIDE DEF rest
<1>6. rest[1] = times[n + 1] /\ n < Len(times) /\ rest[1] \in Nat
  <2>1. n \in Nat /\ Len(times) \in Nat /\ Len(times) - n >= 1
    BY <1>1, <1>3, <1>4, <1>5, SMTT(30)
  <2>2. 1 \in 1 .. Len(times) - n /\ n + 1 \in 1 .. Len(times)
    BY <2>1
  <2>3. rest[1] = times[n + 1]
    BY <1>3, <2>2
  <2>4. times[n + 1] \in Nat
    BY <2>2
  <2>. QED
    BY <2>1, <2>3, <2>4
<1>7. rest[1] + ApiWindow >= clock
  BY <1>1, <1>4, <1>6 DEF Outdated
<1>. QED
  BY <1>6, <1>7 DEF rest

LEMMA LockoutBounded == \A level : LockoutTime(level) \in 1 .. LockoutMax
  BY PolicyNumbers DEF LockoutTime, Capped

\* One more failure leaves a counter, locked for the longest time at most.
LEMMA FailureCounter ==
    ASSUME TypeOK, NEW k \in Keys
    PROVE  /\ AfterFailure(k) \in Counter
           /\ AfterFailure(k).until <= clock + LockoutMax
<1>. DEFINE times == Append(Pruned(counters[k].timestamps, Window(k)), clock)
            level == counters[k].level + 1
<1>1. counters[k] \in Counter /\ clock \in Nat /\ counters[k].until <= clock + LockoutMax
  BY PolicyNumbers DEF TypeOK
<1>2. times \in Seq(Nat)
  BY <1>1, PolicyNumbers, PrunedType DEF Counter
<1>3. LockoutTime(level) \in 1 .. LockoutMax
  BY LockoutBounded
<1>4. CASE Len(times) < Limit(k)
  <2>1. AfterFailure(k) = [counters[k] EXCEPT !.timestamps = times]
    BY <1>4 DEF AfterFailure
  <2>. QED
    BY <1>1, <1>2, <2>1 DEF Counter
<1>5. CASE ~(Len(times) < Limit(k))
  <2>1. AfterFailure(k) = [timestamps |-> <<>>, until |-> clock + LockoutTime(level),
                           level |-> level]
    BY <1>5 DEF AfterFailure
  <2>. HIDE DEF level
  <2>2. level \in Nat
    BY <1>1 DEF level, Counter
  <2>3. clock + LockoutTime(level) \in Nat /\ clock + LockoutTime(level) <= clock + LockoutMax
    BY <1>1, <1>3, PolicyNumbers
  <2>. QED
    BY <2>1, <2>2, <2>3 DEF Counter
<1>. QED
  BY <1>4, <1>5

\* The failures that the history keeps may grow or be forgotten.
LEMMA HistoryType ==
    ASSUME NEW history \in [key : Keys, times : Seq(Nat)], NEW time \in Nat
    PROVE  /\ [history EXCEPT !.times = <<>>] \in [key : Keys, times : Seq(Nat)]
           /\ [history EXCEPT !.times = Append(@, time)] \in [key : Keys, times : Seq(Nat)]
<1>1. <<>> \in Seq(Nat) /\ Append(history.times, time) \in Seq(Nat)
  OBVIOUS
<1>. QED
  BY <1>1

\* The answers are of their type.
LEMMA AnswerType ==
    ASSUME NEW l \in Logins \cup {"api"}, NEW a \in Addresses, NEW until \in Nat,
           promised \in [login : Logins \cup {"api"}, address : Addresses, until : Nat],
           Promise(Answer(l, a, until))
    PROVE  promised' \in [login : Logins \cup {"api"}, address : Addresses, until : Nat]
  BY DEF Promise, Answer

(***************************************************************************)
(* One step, by action.                                                    *)
(***************************************************************************)
LEMMA TypeStep ==
    ASSUME TypeOK, Next
    PROVE  TypeOK'
<1>. DEFINE Promised == [login : Logins \cup {"api"}, address : Addresses, until : Nat]
<1>1. /\ clock \in Nat /\ clock <= MaxClock
      /\ counters \in [Keys -> Counter]
      /\ \A k \in Keys : counters[k].until \in Nat /\ counters[k].until <= clock + LockoutMax
      /\ calls \in [Callers -> Seq(Nat)] /\ admitted \in [Callers -> Seq(Nat)]
      /\ failed \in [key : Keys, times : Seq(Nat)] /\ promised \in Promised
  <2>1. \A k \in Keys : counters[k].until \in Nat
    BY DEF TypeOK, Counter
  <2>. QED
    BY <2>1, PolicyNumbers DEF TypeOK
<1>2. CASE Tick
  <2>1. /\ clock' \in 0 .. MaxClock /\ clock' = clock + 1
        /\ counters' = counters /\ failed' = failed /\ promised' = promised
        /\ calls' = calls /\ admitted' = admitted
    BY <1>1, <1>2, PolicyNumbers DEF Tick, loginVars, apiVars
  <2>2. \A k \in Keys : counters'[k].until <= clock' + LockoutMax
    BY <1>1, <2>1, PolicyNumbers
  <2>. QED
    BY <1>1, <2>1, <2>2 DEF TypeOK
<1>3. ASSUME NEW a \in Callers, CallApi(a)
      PROVE  TypeOK'
  <2>. DEFINE times == Pruned(calls[a], ApiWindow)
  <2>1. times \in Seq(Nat)
    BY <1>1, PolicyNumbers, PrunedType
  <2>2. clock' = clock /\ counters' = counters /\ failed' = failed
    BY <1>3 DEF CallApi, loginVars
  <2>. HIDE DEF times
  <2>3. CASE /\ Len(times) >= ApiLimit
             /\ calls' = [calls EXCEPT ![a] = times]
             /\ Promise(Answer("api", a, Returning(times[1] + ApiWindow)))
             /\ UNCHANGED admitted
    <3>1. times[1] \in Nat /\ times[1] + ApiWindow >= clock
      BY <1>1, <2>3, PrunedHead DEF times
    <3>2. times[1] + ApiWindow \in Nat
      BY <3>1, PolicyNumbers
    <3>3. Returning(times[1] + ApiWindow) \in Nat
      BY <1>1, <3>1, <3>2, RoundedUp
    <3>4. promised' \in Promised
      BY <1>1, <2>3, <3>3, AnswerType, PolicyNumbers
    <3>5. calls' \in [Callers -> Seq(Nat)]
      BY <1>1, <2>1, <2>3
    <3>. QED
      BY <1>1, <2>2, <2>3, <3>4, <3>5 DEF TypeOK
  <2>4. CASE /\ calls' = [calls EXCEPT ![a] = Append(times, clock)]
             /\ admitted' = [admitted EXCEPT ![a] = Append(@, clock)]
             /\ UNCHANGED promised
    <3>1. calls' \in [Callers -> Seq(Nat)]
      BY <1>1, <2>1, <2>4
    <3>2. admitted' \in [Callers -> Seq(Nat)]
      BY <1>1, <2>4
    <3>. QED
      BY <1>1, <2>2, <2>4, <3>1, <3>2 DEF TypeOK
  <2>. QED
    BY <1>3, <2>3, <2>4 DEF CallApi, times
<1>4. ASSUME NEW a \in Addresses, Login(a)
      PROVE  TypeOK'
  <2>1. /\ clock' = clock /\ calls' = calls /\ admitted' = admitted /\ promised' = promised
        /\ counters' = [counters EXCEPT ![AdminLogin] = NoFailures, ![a] = NoFailures]
        /\ failed' = IF failed.key \in {AdminLogin, a} THEN [failed EXCEPT !.times = <<>>]
                     ELSE failed
    BY <1>4 DEF Login, apiVars
  <2>2. NoFailures \in Counter /\ NoFailures.until = 0
    BY DEF NoFailures, Counter
  <2>3. counters' \in [Keys -> Counter]
    BY <1>1, <2>1, <2>2
  <2>4. \A k \in Keys : counters'[k] \in {counters[k], NoFailures}
    BY <1>1, <2>1
  <2>5. \A k \in Keys : counters'[k].until <= clock' + LockoutMax
    BY <1>1, <2>1, <2>2, <2>4, PolicyNumbers
  <2>6. failed' \in [key : Keys, times : Seq(Nat)]
    BY <1>1, <2>1, HistoryType
  <2>. QED
    BY <1>1, <2>1, <2>3, <2>5, <2>6 DEF TypeOK
<1>5. ASSUME NEW a \in Addresses, NEW l \in Logins, RefuseLogin(l, a)
      PROVE  TypeOK'
  <2>1. Reported(l, a) \in Nat
    BY <1>1, <1>5, RoundedUp, PolicyNumbers, SMTT(30) DEF Reported, RefuseLogin, Refused, Locked
  <2>2. promised' \in Promised
    BY <1>1, <1>5, <2>1, AnswerType DEF RefuseLogin
  <2>. QED
    BY <1>1, <1>5, <2>2 DEF TypeOK, RefuseLogin, loginVars, apiVars
<1>6. ASSUME NEW a \in Addresses, NEW l \in Logins, FailLogin(l, a)
      PROVE  TypeOK'
  <2>1. /\ clock' = clock /\ calls' = calls /\ admitted' = admitted
        /\ counters' = [k \in Keys |-> IF k \in {l, a} THEN AfterFailure(k) ELSE counters[k]]
        /\ failed' = IF failed.key \in {l, a} THEN [failed EXCEPT !.times = Append(@, clock)]
                     ELSE failed
    BY <1>6 DEF FailLogin, apiVars
  <2>2. \A k \in Keys : /\ AfterFailure(k) \in Counter
                        /\ AfterFailure(k).until <= clock + LockoutMax
    BY FailureCounter
  <2>3. counters' \in [Keys -> Counter]
    BY <1>1, <2>1, <2>2
  <2>4. \A k \in Keys : counters'[k].until <= clock' + LockoutMax
    BY <1>1, <2>1, <2>2
  <2>5. failed' \in [key : Keys, times : Seq(Nat)]
    BY <1>1, <2>1, HistoryType
  <2>6. AfterFailure(a).until \in Nat /\ AfterFailure(l).until \in Nat
    BY <2>2, PolicyNumbers DEF Counter
  <2>7. promised' \in Promised
    BY <1>1, <1>6, <2>6, AnswerType DEF FailLogin
  <2>. QED
    BY <1>1, <2>1, <2>3, <2>4, <2>5, <2>7 DEF TypeOK
<1>. QED
  BY <1>2, <1>3, <1>4, <1>5, <1>6 DEF Next

\* Every counter, remembered time and answer always has its type, and no lock
\* is further away than LockoutMax (_CounterState, _record_failure).
THEOREM ThrottleTypes == Spec => []TypeOK
<1>1. Init => TypeOK
  <2>1. NoFailures \in Counter /\ NoFailures.until = 0 /\ <<>> \in Seq(Nat)
    BY DEF NoFailures, Counter
  <2>. SUFFICES ASSUME Init
                PROVE  TypeOK
    OBVIOUS
  <2>2. counters \in [Keys -> Counter] /\ \A k \in Keys : counters[k].until <= clock + LockoutMax
    BY <2>1, PolicyNumbers DEF Init
  <2>3. calls \in [Callers -> Seq(Nat)] /\ admitted \in [Callers -> Seq(Nat)]
    BY <2>1 DEF Init
  <2>4. failed \in [key : Keys, times : Seq(Nat)]
    BY <2>1 DEF Init
  <2>5. promised \in [login : Logins \cup {"api"}, address : Addresses, until : Nat]
    BY DEF Init, Answer
  <2>. QED
    BY <2>2, <2>3, <2>4, <2>5, PolicyNumbers DEF Init, TypeOK
<1>2. TypeOK /\ [Next]_vars => TypeOK'
  <2>. SUFFICES ASSUME TypeOK, UNCHANGED vars
                PROVE  TypeOK'
    BY TypeStep
  <2>. QED
    BY DEF TypeOK, vars
<1>. QED
  BY <1>1, <1>2, PTL DEF Spec

(***************************************************************************)
(* The sliding window of the API.                                          *)
(***************************************************************************)
\* times are the latest entries of log.
Latest(log, times) ==
    /\ Len(times) <= Len(log)
    /\ \A i \in 1 .. Len(times) : times[i] = log[Len(log) - Len(times) + i]

\* All but the m latest entries of log are outdated now.
Forgotten(log, m, now) ==
    \A i \in 1 .. Len(log) - m : log[i] + ApiWindow < now

Past(log, now) == \A i \in 1 .. Len(log) : log[i] <= now

Ordered(log) == \A i \in 1 .. Len(log) : \A j \in i .. Len(log) : log[i] <= log[j]

Spaced(log) ==
    \A i \in 1 .. Len(log) : i + ApiLimit <= Len(log) => log[i + ApiLimit] > log[i] + ApiWindow

\* What is remembered of an address: the latest of its calls that were let
\* through, and those that are forgotten are older than the window.
Remembers(log, times, now) ==
    /\ Latest(log, times)
    /\ Forgotten(log, Len(times), now)
    /\ Past(log, now)
    /\ Ordered(log)
    /\ Spaced(log)

LEMMA Entry ==
    ASSUME NEW s \in Seq(Nat), NEW i \in 1 .. Len(s)
    PROVE  s[i] \in Nat
  OBVIOUS

\* Time passes: what was outdated stays so.
LEMMA RemembersLater ==
    ASSUME NEW log \in Seq(Nat), NEW times \in Seq(Nat),
           NEW now \in Nat, NEW later \in Nat, now <= later,
           Remembers(log, times, now)
    PROVE  Remembers(log, times, later)
<1>1. Len(log) \in Nat /\ Len(times) \in Nat /\ ApiWindow \in Nat
  BY PolicyNumbers
<1>2. ASSUME NEW i \in 1 .. Len(log) - Len(times)
      PROVE  log[i] + ApiWindow < later
  <2>1. log[i] + ApiWindow < now
    BY DEF Remembers, Forgotten
  <2>2. i \in 1 .. Len(log)
    BY <1>1
  <2>3. log[i] \in Nat
    BY <2>2
  <2>. QED
    BY <1>1, <2>1, <2>3
<1>3. ASSUME NEW i \in 1 .. Len(log)
      PROVE  log[i] <= later
  <2>1. log[i] <= now /\ log[i] \in Nat
    BY Entry DEF Remembers, Past
  <2>. QED
    BY <2>1
<1>. QED
  BY <1>2, <1>3 DEF Remembers, Forgotten, Past

\* A call arrives: what is still remembered after pruning.
LEMMA RemembersPruned ==
    ASSUME NEW log \in Seq(Nat), NEW times \in Seq(Nat), clock \in Nat,
           Remembers(log, times, clock),
           NEW rest, rest = Pruned(times, ApiWindow)
    PROVE  /\ rest \in Seq(Nat)
           /\ Remembers(log, rest, clock)
           /\ Len(rest) > 0 => ~(log[Len(log) - Len(rest) + 1] + ApiWindow < clock)
<1>. DEFINE n == Len(log)
            k == Len(times)
            m == Len(rest)
<1>1. ApiWindow \in Nat /\ n \in Nat /\ k \in Nat
  BY PolicyNumbers
<1>2. PICK d : DropsOutdated(times, ApiWindow, d)
  BY <1>1, PruningStops
<1>3. /\ rest \in Seq(Nat) /\ m = k - d
      /\ \A i \in 1 .. k - d : rest[i] = times[d + i]
  <2>1. /\ Pruned(times, ApiWindow) \in Seq(Nat)
        /\ Len(Pruned(times, ApiWindow)) = Len(times) - d
        /\ \A i \in 1 .. Len(times) - d : Pruned(times, ApiWindow)[i] = times[d + i]
    BY <1>2, PrunedTimes
  <2>2. rest \in Seq(Nat)
    BY <2>1
  <2>3. m = k - d
    BY <2>1
  <2>4. \A i \in 1 .. k - d : rest[i] = times[d + i]
    BY <2>1
  <2>. QED
    BY <2>2, <2>3, <2>4
<1>4. /\ d \in 0 .. k
      /\ \A i \in 1 .. d : times[i] + ApiWindow < clock
      /\ d < k => ~(times[d + 1] + ApiWindow < clock)
  BY <1>2 DEF DropsOutdated, Outdated
<1>5. /\ k <= n
      /\ \A i \in 1 .. k : times[i] = log[n - k + i]
      /\ \A i \in 1 .. n - k : log[i] + ApiWindow < clock
  BY DEF Remembers, Latest, Forgotten
<1>. HIDE DEF n, k, m
<1>6. m = k - d /\ m <= n /\ d \in Nat /\ m \in Nat
  BY <1>1, <1>3, <1>4, <1>5
<1>7. ASSUME NEW i \in 1 .. m
      PROVE  rest[i] = log[n - m + i]
  <2>1. i \in 1 .. k - d
    BY <1>3
  <2>2. d + i \in 1 .. k /\ n - k + (d + i) = n - m + i
    BY <1>1, <1>4, <1>5, <1>6, <2>1
  <2>3. rest[i] = times[d + i]
    BY <1>3, <2>1
  <2>4. times[d + i] = log[n - k + (d + i)]
    BY <1>5, <2>2
  <2>. QED
    BY <2>2, <2>3, <2>4
<1>8. ASSUME NEW i \in 1 .. n - m
      PROVE  log[i] + ApiWindow < clock
  <2>1. CASE i \in 1 .. n - k
    BY <1>5, <2>1
  <2>2. CASE i \notin 1 .. n - k
    <3>. DEFINE j == i - (n - k)
    <3>1. j \in 1 .. d /\ j \in 1 .. k /\ n - k + j = i
      BY <1>1, <1>4, <1>5, <1>6, <2>2
    <3>. HIDE DEF j
    <3>2. times[j] + ApiWindow < clock
      BY <1>4, <3>1
    <3>3. times[j] = log[n - k + j]
      BY <1>5, <3>1
    <3>. QED
      BY <3>1, <3>2, <3>3
  <2>. QED
    BY <2>1, <2>2
<1>9. ASSUME m > 0
      PROVE  ~(log[n - m + 1] + ApiWindow < clock)
  <2>1. d < k /\ d + 1 \in 1 .. k /\ n - k + (d + 1) = n - m + 1
    BY <1>1, <1>4, <1>5, <1>6, <1>9
  <2>2. times[d + 1] = log[n - k + (d + 1)]
    BY <1>5, <2>1
  <2>. QED
    BY <1>4, <2>1, <2>2
<1>10. Latest(log, rest)
  BY <1>6, <1>7 DEF Latest, n, m
<1>11. Forgotten(log, Len(rest), clock)
  BY <1>8 DEF Forgotten, n, m
<1>12. Remembers(log, rest, clock)
  BY <1>10, <1>11 DEF Remembers
<1>. QED
  BY <1>3, <1>9, <1>12 DEF n, m

\* A call is let through when fewer than ApiLimit are remembered: the one
\* ApiLimit calls earlier is outdated.
LEMMA RemembersAdmitted ==
    ASSUME NEW log \in Seq(Nat), NEW rest \in Seq(Nat), NEW now \in Nat,
           Remembers(log, rest, now), Len(rest) < ApiLimit
    PROVE  Remembers(Append(log, now), Append(rest, now), now)
<1>. DEFINE n == Len(log)
            m == Len(rest)
            newLog == Append(log, now)
            newRest == Append(rest, now)
<1>1. /\ ApiWindow \in Nat /\ ApiLimit \in Nat /\ n \in Nat /\ m \in Nat /\ m <= n
      /\ ApiLimit > 0
  BY PolicyNumbers DEF Remembers, Latest
<1>2. /\ Len(newLog) = n + 1 /\ newLog[n + 1] = now /\ \A i \in 1 .. n : newLog[i] = log[i]
      /\ Len(newRest) = m + 1 /\ newRest[m + 1] = now /\ \A i \in 1 .. m : newRest[i] = rest[i]
  OBVIOUS
<1>3. /\ \A i \in 1 .. m : rest[i] = log[n - m + i]
      /\ \A i \in 1 .. n - m : log[i] + ApiWindow < now
      /\ \A i \in 1 .. n : log[i] <= now
      /\ \A i \in 1 .. n : \A j \in i .. n : log[i] <= log[j]
      /\ \A i \in 1 .. n : i + ApiLimit <= n => log[i + ApiLimit] > log[i] + ApiWindow
  BY DEF Remembers, Latest, Forgotten, Past, Ordered, Spaced
<1>. HIDE DEF n, m, newLog, newRest
<1>4. Latest(newLog, newRest)
  <2>1. ASSUME NEW i \in 1 .. m + 1
        PROVE  newRest[i] = newLog[(n + 1) - (m + 1) + i]
    <3>1. CASE i \in 1 .. m
      <4>1. (n + 1) - (m + 1) + i = n - m + i /\ n - m + i \in 1 .. n
        BY <1>1, <3>1
      <4>. QED
        BY <1>2, <1>3, <3>1, <4>1
    <3>2. CASE i = m + 1
      <4>1. (n + 1) - (m + 1) + i = n + 1
        BY <1>1, <3>2
      <4>. QED
        BY <1>2, <3>2, <4>1
    <3>. QED
      BY <1>1, <3>1, <3>2
  <2>2. m + 1 <= n + 1
    BY <1>1
  <2>. QED
    BY <1>2, <2>1, <2>2 DEF Latest
<1>5. Forgotten(newLog, m + 1, now)
  <2>1. ASSUME NEW i \in 1 .. (n + 1) - (m + 1)
        PROVE  newLog[i] + ApiWindow < now
    <3>1. i \in 1 .. n - m /\ i \in 1 .. n
      BY <1>1
    <3>. QED
      BY <1>2, <1>3, <3>1
  <2>. QED
    BY <1>2, <2>1 DEF Forgotten
<1>6. ASSUME NEW i \in 1 .. n + 1
      PROVE  newLog[i] <= now
  <2>1. CASE i \in 1 .. n
    BY <1>2, <1>3, <2>1
  <2>2. CASE i = n + 1
    BY <1>2, <2>2
  <2>. QED
    BY <1>1, <2>1, <2>2
<1>7. Past(newLog, now)
  BY <1>2, <1>6 DEF Past
<1>8. Ordered(newLog)
  <2>1. ASSUME NEW i \in 1 .. n + 1, NEW j \in i .. n + 1
        PROVE  newLog[i] <= newLog[j]
    <3>1. CASE j = n + 1
      BY <1>2, <1>6, <3>1
    <3>2. CASE j # n + 1
      <4>1. i \in 1 .. n /\ j \in i .. n /\ j \in 1 .. n
        BY <1>1, <3>2
      <4>2. log[i] <= log[j]
        BY <1>3, <4>1
      <4>. QED
        BY <1>2, <4>1, <4>2
    <3>. QED
      BY <3>1, <3>2
  <2>. QED
    BY <1>2, <2>1 DEF Ordered
<1>9. Spaced(newLog)
  <2>1. ASSUME NEW i \in 1 .. n + 1, i + ApiLimit <= n + 1
        PROVE  newLog[i + ApiLimit] > newLog[i] + ApiWindow
    <3>1. i \in 1 .. n /\ i + ApiLimit \in 1 .. n + 1
      BY <1>1, <2>1
    <3>2. CASE i + ApiLimit = n + 1
      <4>1. i \in 1 .. n - m
        BY <1>1, <3>1, <3>2 DEF m
      <4>2. log[i] + ApiWindow < now
        BY <1>3, <4>1
      <4>. QED
        BY <1>2, <3>1, <3>2, <4>2
    <3>3. CASE i + ApiLimit # n + 1
      <4>1. i + ApiLimit \in 1 .. n /\ i + ApiLimit <= n
        BY <1>1, <3>1, <3>3
      <4>2. log[i + ApiLimit] > log[i] + ApiWindow
        BY <1>3, <3>1, <4>1
      <4>. QED
        BY <1>2, <3>1, <4>1, <4>2
    <3>. QED
      BY <3>2, <3>3
  <2>. QED
    BY <1>2, <2>1 DEF Spaced
<1>. QED
  BY <1>2, <1>4, <1>5, <1>7, <1>8, <1>9 DEF Remembers, newLog, newRest

WindowInv == \A a \in Callers : Remembers(admitted[a], calls[a], clock)

\* CallApi keeps the log and what is remembered of it in step.
LEMMA WindowCall ==
    ASSUME TypeOK, WindowInv, NEW a \in Callers, CallApi(a)
    PROVE  WindowInv'
<1>1. /\ calls \in [Callers -> Seq(Nat)] /\ admitted \in [Callers -> Seq(Nat)]
      /\ clock \in Nat /\ clock' = clock
      /\ \A b \in Callers : Remembers(admitted[b], calls[b], clock)
  BY PolicyNumbers DEF TypeOK, WindowInv, CallApi
<1>. DEFINE rest == Pruned(calls[a], ApiWindow)
<1>2. rest \in Seq(Nat) /\ Remembers(admitted[a], rest, clock)
  BY <1>1, RemembersPruned
<1>3. \/ /\ calls' = [calls EXCEPT ![a] = rest]
         /\ admitted' = admitted
      \/ /\ Len(rest) < ApiLimit
         /\ calls' = [calls EXCEPT ![a] = Append(rest, clock)]
         /\ admitted' = [admitted EXCEPT ![a] = Append(@, clock)]
  BY DEF CallApi
<1>. HIDE DEF rest
<1>4. ASSUME NEW b \in Callers
      PROVE  Remembers(admitted'[b], calls'[b], clock)
  <2>1. CASE b # a
    BY <1>1, <1>3, <2>1
  <2>2. CASE b = a /\ calls' = [calls EXCEPT ![a] = rest] /\ admitted' = admitted
    BY <1>1, <1>2, <2>2
  <2>3. CASE /\ b = a
             /\ Len(rest) < ApiLimit
             /\ calls' = [calls EXCEPT ![a] = Append(rest, clock)]
             /\ admitted' = [admitted EXCEPT ![a] = Append(@, clock)]
    <3>1. admitted[a] \in Seq(Nat)
      BY <1>1
    <3>2. Remembers(Append(admitted[a], clock), Append(rest, clock), clock)
      BY <1>1, <1>2, <2>3, <3>1, RemembersAdmitted
    <3>3. calls'[a] = Append(rest, clock) /\ admitted'[a] = Append(admitted[a], clock)
      BY <1>1, <2>3
    <3>. QED
      BY <2>3, <3>2, <3>3
  <2>. QED
    BY <1>3, <2>1, <2>2, <2>3
<1>. QED
  BY <1>1, <1>4 DEF WindowInv

LEMMA WindowInvariant == Spec => [](TypeOK /\ WindowInv)
<1>1. Init => WindowInv
  BY DEF Init, WindowInv, Remembers, Latest, Forgotten, Past, Ordered, Spaced
<1>2. TypeOK /\ WindowInv /\ [Next]_vars => WindowInv'
  <2>. SUFFICES ASSUME TypeOK, WindowInv, [Next]_vars
                PROVE  WindowInv'
    OBVIOUS
  <2>1. ASSUME NEW a \in Callers, CallApi(a)
        PROVE  WindowInv'
    BY <2>1, WindowCall
  <2>2. CASE Tick
    <3>1. /\ clock \in Nat /\ clock' \in Nat /\ clock <= clock'
          /\ calls' = calls /\ admitted' = admitted
      BY <2>2, PolicyNumbers DEF Tick, apiVars, TypeOK
    <3>2. ASSUME NEW a \in Callers
          PROVE  Remembers(admitted[a], calls[a], clock')
      <4>1. admitted[a] \in Seq(Nat) /\ calls[a] \in Seq(Nat)
        BY DEF TypeOK
      <4>2. Remembers(admitted[a], calls[a], clock)
        BY DEF WindowInv
      <4>. QED
        BY <3>1, <4>1, <4>2, RemembersLater
    <3>. QED
      BY <3>1, <3>2 DEF WindowInv
  <2>3. CASE UNCHANGED <<clock, calls, admitted>>
    BY <2>3 DEF WindowInv
  <2>. QED
    BY <2>1, <2>2, <2>3 DEF Next, vars, Login, RefuseLogin, FailLogin, apiVars
<1>. QED
  BY <1>1, <1>2, ThrottleTypes, PTL DEF Spec

\* No closed window of ApiWindow seconds holds more than ApiLimit API calls of
\* one address that were let through (register_admin_api_request).
THEOREM ApiWindows == Spec => []ApiWindowBound
<1>1. WindowInv => ApiWindowBound
  BY DEF WindowInv, ApiWindowBound, Remembers, Spaced
<1>. QED
  BY <1>1, WindowInvariant, PTL

\* An API call is refused only if ApiLimit calls of its address were let
\* through in the window that ends now (register_admin_api_request).
THEOREM ApiRefusals == Spec => []RefusedOnlyAtLimit
<1>1. TypeOK /\ WindowInv => RefusedOnlyAtLimit
  <2>. SUFFICES ASSUME TypeOK, WindowInv, NEW a \in Callers,
                       Len(Pruned(calls[a], ApiWindow)) >= ApiLimit
                PROVE  /\ Len(admitted[a]) >= ApiLimit
                       /\ admitted[a][Len(admitted[a]) - ApiLimit + 1] + ApiWindow >= clock
    BY DEF RefusedOnlyAtLimit
  <2>. DEFINE log == admitted[a]
              rest == Pruned(calls[a], ApiWindow)
              n == Len(log)
              m == Len(rest)
  <2>1. log \in Seq(Nat) /\ calls[a] \in Seq(Nat) /\ clock \in Nat
    BY PolicyNumbers DEF TypeOK
  <2>2. Remembers(log, calls[a], clock)
    BY DEF WindowInv
  <2>3. /\ rest \in Seq(Nat) /\ Remembers(log, rest, clock)
        /\ m > 0 => ~(log[n - m + 1] + ApiWindow < clock)
    BY <2>1, <2>2, RemembersPruned
  <2>4. m \in Nat /\ n \in Nat /\ m >= ApiLimit /\ m <= n
    BY <2>1, <2>3 DEF Remembers, Latest
  <2>. HIDE DEF log, n, m, rest
  <2>0. ApiLimit \in Nat /\ ApiLimit > 0 /\ ApiWindow \in Nat
    BY PolicyNumbers
  <2>5. n - m + 1 \in 1 .. n /\ n - ApiLimit + 1 \in n - m + 1 .. n
    BY <2>0, <2>4
  <2>6. log[n - m + 1] <= log[n - ApiLimit + 1]
    BY <2>3, <2>5 DEF Remembers, Ordered, n
  <2>7. ~(log[n - m + 1] + ApiWindow < clock)
    BY <2>0, <2>3, <2>4
  <2>8. log[n - m + 1] \in Nat /\ log[n - ApiLimit + 1] \in Nat
    <3>1. n - ApiLimit + 1 \in 1 .. n
      BY <2>0, <2>4
    <3>. QED
      BY <2>1, <2>5, <3>1, Entry DEF n
  <2>9. log[n - ApiLimit + 1] + ApiWindow >= clock
    BY <2>0, <2>1, <2>6, <2>7, <2>8, SMTT(30)
  <2>10. n >= ApiLimit
    BY <2>0, <2>4
  <2>. QED
    BY <2>9, <2>10 DEF log, n
<1>. QED
  BY <1>1, WindowInvariant, PTL

(***************************************************************************)
(* Locks.                                                                  *)
(***************************************************************************)
\* A locked key is left alone until its time is over, by every action.
THEOREM LocksRunTheirTime == Spec => LockRunsItsTime
<1>1. TypeOK /\ [Next]_vars => [\A k \in Keys : Locked(k) => counters'[k] = counters[k]]_vars
  <2>. SUFFICES ASSUME TypeOK, [Next]_vars, NEW k \in Keys, Locked(k)
                PROVE  counters'[k] = counters[k]
    OBVIOUS
  <2>1. CASE UNCHANGED counters
    BY <2>1
  <2>2. ASSUME NEW a \in Addresses, Login(a)
        PROVE  counters'[k] = counters[k]
    <3>1. k \notin {AdminLogin, a}
      BY <2>2 DEF Login, Refused
    <3>. QED
      BY <2>2, <3>1 DEF Login, TypeOK
  <2>3. ASSUME NEW a \in Addresses, NEW l \in Logins, FailLogin(l, a)
        PROVE  counters'[k] = counters[k]
    <3>1. k \notin {l, a}
      BY <2>3 DEF FailLogin, Refused
    <3>. QED
      BY <2>3, <3>1 DEF FailLogin
  <2>. QED
    BY <2>1, <2>2, <2>3 DEF Next, vars, Tick, CallApi, RefuseLogin, loginVars
<1>. QED
  BY <1>1, ThrottleTypes, PTL DEF Spec, LockRunsItsTime

(***************************************************************************)
(* Answers.                                                                *)
(***************************************************************************)
\* The remembered call that a Retry-After waits for, and at least ApiLimit - 1
\* later ones; the header may end up to a second later.
Holding(times, until) ==
    \E i \in 1 .. Len(times) :
        times[i] + ApiWindow + Second >= until /\ Len(times) - i + 1 >= ApiLimit

\* One of the two keys of a login is locked for that long, but for less than
\* a second.
LockedFor(l, a, until) ==
    \E k \in {l, a} : counters[k].until + Second > until

\* A promise that is still to be kept.
AnswerInv ==
    promised.until >= clock + Second =>
        IF promised.login = "api"
        THEN promised.address \in Callers /\ Holding(calls[promised.address], promised.until)
        ELSE LockedFor(promised.login, promised.address, promised.until)

LEMMA HoldingFull ==
    ASSUME NEW times \in Seq(Nat), NEW until, Holding(times, until)
    PROVE  Len(times) >= ApiLimit
<1>1. ApiLimit \in Nat /\ Len(times) \in Nat
  BY PolicyNumbers
<1>. QED
  BY <1>1 DEF Holding

LEMMA HoldingPruned ==
    ASSUME NEW times \in Seq(Nat), clock \in Nat, NEW until \in Nat, until >= clock + Second,
           Holding(times, until), NEW rest, rest = Pruned(times, ApiWindow)
    PROVE  Holding(rest, until)
<1>. DEFINE k == Len(times)
<1>1. ApiWindow \in Nat /\ ApiLimit \in Nat /\ k \in Nat /\ Second \in Nat
  BY PolicyNumbers
<1>2. PICK i \in 1 .. k : times[i] + ApiWindow + Second >= until /\ k - i + 1 >= ApiLimit
  BY DEF Holding
<1>3. PICK d : DropsOutdated(times, ApiWindow, d)
  BY <1>1, PruningStops
<1>4. /\ rest \in Seq(Nat) /\ Len(rest) = k - d
      /\ \A j \in 1 .. k - d : rest[j] = times[d + j]
  BY <1>3, PrunedTimes
<1>5. d \in 0 .. k /\ \A j \in 1 .. d : times[j] + ApiWindow < clock
  BY <1>3 DEF DropsOutdated, Outdated
<1>. HIDE DEF k
<1>6. ~(i \in 1 .. d)
  <2>1. SUFFICES ASSUME i \in 1 .. d
                 PROVE  FALSE
    OBVIOUS
  <2>2. times[i] \in Nat /\ times[i] + ApiWindow < clock
    BY <1>2, <1>5, <2>1 DEF k
  <2>3. times[i] + ApiWindow + Second >= clock + Second
    BY <1>1, <1>2, <2>2
  <2>. QED
    BY <1>1, <2>2, <2>3
<1>7. i - d \in 1 .. k - d /\ d + (i - d) = i /\ (k - d) - (i - d) + 1 >= ApiLimit
  BY <1>1, <1>2, <1>5, <1>6
<1>8. rest[i - d] + ApiWindow + Second >= until
  BY <1>2, <1>4, <1>7
<1>. QED
  BY <1>4, <1>7, <1>8 DEF Holding

\* An API call keeps the promises given before it, and the one it gives.
LEMMA AnswerCall ==
    ASSUME TypeOK, AnswerInv, NEW a \in Callers, CallApi(a)
    PROVE  AnswerInv'
<1>. DEFINE rest == Pruned(calls[a], ApiWindow)
<1>1. /\ calls \in [Callers -> Seq(Nat)] /\ clock \in Nat
      /\ clock' = clock /\ counters' = counters
      /\ promised.until \in Nat /\ ApiLimit \in Nat /\ ApiLimit > 0 /\ ApiWindow \in Nat
  BY PolicyNumbers DEF TypeOK, CallApi, loginVars
<1>2. rest \in Seq(Nat)
  BY <1>1, PrunedType
<1>3. ASSUME promised.until >= clock + Second, promised.login = "api", promised.address = a
      PROVE  Holding(rest, promised.until) /\ Len(rest) >= ApiLimit
  <2>1. Holding(calls[a], promised.until) /\ calls[a] \in Seq(Nat)
    BY <1>1, <1>3 DEF AnswerInv
  <2>2. Holding(rest, promised.until)
    BY <1>1, <1>3, <2>1, HoldingPruned
  <2>. QED
    BY <1>2, <2>2, HoldingFull
<1>. HIDE DEF rest
<1>4. CASE /\ Len(rest) >= ApiLimit
           /\ calls' = [calls EXCEPT ![a] = rest]
           /\ Promise(Answer("api", a, Returning(rest[1] + ApiWindow)))
  <2>1. calls'[a] = rest /\ \A b \in Callers \ {a} : calls'[b] = calls[b]
    BY <1>1, <1>4
  <2>2. CASE promised' = Answer("api", a, Returning(rest[1] + ApiWindow))
    <3>1. rest[1] \in Nat /\ rest[1] + ApiWindow >= clock
      BY <1>1, <1>4, PrunedHead DEF rest
    <3>2. Returning(rest[1] + ApiWindow) <= rest[1] + ApiWindow + Second
      BY <1>1, <3>1, RoundedUp
    <3>3. 1 \in 1 .. Len(rest) /\ Len(rest) - 1 + 1 >= ApiLimit
      BY <1>1, <1>2, <1>4
    <3>4. Holding(rest, Returning(rest[1] + ApiWindow))
      BY <3>3, <3>2 DEF Holding
    <3>. QED
      BY <2>1, <2>2, <3>4 DEF AnswerInv, Answer
  <2>3. CASE promised' = promised
    <3>1. CASE promised.login = "api" /\ promised.address = a
      BY <1>1, <1>3, <2>1, <2>3, <3>1 DEF AnswerInv
    <3>2. CASE promised.login = "api" /\ promised.address # a
      BY <1>1, <2>1, <2>3, <3>2 DEF AnswerInv
    <3>3. CASE promised.login # "api"
      BY <1>1, <2>3, <3>3 DEF AnswerInv, LockedFor
    <3>. QED
      BY <3>1, <3>2, <3>3
  <2>. QED
    BY <1>4, <2>2, <2>3 DEF Promise
<1>5. CASE /\ Len(rest) < ApiLimit
           /\ calls' = [calls EXCEPT ![a] = Append(rest, clock)]
           /\ promised' = promised
  <2>1. \A b \in Callers \ {a} : calls'[b] = calls[b]
    BY <1>1, <1>5
  <2>2. ~(promised.until >= clock + Second /\ promised.login = "api" /\ promised.address = a)
    BY <1>1, <1>2, <1>3, <1>5
  <2>3. CASE promised.login = "api"
    BY <1>1, <1>5, <2>1, <2>2, <2>3 DEF AnswerInv
  <2>4. CASE promised.login # "api"
    BY <1>1, <1>5, <2>4 DEF AnswerInv, LockedFor
  <2>. QED
    BY <2>3, <2>4
<1>. QED
  BY <1>4, <1>5 DEF CallApi, rest

\* The lock of a refused login is not touched before its time.
LEMMA AnswerKept ==
    ASSUME TypeOK, AnswerInv, clock' = clock, calls' = calls, promised' = promised,
           \A k \in Keys : Locked(k) => counters'[k] = counters[k]
    PROVE  AnswerInv'
<1>1. CASE promised.login = "api"
  BY <1>1 DEF AnswerInv
<1>2. CASE promised.login # "api"
  <2>. SUFFICES ASSUME promised.until >= clock + Second
                PROVE  LockedFor(promised.login, promised.address, promised.until)'
    BY <1>2 DEF AnswerInv
  <2>1. /\ promised.login \in Keys /\ promised.address \in Keys
        /\ clock \in Nat /\ promised.until \in Nat /\ Second \in Nat
        /\ \A k \in Keys : counters[k].until \in Nat
    BY <1>2, PolicyNumbers DEF TypeOK, Counter
  <2>2. PICK k \in {promised.login, promised.address} : counters[k].until + Second > promised.until
    BY <1>2 DEF AnswerInv, LockedFor
  <2>3. Locked(k)
    BY <2>1, <2>2 DEF Locked
  <2>. QED
    BY <2>1, <2>2, <2>3 DEF LockedFor
<1>. QED
  BY <1>1, <1>2

\* A Retry-After is kept to less than a second, by which it may have been
\* rounded up: until then the login is refused from that address and the
\* address is refused by the API (assert_login_allowed, _ensure_not_locked,
\* register_login_failure, register_admin_api_request).
THEOREM AnswersAreKept == Spec => []RefusalHolds
<1>1. Init => AnswerInv
  BY PolicyNumbers DEF Init, AnswerInv, Answer
<1>2. TypeOK /\ AnswerInv /\ [Next]_vars => AnswerInv'
  <2>. SUFFICES ASSUME TypeOK, AnswerInv, [Next]_vars
                PROVE  AnswerInv'
    OBVIOUS
  <2>1. ASSUME NEW a \in Callers, CallApi(a)
        PROVE  AnswerInv'
    BY <2>1, AnswerCall
  <2>2. CASE Tick
    <3>1. /\ clock \in Nat /\ clock' = clock + 1 /\ promised.until \in Nat /\ Second \in Nat
          /\ calls' = calls /\ promised' = promised /\ counters' = counters
      BY <2>2, PolicyNumbers DEF Tick, TypeOK, loginVars, apiVars
    <3>2. promised'.until >= clock' + Second => promised.until >= clock + Second
      BY <3>1
    <3>3. CASE promised.login = "api"
      BY <3>1, <3>2, <3>3 DEF AnswerInv
    <3>4. CASE promised.login # "api" /\ promised'.until >= clock' + Second
      BY <3>1, <3>2, <3>4 DEF AnswerInv, LockedFor
    <3>. QED
      BY <3>3, <3>4 DEF AnswerInv
  <2>3. ASSUME NEW a \in Addresses, Login(a)
        PROVE  AnswerInv'
    <3>1. ASSUME NEW k \in Keys, Locked(k)
          PROVE  counters'[k] = counters[k]
      BY <2>3, <3>1 DEF Login, Refused, TypeOK
    <3>. QED
      BY <2>3, <3>1, AnswerKept DEF Login, apiVars
  <2>4. ASSUME NEW a \in Addresses, NEW l \in Logins, RefuseLogin(l, a)
        PROVE  AnswerInv'
    <3>1. CASE promised' = promised
      BY <2>4, <3>1, AnswerKept DEF RefuseLogin, loginVars, apiVars
    <3>2. CASE promised' = Answer(l, a, Reported(l, a))
      <4>. DEFINE k == IF Locked(l) THEN l ELSE a
      <4>1. /\ k \in {l, a} /\ counters[k].until \in Nat /\ clock \in Nat
            /\ counters[k].until > clock /\ Reported(l, a) = Returning(counters[k].until)
        BY <2>4, PolicyNumbers, SMTT(30) DEF RefuseLogin, Refused, Locked, Reported, TypeOK, Counter
      <4>. HIDE DEF k
      <4>2. counters[k].until + Second > Reported(l, a)
        BY <4>1, RoundedUp, PolicyNumbers
      <4>. QED
        BY <2>4, <3>2, <4>1, <4>2, ThrottleAssumption
           DEF RefuseLogin, AnswerInv, Answer, LockedFor, loginVars
    <3>. QED
      BY <2>4, <3>1, <3>2 DEF RefuseLogin, Promise
  <2>5. ASSUME NEW a \in Addresses, NEW l \in Logins, FailLogin(l, a)
        PROVE  AnswerInv'
    <3>1. CASE promised' = promised
      <4>1. ASSUME NEW k \in Keys, Locked(k)
            PROVE  counters'[k] = counters[k]
        BY <2>5, <4>1 DEF FailLogin, Refused
      <4>. QED
        BY <2>5, <3>1, <4>1, AnswerKept DEF FailLogin, apiVars
    <3>2. CASE promised'.login = l /\ promised'.address = a
               /\ promised'.until \in {AfterFailure(l).until, AfterFailure(a).until}
      <4>1. counters'[l] = AfterFailure(l) /\ counters'[a] = AfterFailure(a) /\ l # "api"
        BY <2>5, PolicyNumbers, ThrottleAssumption DEF FailLogin
      <4>2. AfterFailure(l).until \in Nat /\ AfterFailure(a).until \in Nat
            /\ Second \in Nat /\ Second > 0
        BY FailureCounter, PolicyNumbers DEF Counter
      <4>. QED
        BY <3>2, <4>1, <4>2 DEF AnswerInv, LockedFor
    <3>. QED
      BY <2>5, <3>1, <3>2 DEF FailLogin, Promise, Answer
  <2>6. CASE UNCHANGED vars
    BY <2>6, AnswerKept DEF vars
  <2>. QED
    BY <2>1, <2>2, <2>3, <2>4, <2>5, <2>6 DEF Next
<1>3. ASSUME TypeOK, AnswerInv, promised.until >= clock + Second, promised.login # "api"
      PROVE  Refused(promised.login, promised.address)
  <2>1. PICK k \in {promised.login, promised.address} : counters[k].until + Second > promised.until
    BY <1>3 DEF AnswerInv, LockedFor
  <2>2. k \in Keys
    BY <1>3, PolicyNumbers DEF TypeOK
  <2>3. /\ clock \in Nat /\ promised.until \in Nat /\ counters[k].until \in Nat
        /\ Second \in Nat
    BY <1>3, <2>2, PolicyNumbers DEF TypeOK, Counter
  <2>4. Locked(k)
    BY <1>3, <2>1, <2>3 DEF Locked
  <2>. QED
    BY <2>1, <2>4 DEF Refused
<1>4. ASSUME TypeOK, AnswerInv, promised.until >= clock + Second, promised.login = "api"
      PROVE  Len(Pruned(calls[promised.address], ApiWindow)) >= ApiLimit
  <2>. DEFINE times == calls[promised.address]
              rest == Pruned(times, ApiWindow)
  <2>1. Holding(times, promised.until) /\ times \in Seq(Nat)
    BY <1>4 DEF AnswerInv, TypeOK
  <2>2. clock \in Nat /\ promised.until \in Nat
    BY <1>4, PolicyNumbers DEF TypeOK
  <2>3. rest \in Seq(Nat)
    BY <2>1, PrunedType, PolicyNumbers
  <2>4. Holding(rest, promised.until)
    BY <1>4, <2>1, <2>2, HoldingPruned
  <2>. QED
    BY <2>3, <2>4, HoldingFull
<1>5. TypeOK /\ AnswerInv => RefusalHolds
  BY <1>3, <1>4 DEF RefusalHolds
<1>. QED
  BY <1>1, <1>2, <1>5, ThrottleTypes, PTL DEF Spec

(***************************************************************************)
(* How fast a key can fail.                                                *)
(***************************************************************************)
\* Powers of two are positive: there are as many subsets of a set.
LEMMA PowersOfTwo == \A n \in Nat : 2 ^ n \in Nat \ {0}
<1>. TAKE n \in Nat
<1>1. IsFiniteSet(1 .. n) /\ Cardinality(1 .. n) = n
  BY FS_Interval
<1>2. IsFiniteSet(SUBSET (1 .. n)) /\ Cardinality(SUBSET (1 .. n)) = 2 ^ n
  BY <1>1, FS_SUBSET
<1>3. SUBSET (1 .. n) # {}
  OBVIOUS
<1>. QED
  BY <1>2, <1>3, FS_CardinalityType, FS_EmptySet

\* No lockout is shorter than that of the first level.
LEMMA FirstLockoutShortest ==
    ASSUME NEW level \in Nat \ {0}
    PROVE  LockoutTime(level) >= LockoutTime(1)
<1>. DEFINE factor == 2 ^ (level - 1)
<1>1. factor \in Nat \ {0}
  BY PowersOfTwo
<1>2. LockoutBase \in Nat \ {0} /\ LockoutMax \in Nat \ {0}
  BY ThrottleAssumption
<1>3. LockoutTime(level) = Capped(LockoutBase * factor)
  BY DEF LockoutTime
<1>4. LockoutTime(1) = Capped(LockoutBase)
  <2>1. 2 ^ (1 - 1) = 1
    OBVIOUS
  <2>2. LockoutBase * 1 = LockoutBase
    BY <1>2
  <2>. QED
    BY <2>1, <2>2 DEF LockoutTime
<1>. HIDE DEF factor
<1>5. LockoutBase * factor \in Nat /\ LockoutBase * factor >= LockoutBase
  BY <1>1, <1>2
<1>. QED
  BY <1>2, <1>3, <1>4, <1>5 DEF Capped

FarApart(k, log) ==
    \A i \in 1 .. Len(log) :
        i + Limit(k) <= Len(log) =>
            \/ log[i + Limit(k)] > log[i] + Window(k)
            \/ log[i + Limit(k)] >= log[i] + LockoutTime(1)

\* All failures but those that the counter remembers are out of the window,
\* or a lockout began after them.
SettledAt(k, log, m, until, now) ==
    \A i \in 1 .. Len(log) - m :
        log[i] + Window(k) < now \/ log[i] + LockoutTime(1) <= until

\* What a counter has of the failures of its key: the latest ones, fewer than
\* the limit, and the end of the lockout that the others led to.
Tracks(k, log, times, until, now) ==
    /\ Latest(log, times)
    /\ Len(times) < Limit(k)
    /\ Past(log, now)
    /\ SettledAt(k, log, Len(times), until, now)
    /\ FarApart(k, log)

LEMMA TracksLater ==
    ASSUME NEW k, NEW log \in Seq(Nat), NEW times \in Seq(Nat), NEW until \in Nat,
           NEW now \in Nat, NEW later \in Nat, now <= later,
           Tracks(k, log, times, until, now)
    PROVE  Tracks(k, log, times, until, later)
<1>1. \A i \in 1 .. Len(log) : log[i] \in Nat
  BY Entry
<1>2. Past(log, later)
  BY <1>1 DEF Tracks, Past
<1>3. SettledAt(k, log, Len(times), until, later)
  <2>1. Len(times) <= Len(log) /\ Len(times) \in Nat /\ Len(log) \in Nat
    BY DEF Tracks, Latest
  <2>. QED
    BY <1>1, <2>1, PolicyNumbers, SMTT(30) DEF Tracks, SettledAt
<1>. QED
  BY <1>2, <1>3 DEF Tracks

\* One more failure of a key that is not locked.
LEMMA TracksFailure ==
    ASSUME NEW k, NEW log \in Seq(Nat), NEW times \in Seq(Nat), NEW until \in Nat,
           clock \in Nat, until <= clock, Tracks(k, log, times, until, clock),
           NEW rest, rest = Append(Pruned(times, Window(k)), clock)
    PROVE  /\ Latest(Append(log, clock), rest)
           /\ Len(rest) <= Limit(k)
           /\ Past(Append(log, clock), clock)
           /\ SettledAt(k, Append(log, clock), Len(rest), until, clock)
           /\ FarApart(k, Append(log, clock))
<1>. DEFINE N == Len(log)
            L == Limit(k)
            left == Pruned(times, Window(k))
            more == Append(log, clock)
<1>1. Window(k) \in Nat /\ L \in Nat /\ LockoutTime(1) \in Nat
  BY PolicyNumbers, LockoutBounded
<1>2. PICK n : DropsOutdated(times, Window(k), n)
  BY <1>1, PruningStops
<1>3. /\ left \in Seq(Nat) /\ Len(left) = Len(times) - n
      /\ \A i \in 1 .. Len(times) - n : left[i] = times[n + i]
  BY <1>2, PrunedTimes
<1>4. n \in 0 .. Len(times) /\ \A i \in 1 .. n : times[i] + Window(k) < clock
  BY <1>2 DEF DropsOutdated, Outdated
<1>5. /\ Len(times) \in Nat /\ N \in Nat /\ Len(times) <= N /\ Len(times) < L
      /\ \A i \in 1 .. Len(times) : times[i] = log[N - Len(times) + i]
  BY DEF Tracks, Latest
<1>6. \A i \in 1 .. N : log[i] \in Nat /\ log[i] <= clock
  BY Entry DEF Tracks, Past
<1>. HIDE DEF left, L
<1>7. rest = Append(left, clock)
  BY DEF left
<1>8. /\ Len(rest) = Len(left) + 1 /\ rest[Len(left) + 1] = clock
      /\ \A i \in 1 .. Len(left) : rest[i] = left[i]
      /\ Len(left) \in Nat /\ Len(left) <= Len(times)
  <2>1. /\ Len(rest) = Len(left) + 1 /\ rest[Len(left) + 1] = clock
        /\ \A i \in 1 .. Len(left) : rest[i] = left[i]
        /\ Len(left) \in Nat
    <3>1. left \in Seq(Nat)
      BY <1>3
    <3>2. rest = Append(left, clock)
      BY <1>7
    <3>. QED
      BY <3>1, <3>2
  <2>2. Len(left) <= Len(times)
    BY <1>3, <1>4, <1>5
  <2>. QED
    BY <2>1, <2>2
<1>9. /\ Len(more) = N + 1 /\ more[N + 1] = clock
      /\ \A i \in 1 .. N : more[i] = log[i]
  OBVIOUS
<1>. HIDE DEF more, N
<1>10. Len(rest) \in 1 .. L /\ Len(rest) <= N + 1
  <2>1. Len(rest) = Len(left) + 1 /\ Len(left) \in Nat /\ Len(left) <= Len(times)
    BY <1>8
  <2>2. Len(times) \in Nat /\ N \in Nat /\ Len(times) <= N /\ Len(times) < L /\ L \in Nat
    BY <1>1, <1>5
  <2>. QED
    BY <2>1, <2>2
<1>11. ASSUME NEW i \in 1 .. (N + 1) - Len(rest)
       PROVE  i \in 1 .. N /\ (log[i] + Window(k) < clock \/ log[i] + LockoutTime(1) <= until)
  <2>1. i \in 1 .. N
    BY <1>5, <1>10, <1>11
  <2>2. CASE i <= N - Len(times)
    <3>1. log[i] + Window(k) < clock \/ log[i] + LockoutTime(1) <= until
      BY <1>5, <2>1, <2>2 DEF Tracks, SettledAt, N
    <3>. QED
      BY <2>1, <3>1
  <2>3. CASE i > N - Len(times)
    <3>. DEFINE j == i - (N - Len(times))
    <3>1. j \in 1 .. n /\ N - Len(times) + j = i
      <4>1. Len(rest) = Len(times) - n + 1
        BY <1>3, <1>8
      <4>2. Len(times) \in Nat /\ N \in Nat /\ Len(times) <= N /\ n \in 0 .. Len(times)
        BY <1>4, <1>5
      <4>. QED
        BY <2>1, <2>3, <4>1, <4>2, SMTT(30)
    <3>2. j \in 1 .. Len(times)
      BY <1>4, <1>5, <3>1
    <3>. HIDE DEF j
    <3>3. log[i] = times[j]
      BY <1>5, <3>1, <3>2
    <3>. QED
      BY <1>4, <2>1, <3>1, <3>3
  <2>. QED
    BY <1>5, <2>1, <2>2, <2>3
<1>12. Latest(more, rest)
  <2>1. ASSUME NEW i \in 1 .. Len(rest)
        PROVE  rest[i] = more[(N + 1) - Len(rest) + i]
    <3>1. CASE i = Len(rest)
      <4>1. (N + 1) - Len(rest) + i = N + 1
        BY <1>5, <1>10, <3>1
      <4>. QED
        BY <1>8, <1>9, <3>1, <4>1
    <3>2. CASE i # Len(rest)
      <4>1. i \in 1 .. Len(left)
        BY <1>3, <1>4, <1>5, <1>8, <2>1, <3>2
      <4>2. rest[i] = times[n + i] /\ n + i \in 1 .. Len(times)
        BY <1>3, <1>4, <1>5, <1>8, <4>1, SMTT(30)
      <4>3. times[n + i] = log[N - Len(times) + (n + i)]
        BY <1>5, <4>2
      <4>4. N - Len(times) + (n + i) \in 1 .. N
        BY <1>5, <4>2, SMTT(30)
      <4>5. N - Len(times) + (n + i) = (N + 1) - Len(rest) + i
        BY <1>3, <1>4, <1>5, <1>8, <4>1
      <4>. QED
        BY <1>9, <4>2, <4>3, <4>4, <4>5
    <3>. QED
      BY <3>1, <3>2
  <2>. QED
    BY <1>9, <1>10, <2>1 DEF Latest
<1>13. Past(more, clock)
  <2>1. ASSUME NEW i \in 1 .. N + 1 PROVE more[i] <= clock
    <3>1. i \in 1 .. N \/ i = N + 1
      BY <1>5, <2>1
    <3>2. CASE i \in 1 .. N
      BY <1>6, <1>9, <3>2
    <3>3. CASE i = N + 1
      BY <1>9, <3>3
    <3>. QED
      BY <3>1, <3>2, <3>3
  <2>. QED
    BY <1>9, <2>1 DEF Past
<1>14. SettledAt(k, more, Len(rest), until, clock)
  BY <1>9, <1>11 DEF SettledAt
<1>15. FarApart(k, more)
  <2>1. ASSUME NEW i \in 1 .. N + 1, i + L <= N + 1
        PROVE  \/ more[i + L] > more[i] + Window(k)
               \/ more[i + L] >= more[i] + LockoutTime(1)
    <3>1. CASE i + L <= N
      <4>1. i \in 1 .. N /\ i + L \in 1 .. N
        BY <1>1, <1>5, <2>1, <3>1
      <4>2. \/ log[i + L] > log[i] + Window(k)
            \/ log[i + L] >= log[i] + LockoutTime(1)
        BY <3>1, <4>1 DEF Tracks, FarApart, L, N
      <4>. QED
        BY <1>9, <4>1, <4>2
    <3>2. CASE i + L = N + 1
      <4>1. i \in 1 .. (N + 1) - Len(rest)
        BY <1>1, <1>5, <1>10, <2>1, <3>2
      <4>2. i \in 1 .. N /\ (log[i] + Window(k) < clock \/ log[i] + LockoutTime(1) <= until)
        BY <1>11, <4>1
      <4>3. more[i + L] = clock /\ more[i] = log[i] /\ log[i] \in Nat
        BY <1>6, <1>9, <3>2, <4>2
      <4>. QED
        BY <1>1, <4>2, <4>3
    <3>. QED
      BY <1>1, <1>5, <2>1, <3>1, <3>2
  <2>. QED
    BY <1>9, <2>1 DEF FarApart, L
<1>. QED
  BY <1>10, <1>12, <1>13, <1>14, <1>15 DEF more, L

\* The failures that the history follows, beside the counter of their key.
SpacingInv ==
    LET counter == counters[failed.key]
    IN  Tracks(failed.key, failed.times, counter.timestamps, counter.until, clock)

\* A failed login charges the key that is followed, which is not locked.
LEMMA SpacingFailure ==
    ASSUME TypeOK, SpacingInv, NEW k \in Keys, failed.key = k, ~Locked(k),
           clock' = clock, counters'[k] = AfterFailure(k),
           failed' = [failed EXCEPT !.times = Append(@, clock)]
    PROVE  SpacingInv'
<1>. DEFINE log == failed.times
            counter == counters[k]
            rest == Append(Pruned(counter.timestamps, Window(k)), clock)
            level == counter.level + 1
            more == Append(log, clock)
<1>1. /\ log \in Seq(Nat) /\ clock \in Nat /\ counter \in Counter
      /\ counter.timestamps \in Seq(Nat) /\ counter.until \in Nat /\ counter.level \in Nat
      /\ counter.until <= clock
  BY DEF TypeOK, Counter, Locked
<1>2. failed'.key = k /\ failed'.times = more
  BY DEF TypeOK
<1>3. Tracks(k, log, counter.timestamps, counter.until, clock)
  BY DEF SpacingInv
<1>. HIDE DEF log, counter, rest, level, more
<1>4. /\ Latest(more, rest) /\ Len(rest) <= Limit(k) /\ Past(more, clock)
      /\ SettledAt(k, more, Len(rest), counter.until, clock) /\ FarApart(k, more)
  <2>1. rest = Append(Pruned(counter.timestamps, Window(k)), clock)
    BY DEF rest
  <2>. QED
    BY <1>1, <1>3, <2>1, TracksFailure DEF more
<1>5. CASE Len(rest) < Limit(k)
  <2>1. AfterFailure(k) = [counter EXCEPT !.timestamps = rest]
    BY <1>5 DEF AfterFailure, rest, counter
  <2>2. AfterFailure(k).timestamps = rest /\ AfterFailure(k).until = counter.until
    BY <1>1, <2>1 DEF Counter
  <2>. QED
    BY <1>2, <1>4, <1>5, <2>2 DEF SpacingInv, Tracks
<1>6. CASE ~(Len(rest) < Limit(k))
  <2>1. AfterFailure(k) = [timestamps |-> <<>>, until |-> clock + LockoutTime(level),
                           level |-> level]
    BY <1>6 DEF AfterFailure, rest, counter, level
  <2>2. AfterFailure(k).timestamps = <<>> /\ AfterFailure(k).until = clock + LockoutTime(level)
    BY <2>1
  <2>3. LockoutTime(level) >= LockoutTime(1) /\ LockoutTime(level) \in Nat /\ LockoutTime(1) \in Nat
    <3>1. level \in Nat \ {0}
      BY <1>1 DEF level
    <3>2. LockoutTime(level) \in 1 .. LockoutMax /\ LockoutTime(1) \in 1 .. LockoutMax
      BY LockoutBounded
    <3>. QED
      BY <3>1, <3>2, FirstLockoutShortest, PolicyNumbers
  <2>4. more \in Seq(Nat)
    BY <1>1 DEF more
  <2>5. SettledAt(k, more, 0, clock + LockoutTime(level), clock)
    <3>1. ASSUME NEW i \in 1 .. Len(more)
          PROVE  more[i] + LockoutTime(1) <= clock + LockoutTime(level)
      BY <1>1, <1>4, <2>3, <2>4, Entry, SMTT(30) DEF Past
    <3>. QED
      BY <2>4, <3>1 DEF SettledAt
  <2>6. Limit(k) > 0 /\ Len(<<>>) = 0
    BY ThrottleAssumption DEF Limit
  <2>7. Latest(more, <<>>)
    BY <2>4 DEF Latest
  <2>. QED
    BY <1>2, <1>4, <2>2, <2>5, <2>6, <2>7 DEF SpacingInv, Tracks
<1>. QED
  BY <1>5, <1>6

\* The steps that leave the counter and the failures of the key alone.
LEMMA SpacingKept ==
    ASSUME TypeOK, SpacingInv, clock' \in Nat, clock <= clock',
           failed' = failed, counters'[failed.key] = counters[failed.key]
    PROVE  SpacingInv'
<1>1. /\ failed.times \in Seq(Nat) /\ clock \in Nat /\ failed.key \in Keys
      /\ counters[failed.key].timestamps \in Seq(Nat) /\ counters[failed.key].until \in Nat
  BY DEF TypeOK, Counter
<1>. QED
  BY <1>1, TracksLater DEF SpacingInv

\* No failure and no lockout.
LEMMA SpacingReset ==
    ASSUME NEW k, NEW now, Limit(k) > 0
    PROVE  Tracks(k, <<>>, <<>>, 0, now)
<1>1. Len(<<>>) = 0 /\ 1 .. 0 = {}
  OBVIOUS
<1>. QED
  BY <1>1 DEF Tracks, Latest, Past, SettledAt, FarApart

\* One more failure of a key than its limit, with no success in between,
\* takes longer than the window or a lockout of the first level
\* (_record_failure drops the times that led to a lockout).
THEOREM GuessingIsSlow == Spec => []FailureSpacing
<1>1. \A k : Limit(k) > 0
  BY ThrottleAssumption DEF Limit
<1>2. Init => SpacingInv
  <2>. SUFFICES ASSUME Init PROVE SpacingInv
    OBVIOUS
  <2>1. failed.key \in Keys /\ failed.times = <<>>
    BY DEF Init
  <2>2. counters[failed.key].timestamps = <<>> /\ counters[failed.key].until = 0
    BY <2>1 DEF Init, NoFailures
  <2>. QED
    BY <1>1, <2>1, <2>2, SpacingReset DEF SpacingInv
<1>3. TypeOK /\ SpacingInv /\ [Next]_vars => SpacingInv'
  <2>. SUFFICES ASSUME TypeOK, SpacingInv, [Next]_vars
                PROVE  SpacingInv'
    OBVIOUS
  <2>1. clock \in Nat /\ failed.key \in Keys /\ counters \in [Keys -> Counter]
    BY DEF TypeOK
  <2>2. CASE UNCHANGED vars \/ Tick \/ (\E a \in Callers : CallApi(a))
             \/ (\E a \in Addresses, l \in Logins : RefuseLogin(l, a))
    <3>1. UNCHANGED loginVars /\ clock' \in {clock, clock + 1}
      BY <2>2 DEF vars, Tick, CallApi, RefuseLogin, loginVars
    <3>. QED
      BY <2>1, <3>1, SpacingKept DEF loginVars
  <2>3. ASSUME NEW a \in Addresses, NEW l \in Logins, FailLogin(l, a)
        PROVE  SpacingInv'
    <3>1. /\ clock' = clock
          /\ counters'[failed.key] = IF failed.key \in {l, a} THEN AfterFailure(failed.key)
                                     ELSE counters[failed.key]
          /\ failed' = IF failed.key \in {l, a} THEN [failed EXCEPT !.times = Append(@, clock)]
                       ELSE failed
      BY <2>1, <2>3 DEF FailLogin
    <3>2. CASE failed.key \in {l, a}
      <4>1. ~Locked(failed.key)
        BY <2>3, <3>2 DEF FailLogin, Refused
      <4>. QED
        BY <2>1, <3>1, <3>2, <4>1, SpacingFailure
    <3>3. CASE failed.key \notin {l, a}
      BY <2>1, <3>1, <3>3, SpacingKept
    <3>. QED
      BY <3>2, <3>3
  <2>4. ASSUME NEW a \in Addresses, Login(a)
        PROVE  SpacingInv'
    <3>1. /\ clock' = clock
          /\ counters'[failed.key] = IF failed.key \in {AdminLogin, a} THEN NoFailures
                                     ELSE counters[failed.key]
          /\ failed' = IF failed.key \in {AdminLogin, a} THEN [failed EXCEPT !.times = <<>>]
                       ELSE failed
      BY <2>1, <2>4 DEF Login
    <3>2. CASE failed.key \in {AdminLogin, a}
      <4>1. failed'.key = failed.key /\ failed'.times = <<>>
        BY <3>1, <3>2 DEF TypeOK
      <4>2. counters'[failed.key].timestamps = <<>> /\ counters'[failed.key].until = 0
        BY <3>1, <3>2 DEF NoFailures
      <4>. QED
        BY <1>1, <4>1, <4>2, SpacingReset DEF SpacingInv
    <3>3. CASE failed.key \notin {AdminLogin, a}
      BY <2>1, <3>1, <3>3, SpacingKept
    <3>. QED
      BY <3>2, <3>3
  <2>. QED
    BY <2>2, <2>3, <2>4 DEF Next
<1>4. SpacingInv => FailureSpacing
  BY DEF SpacingInv, Tracks, FarApart, FailureSpacing
<1>. QED
  BY <1>2, <1>3, <1>4, ThrottleTypes, PTL DEF Spec
=============================================================================
