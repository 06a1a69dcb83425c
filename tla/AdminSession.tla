---------------------------- MODULE AdminSession ----------------------------
(***************************************************************************)
(* The administrative session: the signed cookie that the server issues    *)
(* and verifies without keeping any state, the guard before the            *)
(* administrative API, and the tabs of one browser that share the cookie   *)
(* and keep the CSRF token each for itself.  Requests are answered in any  *)
(* order, or not at all.                                                   *)
(***************************************************************************)
EXTENDS Naturals, FiniteSets

CONSTANTS
    Tabs,        \* tabs of the browser
    MaxInFlight, \* bound: requests in flight when another one is sent
    Ttl,         \* admin_session_ttl_seconds
    MaxClock,    \* bound on the clock
    MaxLogins,   \* bound on the sessions issued
    MaxReloads,  \* bound on the page loads
    NoToken      \* no cookie

ASSUME SessionAssumption ==
    /\ Ttl \in Nat /\ MaxClock \in Nat /\ MaxLogins \in Nat /\ MaxReloads \in Nat
    /\ MaxInFlight \in Nat \ {0}
    /\ NoToken \notin [csrf : 1 .. MaxLogins, expires : Nat]

Slots == 1 .. MaxInFlight

VARIABLES
    clock,     \* the server's time
    issued,    \* number of sessions issued: their CSRF tokens are 1, 2, ...
    jar,       \* the session cookie of the browser
    shown,     \* shown[t]: "resolving", "login" or "panel"
    csrf,      \* csrf[t]: currentAdminCsrfToken of t, 0 for null
    requests,  \* requests[t][s]: a request in flight
    reloads,   \* number of page loads
    arrivals,  \* history: how often a login has set the cookie
    epoch      \* history: epoch[t], "arrivals" when the cookie had the CSRF token of t

vars == <<clock, issued, jar, shown, csrf, requests, reloads, arrivals, epoch>>

Tokens == [csrf : 1 .. MaxLogins, expires : 0 .. MaxClock + Ttl]

Kinds == {"session", "login", "logout", "read", "write"}

Free == [kind |-> "none", status |-> "free", cookie |-> NoToken, csrf |-> 0,
         seen |-> 0, stale |-> FALSE, token |-> NoToken]

(***************************************************************************)
(* The client sends: cookies and the CSRF header are taken at that moment. *)
(* Of the header, only what a mutation carries is kept: nothing else is    *)
(* looked at.                                                              *)
(***************************************************************************)
Request(t, kind) ==
    [kind   |-> kind,
     status |-> "sent",
     cookie |-> jar,
     csrf   |-> IF kind = "write" THEN csrf[t] ELSE 0,
     seen   |-> 0,
     stale  |-> kind = "write" /\ epoch[t] # arrivals,
     token  |-> NoToken]

\* fetchCurrentAdminSession of a page that starts with this cookie.
Question(cookie, arrived) ==
    [kind |-> "session", status |-> "sent", cookie |-> cookie, csrf |-> 0,
     seen |-> arrived, stale |-> FALSE, token |-> NoToken]

\* Slots are alike: a request takes the first free one.
FirstFree(t, s) ==
    /\ requests[t][s] = Free
    /\ \A i \in Slots : requests[t][i] = Free => s <= i

Send(t, kind) ==
    /\ Cardinality({x \in Tabs \X Slots : requests[x[1]][x[2]] # Free}) < MaxInFlight
    /\ \E s \in Slots :
          /\ FirstFree(t, s)
          /\ requests' = [requests EXCEPT ![t][s] = Request(t, kind)]
    /\ UNCHANGED <<clock, issued, jar, shown, csrf, reloads, arrivals, epoch>>

\* handleAdminLogin, with one login of a tab in flight at most.
Login(t) ==
    /\ shown[t] = "login"
    /\ \A s \in Slots : requests[t][s].kind # "login"
    /\ Send(t, "login")

\* Everything the panel does: loads of its data, mutations, and the logout.
Work(t) ==
    /\ shown[t] = "panel"
    /\ \E kind \in {"read", "write", "logout"} : Send(t, kind)

\* The page is loaded: the module starts without a token and asks for the
\* session.  Requests of the old page are dropped, the cookie of one whose
\* headers have arrived is not.
Load(t) ==
    /\ reloads < MaxReloads
    /\ reloads' = reloads + 1
    /\ shown' = [shown EXCEPT ![t] = "resolving"]
    /\ csrf' = [csrf EXCEPT ![t] = 0]
    /\ requests' = [requests EXCEPT ![t] =
          [s \in Slots |-> IF s = 1 THEN Question(jar, arrivals) ELSE Free]]
    /\ UNCHANGED <<clock, issued, jar, arrivals, epoch>>

(***************************************************************************)
(* The server.                                                             *)
(***************************************************************************)
\* verify_signed_token: a token of this server that has not expired.
Valid(token) == token # NoToken /\ clock < token.expires

\* create_session.
NewToken == [csrf |-> issued + 1, expires |-> clock + Ttl]

\* Variant of GuardAnswer: the CSRF header is not looked at.
GuardAnswer_NoCsrf(r) ==
    IF Valid(r.cookie) THEN "ok" ELSE "unauthorized"

\* AdminGuardMiddleware: the session, then the header of whatever is no read.
GuardAnswer(r) ==
    CASE ~Valid(r.cookie) -> "unauthorized"
      [] Valid(r.cookie) /\ r.kind = "write" /\ r.csrf # r.cookie.csrf -> "forbidden"
      [] OTHER -> "ok"

Answered(t, s, status, token) ==
    requests' = [requests EXCEPT ![t][s].status = status, ![t][s].token = token]

\* create_admin_session: the credentials may be wrong, and the throttle
\* (AdminThrottle) may refuse any login.
CreateSession(t, s) ==
    /\ requests[t][s].kind = "login"
    /\ \/ /\ issued < MaxLogins
          /\ issued' = issued + 1
          /\ Answered(t, s, "ok", NewToken)
       \/ /\ \E status \in {"unauthorized", "error"} : Answered(t, s, status, NoToken)
          /\ UNCHANGED issued

\* get_admin_session, authorize_grafana_proxy.
GetSession(t, s) ==
    LET r == requests[t][s] IN
    /\ r.kind = "session"
    /\ IF Valid(r.cookie) THEN Answered(t, s, "ok", r.cookie)
                          ELSE Answered(t, s, "unauthorized", NoToken)
    /\ UNCHANGED issued

\* delete_admin_session: neither the session nor the header is looked at, and
\* the token that is deleted in the browser stays valid.
DeleteSession(t, s) ==
    /\ requests[t][s].kind = "logout"
    /\ Answered(t, s, "ok", NoToken)
    /\ UNCHANGED issued

\* A call of the administrative API; the throttle may refuse any.
Guarded(t, s) ==
    LET r == requests[t][s] IN
    /\ r.kind \in {"read", "write"}
    /\ \E status \in {"error", GuardAnswer(r)} :
          Answered(t, s, status, NoToken)
    /\ UNCHANGED issued

Serve(t, s) ==
    /\ requests[t][s].status = "sent"
    /\ \/ CreateSession(t, s) \/ GetSession(t, s) \/ DeleteSession(t, s) \/ Guarded(t, s)
    /\ UNCHANGED <<clock, jar, shown, csrf, reloads, arrivals, epoch>>

\* The network fails, before or after the server has done its part, and also
\* between the headers of an answer and its body.
Lose(t, s) ==
    /\ requests[t][s].status \notin {"free", "error"}
    /\ requests' = [requests EXCEPT ![t][s].status = "error"]
    /\ UNCHANGED <<clock, issued, jar, shown, csrf, reloads, arrivals, epoch>>

(***************************************************************************)
(* The client handles an answer.  The headers come first: the browser      *)
(* stores the cookie of a login, or deletes that of a logout, for all      *)
(* tabs.  The code goes on when it has read the body.                      *)
(***************************************************************************)
StoreCookie(t, s) ==
    LET r == requests[t][s] IN
    /\ r.kind \in {"login", "logout"} /\ r.status = "ok"
    /\ jar' = r.token
    /\ arrivals' = IF r.kind = "login" THEN arrivals + 1 ELSE arrivals
    /\ requests' = [requests EXCEPT ![t][s].status = "stored", ![t][s].seen = arrivals']
    /\ UNCHANGED <<clock, issued, shown, csrf, reloads, epoch>>

Show(t, view, token) ==
    /\ shown' = [shown EXCEPT ![t] = view]
    /\ csrf' = [csrf EXCEPT ![t] = token]

\* requestAdminJson: any 401 clears the token and dispatches the event that
\* brings back the login form.
Expired(t, s) ==
    /\ requests[t][s].status = "unauthorized"
    /\ Show(t, "login", 0)
    /\ UNCHANGED <<jar, arrivals, epoch>>

\* Variant of LoggedIn: the token of the answer is not kept.
LoggedIn_KeepsToken(t, s) ==
    LET r == requests[t][s] IN
    /\ r.kind = "login" /\ r.status = "stored"
    /\ Show(t, "panel", IF csrf[t] = 0 THEN r.token.csrf ELSE csrf[t])
    /\ epoch' = [epoch EXCEPT ![t] = r.seen]
    /\ UNCHANGED <<jar, arrivals>>

LoggedIn(t, s) ==
    LET r == requests[t][s] IN
    /\ r.kind = "login" /\ r.status = "stored"
    /\ Show(t, "panel", r.token.csrf)
    /\ epoch' = [epoch EXCEPT ![t] = r.seen]
    /\ UNCHANGED <<jar, arrivals>>

\* The session of the cookie with which the page asked.
Resumed(t, s) ==
    LET r == requests[t][s] IN
    /\ r.kind = "session" /\ r.status = "ok"
    /\ Show(t, "panel", r.token.csrf)
    /\ epoch' = [epoch EXCEPT ![t] = r.seen]
    /\ UNCHANGED <<jar, arrivals>>

LoggedOut(t, s) ==
    /\ requests[t][s].kind = "logout" /\ requests[t][s].status = "stored"
    /\ Show(t, "login", 0)
    /\ UNCHANGED <<jar, arrivals, epoch>>

\* Variant of Failed: the panel is given up at any error.
Failed_GivesUp(t, s) ==
    /\ requests[t][s].status \in {"error", "forbidden"}
    /\ shown' = [shown EXCEPT ![t] = "login"]
    /\ UNCHANGED <<jar, csrf, arrivals, epoch>>

\* Any other error: a page that was resolving shows the login form, and so
\* does handleAdminLogout (finally), with the token and the cookie kept.
Failed(t, s) ==
    /\ requests[t][s].status \in {"error", "forbidden"}
    /\ shown' = IF requests[t][s].kind \in {"session", "logout"}
                THEN [shown EXCEPT ![t] = "login"] ELSE shown
    /\ UNCHANGED <<jar, csrf, arrivals, epoch>>

Succeeded(t, s) ==
    /\ requests[t][s].kind \in {"read", "write"} /\ requests[t][s].status = "ok"
    /\ UNCHANGED <<jar, shown, csrf, arrivals, epoch>>

Receive(t, s) ==
    /\ \/ Expired(t, s) \/ LoggedIn(t, s) \/ Resumed(t, s)
       \/ LoggedOut(t, s) \/ Failed(t, s) \/ Succeeded(t, s)
    /\ requests' = [requests EXCEPT ![t][s] = Free]
    /\ UNCHANGED <<clock, issued, reloads>>

Tick ==
    /\ clock < MaxClock
    /\ clock' = clock + 1
    /\ UNCHANGED <<issued, jar, shown, csrf, requests, reloads, arrivals, epoch>>

Init ==
    /\ clock = 0 /\ issued = 0 /\ jar = NoToken
    /\ shown = [t \in Tabs |-> "login"]
    /\ csrf = [t \in Tabs |-> 0]
    /\ requests = [t \in Tabs |-> [s \in Slots |-> Free]]
    /\ reloads = 0 /\ arrivals = 0
    /\ epoch = [t \in Tabs |-> 0]

Next ==
    \/ \E t \in Tabs : Login(t) \/ Work(t) \/ Load(t)
    \/ \E t \in Tabs, s \in Slots :
          Serve(t, s) \/ Lose(t, s) \/ StoreCookie(t, s) \/ Receive(t, s)
    \/ Tick

Spec == Init /\ [][Next]_vars

(***************************************************************************)
(* Properties.                                                             *)
(***************************************************************************)
Requests ==
    [kind : Kinds \cup {"none"},
     status : {"free", "sent", "ok", "stored", "unauthorized", "forbidden", "error"},
     cookie : Tokens \cup {NoToken}, csrf : 0 .. MaxLogins, seen : Nat, stale : BOOLEAN,
     token : Tokens \cup {NoToken}]

\* Every variable has its type.
TypeOK ==
    /\ clock \in 0 .. MaxClock /\ issued \in 0 .. MaxLogins
    /\ jar \in Tokens \cup {NoToken}
    /\ shown \in [Tabs -> {"resolving", "login", "panel"}]
    /\ csrf \in [Tabs -> 0 .. MaxLogins]
    /\ requests \in [Tabs -> [Slots -> Requests]]
    /\ reloads \in 0 .. MaxReloads /\ arrivals \in Nat
    /\ epoch \in [Tabs -> Nat]

\* A tab that shows the panel has a CSRF token, so that no mutation leaves it
\* without the header: whatever clears the token takes the panel away, too.
PanelHasToken == \A t \in Tabs : shown[t] = "panel" => csrf[t] # 0

\* A mutation is refused for its CSRF header only if another login has replaced
\* the cookie that belongs to its tab's token, be it before the tab had read
\* that token: the server never refuses a tab that is alone, in whatever order
\* its requests are answered.
ForbiddenOnlyAfterOtherLogin ==
    \A t \in Tabs, s \in Slots : requests[t][s].status = "forbidden" => requests[t][s].stale

\* A mutation is carried out only under the session that its tab was given:
\* the cookie that another tab's login has brought since is not enough.
WritesUnderOwnSession ==
    \A t \in Tabs, s \in Slots :
        requests[t][s].kind = "write" /\ requests[t][s].status = "ok" => ~requests[t][s].stale

\* A tab loses the panel only by its own logout or page load, or by the
\* answer to a request whose cookie was missing or has expired.
PanelLeftForReason ==
    [][\A t \in Tabs :
        shown[t] = "panel" /\ shown'[t] # "panel" =>
            \/ shown'[t] = "resolving"
            \/ \E s \in Slots :
                 LET r == requests[t][s] IN
                 /\ r # Free /\ requests'[t][s] = Free
                 /\ r.kind = "logout" \/ ~Valid(r.cookie)]_vars
=============================================================================
