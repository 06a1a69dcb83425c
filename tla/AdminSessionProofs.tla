------------------------- MODULE AdminSessionProofs -------------------------
(***************************************************************************)
(* Proofs about AdminSession, for any number of tabs, of requests in       *)
(* flight, of logins and page loads, and any lifetime of a session.        *)
(***************************************************************************)
EXTENDS AdminSession, TLAPS

\* A login that was answered and whose cookie is not yet in the browser.
Unread(t, s) == requests[t][s].kind = "login" /\ requests[t][s].status = "ok"

Asking(t, s) == requests[t][s].kind = "session"

\* A login whose cookie is in the browser and whose token is not yet in its tab.
Stored(t, s) == requests[t][s].kind = "login" /\ requests[t][s].status = "stored"

\* A tab waits for a token: for that of its login, or of the cookie it asked with.
Awaiting(t, s) == Asking(t, s) \/ Stored(t, s)

Coming(t, s) ==
    IF requests[t][s].kind = "login" THEN requests[t][s].token ELSE requests[t][s].cookie

\* Where a tab waits for a login or for its session, it shows so, and a page
\* that asks for its session asks for nothing else.
ViewsFollow ==
    \A t \in Tabs, s \in Slots :
        /\ requests[t][s].kind = "login" =>
              /\ shown[t] = "login"
              /\ \A i \in Slots : requests[t][i].kind = "login" => i = s
        /\ Asking(t, s) =>
              /\ shown[t] = "resolving"
              /\ \A i \in Slots : i # s => requests[t][i] = Free

\* What an answer says of its request.
AnswerFits(t, s) ==
    LET r == requests[t][s] IN
    /\ Unread(t, s) \/ Stored(t, s) => r.token \in Tokens
    /\ r.kind = "logout" /\ r.status = "ok" => r.token = NoToken
    /\ Asking(t, s) /\ r.status = "ok" => r.token = r.cookie /\ r.token \in Tokens
    /\ r.status = "unauthorized" /\ r.kind # "login" => ~Valid(r.cookie)
    /\ r.status = "forbidden" =>
          r.kind = "write" /\ r.cookie \in Tokens /\ r.cookie.csrf # r.csrf
    /\ r.kind = "write" /\ r.status = "ok" =>
          r.cookie \in Tokens /\ r.cookie.csrf = r.csrf
    /\ r.kind = "none" => r = Free

AnswersFit == \A t \in Tabs, s \in Slots : AnswerFits(t, s)

\* Every token in use was issued.
AllIssued ==
    /\ jar \in Tokens => jar.csrf <= issued
    /\ \A t \in Tabs : csrf[t] <= issued
    /\ \A t \in Tabs, s \in Slots :
          /\ Unread(t, s) => requests[t][s].token.csrf <= issued
          /\ Awaiting(t, s) /\ Coming(t, s) \in Tokens => Coming(t, s).csrf <= issued

\* The token of a login that was not yet read is nowhere else.
UnreadIsNew ==
    \A t \in Tabs, s \in Slots : Unread(t, s) =>
        LET new == requests[t][s].token.csrf IN
        /\ jar \in Tokens => jar.csrf # new
        /\ \A u \in Tabs : csrf[u] # new
        /\ \A u \in Tabs, i \in Slots :
              /\ Awaiting(u, i) /\ Coming(u, i) \in Tokens => Coming(u, i).csrf # new
              /\ Unread(u, i) /\ <<u, i>> # <<t, s>> => requests[u][i].token.csrf # new

\* A token that a tab was given, or is about to be given, at the arrival e of
\* a login: it is the one of the cookie exactly if no login has arrived since.
TracksWith(token, e, cookie, n) ==
    /\ e <= n
    /\ cookie \in Tokens => (cookie.csrf = token <=> e = n)

Tracks(token, e) == TracksWith(token, e, jar, arrivals)

TokensTracked ==
    /\ \A t \in Tabs : shown[t] = "panel" => csrf[t] # 0 /\ Tracks(csrf[t], epoch[t])
    /\ \A t \in Tabs, s \in Slots :
          LET r == requests[t][s] IN
          /\ Awaiting(t, s) /\ Coming(t, s) \in Tokens => Tracks(Coming(t, s).csrf, r.seen)
          /\ r.kind = "write" /\ r.cookie \in Tokens => (r.stale <=> r.cookie.csrf # r.csrf)

SessionInv ==
    TypeOK /\ ViewsFollow /\ AnswersFit /\ AllIssued /\ UnreadIsNew /\ TokensTracked

(***************************************************************************)
(* Tokens and requests.                                                    *)
(***************************************************************************)
LEMMA TokenFacts ==
    /\ NoToken \notin Tokens
    /\ \A k \in Tokens : k.csrf \in 1 .. MaxLogins /\ k.expires \in Nat
<1>1. Tokens \subseteq [csrf : 1 .. MaxLogins, expires : Nat]
  BY SessionAssumption DEF Tokens
<1>. QED
  BY <1>1, SessionAssumption

LEMMA FreeType == Free \in Requests
  BY SessionAssumption DEF Free, Requests

LEMMA OneSlot == 1 \in Slots
  BY SessionAssumption DEF Slots

LEMMA NewTokenType ==
    ASSUME TypeOK, issued < MaxLogins
    PROVE  NewToken \in Tokens /\ NewToken.csrf = issued + 1
  BY SessionAssumption DEF NewToken, Tokens, TypeOK

LEMMA RequestType ==
    ASSUME TypeOK, NEW t \in Tabs, NEW kind \in Kinds
    PROVE  Request(t, kind) \in Requests
<1>1. jar \in Tokens \cup {NoToken} /\ csrf[t] \in 0 .. MaxLogins
  BY DEF TypeOK
<1>. QED
  BY <1>1, SessionAssumption DEF Request, Requests

\* Every request but that of t and s stays as it is.
OthersStay(t, s) ==
    \A u \in Tabs, i \in Slots : u # t \/ i # s => requests'[u][i] = requests[u][i]

RequestsTyped == requests' \in [Tabs -> [Slots -> Requests]]

LEMMA OneRequest ==
    ASSUME TypeOK, NEW t \in Tabs, NEW s \in Slots, NEW r \in Requests,
           requests' = [requests EXCEPT ![t][s] = r]
    PROVE  RequestsTyped /\ OthersStay(t, s) /\ requests'[t][s] = r
  BY DEF TypeOK, RequestsTyped, OthersStay

\* What the server's answer, or the network's failure, leaves of a request.
Keeps(t, s) ==
    LET r == requests[t][s]
        n == requests'[t][s]
    IN n.kind = r.kind /\ n.cookie = r.cookie /\ n.csrf = r.csrf /\ n.seen = r.seen /\ n.stale = r.stale

LEMMA AnswerEffect ==
    ASSUME TypeOK, NEW t \in Tabs, NEW s \in Slots,
           NEW status \in {"ok", "unauthorized", "forbidden", "error"},
           NEW token \in Tokens \cup {NoToken}, Answered(t, s, status, token)
    PROVE  /\ RequestsTyped /\ OthersStay(t, s) /\ Keeps(t, s)
           /\ requests'[t][s].status = status /\ requests'[t][s].token = token
<1>1. requests \in [Tabs -> [Slots -> Requests]] /\ requests[t][s] \in Requests
  BY DEF TypeOK
<1>. DEFINE r == [requests[t][s] EXCEPT !.status = status, !.token = token]
<1>2. r \in Requests
  BY <1>1 DEF Requests
<1>3. requests' = [requests EXCEPT ![t][s] = r]
  BY <1>1 DEF Answered
<1>4. /\ r.status = status /\ r.token = token
      /\ r.kind = requests[t][s].kind /\ r.cookie = requests[t][s].cookie
      /\ r.csrf = requests[t][s].csrf /\ r.seen = requests[t][s].seen
      /\ r.stale = requests[t][s].stale
  BY <1>1 DEF Requests
<1>. HIDE DEF r
<1>. QED
  BY <1>2, <1>3, <1>4, OneRequest DEF Keeps

LEMMA LoseEffect ==
    ASSUME TypeOK, NEW t \in Tabs, NEW s \in Slots, Lose(t, s)
    PROVE  /\ RequestsTyped /\ OthersStay(t, s) /\ Keeps(t, s)
           /\ requests'[t][s].status = "error" /\ requests'[t][s].token = requests[t][s].token
<1>1. requests \in [Tabs -> [Slots -> Requests]] /\ requests[t][s] \in Requests
  BY DEF TypeOK
<1>. DEFINE r == [requests[t][s] EXCEPT !.status = "error"]
<1>2. r \in Requests
  BY <1>1 DEF Requests
<1>3. requests' = [requests EXCEPT ![t][s] = r]
  BY <1>1 DEF Lose
<1>4. /\ r.status = "error" /\ r.token = requests[t][s].token
      /\ r.kind = requests[t][s].kind /\ r.cookie = requests[t][s].cookie
      /\ r.csrf = requests[t][s].csrf /\ r.seen = requests[t][s].seen
      /\ r.stale = requests[t][s].stale
  BY <1>1 DEF Requests
<1>. HIDE DEF r
<1>. QED
  BY <1>2, <1>3, <1>4, OneRequest DEF Keeps

LEMMA SendEffect ==
    ASSUME TypeOK, NEW t \in Tabs, NEW kind \in Kinds, Send(t, kind)
    PROVE  \E s \in Slots :
              /\ requests[t][s] = Free /\ requests'[t][s] = Request(t, kind)
              /\ RequestsTyped /\ OthersStay(t, s)
  BY RequestType, OneRequest DEF Send, FirstFree

LEMMA QuestionType ==
    ASSUME NEW k \in Tokens \cup {NoToken}, NEW n \in Nat
    PROVE  Question(k, n) \in Requests
  BY SessionAssumption DEF Question, Requests, Kinds

LEMMA LoadEffect ==
    ASSUME TypeOK, NEW t \in Tabs, Load(t)
    PROVE  /\ RequestsTyped
           /\ requests'[t][1] = Question(jar, arrivals)
           /\ \A i \in Slots : i # 1 => requests'[t][i] = Free
           /\ \A u \in Tabs, i \in Slots : u # t => requests'[u][i] = requests[u][i]
<1>1. requests \in [Tabs -> [Slots -> Requests]] /\ jar \in Tokens \cup {NoToken} /\ arrivals \in Nat
  BY DEF TypeOK
<1>2. PICK r \in Requests : r = Question(jar, arrivals)
  BY <1>1, QuestionType
<1>3. requests' = [requests EXCEPT ![t] = [i \in Slots |-> IF i = 1 THEN r ELSE Free]]
  BY <1>2 DEF Load
<1>4. RequestsTyped
  BY <1>1, <1>3, FreeType DEF RequestsTyped
<1>5. /\ requests'[t][1] = r
      /\ \A i \in Slots : i # 1 => requests'[t][i] = Free
      /\ \A u \in Tabs, i \in Slots : u # t => requests'[u][i] = requests[u][i]
  BY <1>1, <1>3, OneSlot
<1>. QED
  BY <1>2, <1>4, <1>5

LEMMA FreeEffect ==
    ASSUME TypeOK, NEW t \in Tabs, NEW s \in Slots, Receive(t, s)
    PROVE  RequestsTyped /\ OthersStay(t, s) /\ requests'[t][s] = Free
  BY FreeType, OneRequest DEF Receive

(***************************************************************************)
(* The invariant holds at the start and after an answer.                   *)
(***************************************************************************)
LEMMA InitInv == Init => SessionInv
<1>. SUFFICES ASSUME Init PROVE SessionInv
  OBVIOUS
<1>1. \A t \in Tabs, s \in Slots : requests[t][s] = Free
  BY DEF Init
<1>2. TypeOK
  BY FreeType, SessionAssumption DEF Init, TypeOK
<1>3. \A t \in Tabs, s \in Slots :
        /\ ~Unread(t, s) /\ ~Asking(t, s) /\ ~Stored(t, s) /\ ~Awaiting(t, s)
        /\ requests[t][s].kind = "none" /\ requests[t][s].status = "free"
  BY <1>1 DEF Unread, Asking, Stored, Awaiting, Free
<1>4. ViewsFollow /\ AnswersFit
  BY <1>1, <1>3 DEF ViewsFollow, AnswersFit, AnswerFits, Asking
<1>5. jar \notin Tokens /\ (\A t \in Tabs : csrf[t] <= issued /\ shown[t] # "panel")
  BY TokenFacts DEF Init
<1>6. AllIssued /\ UnreadIsNew
  BY <1>3, <1>5 DEF AllIssued, UnreadIsNew
<1>7. TokensTracked
  BY <1>3, <1>5 DEF TokensTracked
<1>. QED
  BY <1>2, <1>4, <1>6, <1>7 DEF SessionInv

\* A request that is answered or lost, with nothing else changed.
LEMMA AnswerKeeps ==
    ASSUME SessionInv, NEW t \in Tabs, NEW s \in Slots,
           RequestsTyped, OthersStay(t, s), Keeps(t, s), requests[t][s].status # "free",
           requests'[t][s].status # "stored", AnswerFits(t, s)', Unread(t, s)' => requests'[t][s].token.csrf = issued + 1,
           issued' \in 0 .. MaxLogins, issued <= issued', Unread(t, s)' => issued' = issued + 1,
           UNCHANGED <<clock, jar, shown, csrf, reloads, arrivals, epoch>>
    PROVE  SessionInv'
<1>1. TypeOK'
  BY DEF SessionInv, TypeOK, RequestsTyped
<1>2. ViewsFollow'
  <2>1. \A u \in Tabs, i \in Slots :
          /\ requests'[u][i].kind = requests[u][i].kind
          /\ Asking(u, i)' <=> Asking(u, i)
          /\ requests[u][i] = Free => requests'[u][i] = Free
    BY DEF Asking, Keeps, OthersStay, Free
  <2>2. ASSUME NEW u \in Tabs, NEW i \in Slots, requests'[u][i].kind = "login"
        PROVE  /\ shown'[u] = "login"
               /\ \A k \in Slots : requests'[u][k].kind = "login" => k = i
    BY <2>1, <2>2 DEF SessionInv, ViewsFollow
  <2>3. ASSUME NEW u \in Tabs, NEW i \in Slots, Asking(u, i)'
        PROVE  /\ shown'[u] = "resolving"
               /\ \A k \in Slots : k # i => requests'[u][k] = Free
    BY <2>1, <2>3 DEF SessionInv, ViewsFollow
  <2>. QED
    BY <2>2, <2>3 DEF ViewsFollow
<1>3. \A u \in Tabs, i \in Slots : u # t \/ i # s =>
        /\ (Unread(u, i)' <=> Unread(u, i)) /\ (Awaiting(u, i)' <=> Awaiting(u, i))
        /\ Coming(u, i)' = Coming(u, i)
        /\ (AnswerFits(u, i)' <=> AnswerFits(u, i))
  BY DEF OthersStay, AnswerFits, Unread, Asking, Stored, Awaiting, Coming, Valid
<1>4. AnswersFit'
  BY <1>3 DEF SessionInv, AnswersFit
<1>5. Awaiting(t, s)' => Awaiting(t, s) /\ Coming(t, s)' = Coming(t, s)
  BY DEF Keeps, Asking, Stored, Awaiting, Coming
<1>6. /\ issued \in Nat /\ issued' \in Nat
      /\ \A u \in Tabs : csrf[u] \in Nat
      /\ \A k \in Tokens : k.csrf \in Nat
      /\ \A u \in Tabs, i \in Slots : Unread(u, i) => requests[u][i].token \in Tokens
  BY TokenFacts DEF SessionInv, TypeOK, AnswersFit, AnswerFits
<1>7. AllIssued'
  BY <1>3, <1>5, <1>6 DEF SessionInv, AllIssued, Keeps, OthersStay
<1>8. UnreadIsNew'
  <2>. SUFFICES ASSUME NEW u \in Tabs, NEW i \in Slots, Unread(u, i)',
                       NEW v \in Tabs, NEW j \in Slots, NEW w \in Tabs
                PROVE  LET new == requests'[u][i].token.csrf IN
                       /\ jar' \in Tokens => jar'.csrf # new
                       /\ csrf'[w] # new
                       /\ Awaiting(v, j)' /\ Coming(v, j)' \in Tokens =>
                             Coming(v, j)'.csrf # new
                       /\ Unread(v, j)' /\ <<v, j>> # <<u, i>> => requests'[v][j].token.csrf # new
    BY DEF UnreadIsNew
  <2>1. CASE u = t /\ i = s
    BY <2>1, <1>3, <1>5, <1>6 DEF SessionInv, AllIssued, Keeps, OthersStay
  <2>2. CASE u # t \/ i # s
    <3>1. Unread(u, i) /\ requests'[u][i] = requests[u][i] /\ requests[u][i].token.csrf <= issued
      BY <1>3, <2>2 DEF OthersStay, SessionInv, AllIssued
    <3>2. jar' \in Tokens => jar'.csrf # requests[u][i].token.csrf
      BY <3>1 DEF SessionInv, UnreadIsNew
    <3>3. csrf'[w] # requests[u][i].token.csrf
      BY <3>1 DEF SessionInv, UnreadIsNew
    <3>4. Awaiting(v, j)' /\ Coming(v, j)' \in Tokens =>
            Coming(v, j)'.csrf # requests[u][i].token.csrf
      <4>1. Awaiting(v, j)' => Awaiting(v, j) /\ Coming(v, j)' = Coming(v, j)
        BY <1>3, <1>5
      <4>. QED
        BY <3>1, <4>1 DEF SessionInv, UnreadIsNew
    <3>5. Unread(v, j)' /\ <<v, j>> # <<u, i>> =>
            requests'[v][j].token.csrf # requests[u][i].token.csrf
      <4>1. CASE v = t /\ j = s
        BY <3>1, <4>1, <1>6
      <4>2. CASE v # t \/ j # s
        <5>1. Unread(v, j)' => Unread(v, j) /\ requests'[v][j] = requests[v][j]
          BY <4>2, <1>3 DEF OthersStay
        <5>. QED
          BY <3>1, <5>1 DEF SessionInv, UnreadIsNew
      <4>. QED
        BY <4>1, <4>2
    <3>. QED
      BY <3>1, <3>2, <3>3, <3>4, <3>5
  <2>. QED
    BY <2>1, <2>2
<1>9. TokensTracked'
  BY <1>3, <1>5 DEF SessionInv, TokensTracked, Tracks, TracksWith, Keeps, OthersStay
<1>. QED
  BY <1>1, <1>2, <1>4, <1>7, <1>8, <1>9 DEF SessionInv

(***************************************************************************)
(* The server, the network and the clock.                                  *)
(***************************************************************************)
LEMMA CookieType ==
    ASSUME SessionInv, NEW t \in Tabs, NEW s \in Slots
    PROVE  /\ requests[t][s] \in Requests
           /\ requests[t][s].cookie \in Tokens \cup {NoToken}
           /\ Valid(requests[t][s].cookie) => requests[t][s].cookie \in Tokens
<1>1. requests[t][s] \in Requests
  BY DEF SessionInv, TypeOK
<1>2. requests[t][s].cookie \in Tokens \cup {NoToken}
  BY <1>1 DEF Requests
<1>. QED
  BY <1>1, <1>2 DEF Valid

LEMMA ServeKeeps ==
    ASSUME SessionInv, NEW t \in Tabs, NEW s \in Slots, Serve(t, s)
    PROVE  SessionInv'
<1>. DEFINE r == requests[t][s]
<1>1. /\ TypeOK /\ requests[t][s].status = "sent"
      /\ issued \in 0 .. MaxLogins
      /\ UNCHANGED <<clock, jar, shown, csrf, reloads, arrivals, epoch>>
  BY DEF Serve, SessionInv, TypeOK
<1>2. NoToken \in Tokens \cup {NoToken}
  OBVIOUS
<1>3. CASE CreateSession(t, s)
  <2>1. CASE issued < MaxLogins /\ issued' = issued + 1 /\ Answered(t, s, "ok", NewToken)
    <3>1. NewToken \in Tokens /\ NewToken.csrf = issued + 1
      BY <2>1, <1>1, NewTokenType
    <3>2. /\ RequestsTyped /\ OthersStay(t, s) /\ Keeps(t, s)
          /\ requests'[t][s].status = "ok" /\ requests'[t][s].token = NewToken
      BY <1>1, <2>1, <3>1, AnswerEffect
    <3>3. requests'[t][s].kind = "login"
      BY <1>3, <3>2 DEF CreateSession, Keeps
    <3>4. AnswerFits(t, s)'
      BY <3>1, <3>2, <3>3 DEF AnswerFits, Unread, Asking, Stored
    <3>5. issued' \in 0 .. MaxLogins /\ issued <= issued'
      BY <1>1, <2>1, SessionAssumption
    <3>. QED
      BY <1>1, <2>1, <3>1, <3>2, <3>4, <3>5, AnswerKeeps
  <2>2. ASSUME NEW status \in {"unauthorized", "error"}, Answered(t, s, status, NoToken), UNCHANGED issued
        PROVE  SessionInv'
    <3>1. /\ RequestsTyped /\ OthersStay(t, s) /\ Keeps(t, s)
          /\ requests'[t][s].status = status
      BY <1>1, <1>2, <2>2, AnswerEffect
    <3>2. requests'[t][s].kind = "login"
      BY <1>3, <3>1 DEF CreateSession, Keeps
    <3>3. AnswerFits(t, s)' /\ ~Unread(t, s)'
      BY <3>1, <3>2 DEF AnswerFits, Unread, Asking, Stored
    <3>. QED
      BY <1>1, <2>2, <3>1, <3>3, AnswerKeeps
  <2>. QED
    BY <1>3, <2>1, <2>2 DEF CreateSession
<1>4. CASE GetSession(t, s)
  <2>1. CASE Valid(r.cookie)
    <3>1. r.cookie \in Tokens /\ Answered(t, s, "ok", r.cookie) /\ UNCHANGED issued
      BY <1>4, <2>1, CookieType DEF GetSession
    <3>2. /\ RequestsTyped /\ OthersStay(t, s) /\ Keeps(t, s)
          /\ requests'[t][s].status = "ok" /\ requests'[t][s].token = r.cookie
      BY <1>1, <3>1, AnswerEffect
    <3>3. requests'[t][s].kind = "session" /\ requests'[t][s].cookie = r.cookie
      BY <1>4, <3>2 DEF GetSession, Keeps
    <3>4. AnswerFits(t, s)' /\ ~Unread(t, s)'
      BY <3>1, <3>2, <3>3 DEF AnswerFits, Unread, Asking, Stored
    <3>. QED
      BY <1>1, <3>1, <3>2, <3>4, AnswerKeeps
  <2>2. CASE ~Valid(r.cookie)
    <3>1. Answered(t, s, "unauthorized", NoToken) /\ UNCHANGED issued
      BY <1>4, <2>2 DEF GetSession
    <3>2. /\ RequestsTyped /\ OthersStay(t, s) /\ Keeps(t, s)
          /\ requests'[t][s].status = "unauthorized"
      BY <1>1, <1>2, <3>1, AnswerEffect
    <3>3. requests'[t][s].kind = "session" /\ ~Valid(requests[t][s].cookie)'
      BY <1>1, <1>4, <2>2, <3>2 DEF GetSession, Keeps, Valid
    <3>4. AnswerFits(t, s)' /\ ~Unread(t, s)'
      BY <3>2, <3>3 DEF AnswerFits, Unread, Asking, Stored
    <3>. QED
      BY <1>1, <3>1, <3>2, <3>4, AnswerKeeps
  <2>. QED
    BY <2>1, <2>2
<1>5. CASE DeleteSession(t, s)
  <2>1. Answered(t, s, "ok", NoToken) /\ UNCHANGED issued
    BY <1>5 DEF DeleteSession
  <2>2. /\ RequestsTyped /\ OthersStay(t, s) /\ Keeps(t, s)
        /\ requests'[t][s].status = "ok" /\ requests'[t][s].token = NoToken
    BY <1>1, <1>2, <2>1, AnswerEffect
  <2>3. requests'[t][s].kind = "logout"
    BY <1>5, <2>2 DEF DeleteSession, Keeps
  <2>4. AnswerFits(t, s)' /\ ~Unread(t, s)'
    BY <2>2, <2>3 DEF AnswerFits, Unread, Asking, Stored
  <2>. QED
    BY <1>1, <2>1, <2>2, <2>4, AnswerKeeps
<1>6. CASE Guarded(t, s)
  <2>1. PICK status \in {"error", GuardAnswer(r)} : Answered(t, s, status, NoToken)
    BY <1>6 DEF Guarded
  <2>2. /\ status \in {"ok", "unauthorized", "forbidden", "error"}
        /\ status = "unauthorized" => ~Valid(r.cookie)
        /\ status = "forbidden" => Valid(r.cookie) /\ r.kind = "write" /\ r.csrf # r.cookie.csrf
        /\ status = "ok" /\ r.kind = "write" => Valid(r.cookie) /\ r.csrf = r.cookie.csrf
    <3>1. CASE ~Valid(r.cookie)
      BY <3>1, <2>1 DEF GuardAnswer
    <3>2. CASE Valid(r.cookie) /\ r.kind = "write" /\ r.csrf # r.cookie.csrf
      BY <3>2, <2>1 DEF GuardAnswer
    <3>3. CASE Valid(r.cookie) /\ ~(r.kind = "write" /\ r.csrf # r.cookie.csrf)
      BY <3>3, <2>1 DEF GuardAnswer
    <3>. QED
      BY <3>1, <3>2, <3>3
  <2>3. /\ RequestsTyped /\ OthersStay(t, s) /\ Keeps(t, s)
        /\ requests'[t][s].status = status /\ status # "stored"
    BY <1>1, <1>2, <2>1, <2>2, AnswerEffect
  <2>4. requests'[t][s].kind \in {"read", "write"} /\ UNCHANGED issued
    BY <1>6, <2>3 DEF Guarded, Keeps
  <2>5. AnswerFits(t, s)' /\ ~Unread(t, s)'
    BY <1>1, <2>2, <2>3, <2>4, CookieType DEF AnswerFits, Unread, Asking, Stored, Keeps, Valid
  <2>. QED
    BY <1>1, <2>3, <2>4, <2>5, AnswerKeeps
<1>. QED
  BY <1>3, <1>4, <1>5, <1>6 DEF Serve

LEMMA LoseKeeps ==
    ASSUME SessionInv, NEW t \in Tabs, NEW s \in Slots, Lose(t, s)
    PROVE  SessionInv'
<1>1. /\ TypeOK /\ AnswerFits(t, s) /\ requests[t][s].status # "free"
      /\ issued \in 0 .. MaxLogins
      /\ UNCHANGED <<clock, issued, jar, shown, csrf, reloads, arrivals, epoch>>
  BY DEF Lose, SessionInv, TypeOK, AnswersFit
<1>2. /\ RequestsTyped /\ OthersStay(t, s) /\ Keeps(t, s)
      /\ requests'[t][s].status = "error"
  BY <1>1, LoseEffect
<1>3. requests[t][s].kind # "none"
  BY <1>1 DEF AnswerFits, Free
<1>4. AnswerFits(t, s)' /\ ~Unread(t, s)'
  BY <1>2, <1>3 DEF AnswerFits, Unread, Asking, Stored, Keeps
<1>. QED
  BY <1>1, <1>2, <1>4, AnswerKeeps

LEMMA TickKeeps == SessionInv /\ Tick => SessionInv'
<1>. SUFFICES ASSUME SessionInv, Tick PROVE SessionInv'
  OBVIOUS
<1>1. /\ clock \in Nat /\ clock' = clock + 1
      /\ UNCHANGED <<issued, jar, shown, csrf, requests, reloads, arrivals, epoch>>
  BY DEF Tick, SessionInv, TypeOK
<1>2. TypeOK'
  BY <1>1, SessionAssumption DEF SessionInv, TypeOK, Tick
<1>3. \A t \in Tabs, s \in Slots : ~Valid(requests[t][s].cookie) => ~Valid(requests[t][s].cookie)'
  <2>. SUFFICES ASSUME NEW t \in Tabs, NEW s \in Slots, ~Valid(requests[t][s].cookie)
                PROVE  ~Valid(requests[t][s].cookie)'
    OBVIOUS
  <2>1. requests[t][s].cookie \in Tokens => requests[t][s].cookie.expires \in Nat
    BY TokenFacts
  <2>. QED
    BY <1>1, <2>1, CookieType DEF Valid
<1>4. AnswersFit'
  BY <1>1, <1>3 DEF SessionInv, AnswersFit, AnswerFits, Unread, Asking, Stored
<1>5. ViewsFollow' /\ AllIssued' /\ UnreadIsNew' /\ TokensTracked'
  BY <1>1 DEF SessionInv, ViewsFollow, AllIssued, UnreadIsNew, TokensTracked, Tracks, TracksWith,
              Unread, Asking, Stored, Awaiting, Coming
<1>. QED
  BY <1>2, <1>4, <1>5 DEF SessionInv

(***************************************************************************)
(* The client sends a request, or loads its page.                          *)
(***************************************************************************)
LEMMA SendKeeps ==
    ASSUME SessionInv, NEW t \in Tabs, Login(t) \/ Work(t)
    PROVE  SessionInv'
<1>1. PICK kind \in {"login", "read", "write", "logout"} :
        /\ Send(t, kind)
        /\ kind = "login" => shown[t] = "login" /\ \A s \in Slots : requests[t][s].kind # "login"
        /\ kind # "login" => shown[t] = "panel"
  BY DEF Login, Work
<1>2. /\ TypeOK
      /\ UNCHANGED <<clock, issued, jar, shown, csrf, reloads, arrivals, epoch>>
  BY <1>1 DEF Send, SessionInv
<1>3. PICK s \in Slots :
        /\ requests[t][s] = Free /\ requests'[t][s] = Request(t, kind)
        /\ RequestsTyped /\ OthersStay(t, s)
  BY <1>1, <1>2, SendEffect DEF Kinds
<1>4. /\ requests'[t][s].kind = kind /\ requests'[t][s].status = "sent"
      /\ requests'[t][s].cookie = jar
      /\ kind = "write" => requests'[t][s].csrf = csrf[t]
      /\ kind = "write" => (requests'[t][s].stale <=> epoch[t] # arrivals)
  <2>1. /\ Request(t, kind).kind = kind /\ Request(t, kind).status = "sent"
        /\ Request(t, kind).cookie = jar
        /\ kind = "write" => Request(t, kind).csrf = csrf[t]
    BY DEF Request
  <2>2. Request(t, kind).stale = (kind = "write" /\ epoch[t] # arrivals)
    BY DEF Request
  <2>3. kind = "write" => (Request(t, kind).stale <=> epoch[t] # arrivals)
    BY <2>2, Zenon
  <2>. QED
    BY <1>3, <2>1, <2>3
<1>5. \A u \in Tabs, i \in Slots :
        /\ Unread(u, i)' => Unread(u, i) /\ requests'[u][i] = requests[u][i]
        /\ Asking(u, i)' => Asking(u, i)
        /\ Awaiting(u, i)' => /\ Awaiting(u, i) /\ requests'[u][i] = requests[u][i]
                              /\ Coming(u, i)' = Coming(u, i)
  BY <1>1, <1>3, <1>4 DEF Unread, Asking, Stored, Awaiting, Coming, OthersStay
<1>6. TypeOK'
  BY <1>2, <1>3 DEF TypeOK, RequestsTyped
<1>7. ViewsFollow'
  <2>1. ASSUME NEW u \in Tabs, NEW i \in Slots, requests'[u][i].kind = "login"
        PROVE  /\ shown'[u] = "login"
               /\ \A k \in Slots : requests'[u][k].kind = "login" => k = i
    BY <1>1, <1>2, <1>3, <1>4, <2>1 DEF SessionInv, ViewsFollow, OthersStay, Free
  <2>2. ASSUME NEW u \in Tabs, NEW i \in Slots, Asking(u, i)'
        PROVE  /\ shown'[u] = "resolving"
               /\ \A k \in Slots : k # i => requests'[u][k] = Free
    <3>1. Asking(u, i) /\ shown[u] = "resolving"
      BY <1>5, <2>2 DEF SessionInv, ViewsFollow
    <3>2. u # t
      BY <1>1, <3>1
    <3>. QED
      BY <1>2, <1>3, <3>1, <3>2 DEF SessionInv, ViewsFollow, OthersStay
  <2>. QED
    BY <2>1, <2>2 DEF ViewsFollow
<1>8. AnswersFit'
  <2>1. AnswerFits(t, s)'
    BY <1>1, <1>4 DEF AnswerFits, Unread, Asking, Stored
  <2>2. ASSUME NEW u \in Tabs, NEW i \in Slots, u # t \/ i # s
        PROVE  AnswerFits(u, i)'
    BY <1>2, <1>3, <2>2 DEF SessionInv, AnswersFit, AnswerFits, Unread, Asking, Stored, Valid, OthersStay
  <2>. QED
    BY <2>1, <2>2 DEF AnswersFit
<1>9. AllIssued'
  BY <1>2, <1>5 DEF SessionInv, AllIssued
<1>10. UnreadIsNew'
  BY <1>2, <1>5 DEF SessionInv, UnreadIsNew
<1>11. TokensTracked'
  <2>1. \A u \in Tabs : shown'[u] = "panel" => csrf'[u] # 0 /\ Tracks(csrf[u], epoch[u])'
    BY <1>2 DEF SessionInv, TokensTracked, Tracks, TracksWith
  <2>2. ASSUME NEW u \in Tabs, NEW i \in Slots, Awaiting(u, i)', Coming(u, i)' \in Tokens
        PROVE  Tracks(Coming(u, i).csrf, requests[u][i].seen)'
    BY <1>2, <1>5, <2>2 DEF SessionInv, TokensTracked, Tracks, TracksWith
  <2>3. ASSUME NEW u \in Tabs, NEW i \in Slots, requests'[u][i].kind = "write",
               requests'[u][i].cookie \in Tokens
        PROVE  requests'[u][i].stale <=> requests'[u][i].cookie.csrf # requests'[u][i].csrf
    <3>1. CASE u = t /\ i = s
      <4>1. kind = "write" /\ shown[t] = "panel" /\ jar \in Tokens
        BY <1>1, <1>4, <2>3, <3>1
      <4>2. jar.csrf = csrf[t] <=> epoch[t] = arrivals
        BY <4>1 DEF SessionInv, TokensTracked, Tracks, TracksWith
      <4>. QED
        BY <1>4, <3>1, <4>1, <4>2
    <3>2. CASE u # t \/ i # s
      BY <1>3, <2>3, <3>2 DEF SessionInv, TokensTracked, OthersStay
    <3>. QED
      BY <3>1, <3>2
  <2>. QED
    BY <2>1, <2>2, <2>3 DEF TokensTracked
<1>. QED
  BY <1>6, <1>7, <1>8, <1>9, <1>10, <1>11 DEF SessionInv

LEMMA LoadKeeps ==
    ASSUME SessionInv, NEW t \in Tabs, Load(t)
    PROVE  SessionInv'
<1>1. /\ TypeOK /\ UNCHANGED <<clock, issued, jar, arrivals, epoch>>
      /\ shown' = [shown EXCEPT ![t] = "resolving"] /\ csrf' = [csrf EXCEPT ![t] = 0]
      /\ reloads' \in 0 .. MaxReloads
  BY SessionAssumption DEF Load, SessionInv, TypeOK
<1>2. /\ RequestsTyped
      /\ requests'[t][1] = Question(jar, arrivals)
      /\ \A i \in Slots : i # 1 => requests'[t][i] = Free
      /\ \A u \in Tabs, i \in Slots : u # t => requests'[u][i] = requests[u][i]
  BY <1>1, LoadEffect
<1>3. /\ shown'[t] = "resolving" /\ csrf'[t] = 0
      /\ \A u \in Tabs : u # t => shown'[u] = shown[u] /\ csrf'[u] = csrf[u]
  BY <1>1 DEF TypeOK
<1>4. /\ requests'[t][1].kind = "session" /\ requests'[t][1].status = "sent"
      /\ requests'[t][1].cookie = jar /\ requests'[t][1].seen = arrivals
  BY <1>2 DEF Question
<1>5. /\ Free.kind = "none" /\ Free.status = "free"
      /\ \A i \in Slots : ~Unread(t, i)' /\ (Awaiting(t, i)' => i = 1)
      /\ Coming(t, 1)' = jar
      /\ \A u \in Tabs, i \in Slots : u # t =>
            /\ (Unread(u, i)' <=> Unread(u, i)) /\ (Asking(u, i)' <=> Asking(u, i))
            /\ (Awaiting(u, i)' <=> Awaiting(u, i)) /\ Coming(u, i)' = Coming(u, i)
  BY <1>2, <1>4 DEF Unread, Asking, Stored, Awaiting, Coming, Free
<1>6. TypeOK'
  <2>1. 0 \in 0 .. MaxLogins
    BY SessionAssumption
  <2>2. shown' \in [Tabs -> {"resolving", "login", "panel"}] /\ csrf' \in [Tabs -> 0 .. MaxLogins]
    BY <1>1, <2>1 DEF TypeOK
  <2>. QED
    BY <1>1, <1>2, <2>2 DEF TypeOK, RequestsTyped
<1>7. ViewsFollow'
  <2>1. ASSUME NEW u \in Tabs, NEW i \in Slots, requests'[u][i].kind = "login"
        PROVE  /\ shown'[u] = "login"
               /\ \A k \in Slots : requests'[u][k].kind = "login" => k = i
    BY <1>2, <1>3, <1>4, <1>5, <2>1 DEF SessionInv, ViewsFollow
  <2>2. ASSUME NEW u \in Tabs, NEW i \in Slots, Asking(u, i)'
        PROVE  /\ shown'[u] = "resolving"
               /\ \A k \in Slots : k # i => requests'[u][k] = Free
    <3>1. CASE u = t
      <4>1. i = 1
        BY <1>5, <2>2, <3>1 DEF Awaiting
      <4>. QED
        BY <1>2, <1>3, <3>1, <4>1
    <3>2. CASE u # t
      BY <1>2, <1>3, <1>5, <2>2, <3>2 DEF SessionInv, ViewsFollow
    <3>. QED
      BY <3>1, <3>2
  <2>. QED
    BY <2>1, <2>2 DEF ViewsFollow
<1>8. AnswersFit'
  <2>1. AnswerFits(t, 1)'
    BY <1>4 DEF AnswerFits, Unread, Asking, Stored
  <2>2. ASSUME NEW i \in Slots, i # 1 PROVE AnswerFits(t, i)'
    BY <1>2, <1>5, <2>2 DEF AnswerFits, Unread, Asking, Stored
  <2>3. ASSUME NEW u \in Tabs, NEW i \in Slots, u # t PROVE AnswerFits(u, i)'
    BY <1>1, <1>2, <2>3 DEF SessionInv, AnswersFit, AnswerFits, Unread, Asking, Stored, Valid
  <2>. QED
    BY <2>1, <2>2, <2>3 DEF AnswersFit
<1>9. AllIssued'
  <2>1. issued \in Nat
    BY <1>1 DEF TypeOK
  <2>. QED
    BY <1>1, <1>2, <1>3, <1>5, <2>1 DEF SessionInv, AllIssued
<1>10. UnreadIsNew'
  <2>. SUFFICES ASSUME NEW u \in Tabs, NEW i \in Slots, Unread(u, i)',
                       NEW v \in Tabs, NEW j \in Slots, NEW w \in Tabs
                PROVE  LET new == requests'[u][i].token.csrf IN
                       /\ jar' \in Tokens => jar'.csrf # new
                       /\ csrf'[w] # new
                       /\ Awaiting(v, j)' /\ Coming(v, j)' \in Tokens =>
                             Coming(v, j)'.csrf # new
                       /\ Unread(v, j)' /\ <<v, j>> # <<u, i>> => requests'[v][j].token.csrf # new
    BY DEF UnreadIsNew
  <2>1. u # t /\ Unread(u, i) /\ requests'[u][i] = requests[u][i]
    BY <1>2, <1>5
  <2>2. requests[u][i].token \in Tokens /\ requests[u][i].token.csrf # 0
    BY <2>1, TokenFacts DEF SessionInv, AnswersFit, AnswerFits
  <2>3. jar \in Tokens => jar.csrf # requests[u][i].token.csrf
    BY <2>1 DEF SessionInv, UnreadIsNew
  <2>4. csrf'[w] # requests[u][i].token.csrf
    BY <1>3, <2>1, <2>2 DEF SessionInv, UnreadIsNew
  <2>5. Awaiting(v, j)' /\ Coming(v, j)' \in Tokens =>
          Coming(v, j)'.csrf # requests[u][i].token.csrf
    <3>1. CASE v = t
      BY <1>5, <2>3, <3>1
    <3>2. CASE v # t
      BY <1>5, <2>1, <3>2 DEF SessionInv, UnreadIsNew
    <3>. QED
      BY <3>1, <3>2
  <2>6. Unread(v, j)' /\ <<v, j>> # <<u, i>> =>
          requests'[v][j].token.csrf # requests[u][i].token.csrf
    BY <1>2, <1>5, <2>1 DEF SessionInv, UnreadIsNew
  <2>. QED
    BY <1>1, <2>1, <2>3, <2>4, <2>5, <2>6
<1>11. TokensTracked'
  <2>1. ASSUME NEW u \in Tabs, shown'[u] = "panel"
        PROVE  csrf'[u] # 0 /\ Tracks(csrf[u], epoch[u])'
    BY <1>1, <1>3, <2>1 DEF SessionInv, TokensTracked, Tracks
  <2>2. ASSUME NEW u \in Tabs, NEW i \in Slots, Awaiting(u, i)', Coming(u, i)' \in Tokens
        PROVE  Tracks(Coming(u, i).csrf, requests[u][i].seen)'
    <3>1. CASE u = t
      <4>1. i = 1 /\ Coming(u, i)' = jar /\ requests'[u][i].seen = arrivals /\ arrivals \in Nat
        BY <1>1, <1>4, <1>5, <2>2, <3>1 DEF TypeOK
      <4>. QED
        BY <1>1, <4>1 DEF Tracks, TracksWith
    <3>2. CASE u # t
      BY <1>1, <1>2, <1>5, <2>2, <3>2 DEF SessionInv, TokensTracked, Tracks
    <3>. QED
      BY <3>1, <3>2
  <2>3. ASSUME NEW u \in Tabs, NEW i \in Slots, requests'[u][i].kind = "write",
               requests'[u][i].cookie \in Tokens
        PROVE  requests'[u][i].stale <=> requests'[u][i].cookie.csrf # requests'[u][i].csrf
    <3>1. u # t
      BY <1>2, <1>4, <1>5, <2>3
    <3>. QED
      BY <1>2, <2>3, <3>1 DEF SessionInv, TokensTracked
  <2>. QED
    BY <2>1, <2>2, <2>3 DEF TokensTracked
<1>. QED
  BY <1>6, <1>7, <1>8, <1>9, <1>10, <1>11 DEF SessionInv

(***************************************************************************)
(* The browser stores a cookie, or deletes it.                             *)
(***************************************************************************)
LEMMA StoreEffect ==
    ASSUME TypeOK, NEW t \in Tabs, NEW s \in Slots, StoreCookie(t, s)
    PROVE  LET r == requests[t][s]
               n == requests'[t][s] IN
           /\ RequestsTyped /\ OthersStay(t, s)
           /\ r.token \in Tokens \cup {NoToken} /\ arrivals' \in Nat
           /\ n.kind = r.kind /\ n.cookie = r.cookie /\ n.csrf = r.csrf /\ n.token = r.token
           /\ n.stale = r.stale /\ n.status = "stored" /\ n.seen = arrivals'
<1>1. /\ requests \in [Tabs -> [Slots -> Requests]] /\ requests[t][s] \in Requests
      /\ arrivals' \in Nat
  BY DEF TypeOK, StoreCookie
<1>. DEFINE n == [requests[t][s] EXCEPT !.status = "stored", !.seen = arrivals']
<1>2. n \in Requests
  BY <1>1 DEF Requests
<1>3. requests' = [requests EXCEPT ![t][s] = n]
  BY <1>1 DEF StoreCookie
<1>4. /\ n.status = "stored" /\ n.seen = arrivals'
      /\ n.kind = requests[t][s].kind /\ n.cookie = requests[t][s].cookie
      /\ n.csrf = requests[t][s].csrf /\ n.token = requests[t][s].token
      /\ n.stale = requests[t][s].stale /\ requests[t][s].token \in Tokens \cup {NoToken}
  BY <1>1 DEF Requests
<1>. HIDE DEF n
<1>. QED
  BY <1>1, <1>2, <1>3, <1>4, OneRequest

\* What the tabs and the requests know of the cookie when it changes.
LEMMA StoreTracked ==
    ASSUME SessionInv, NEW t \in Tabs, NEW s \in Slots, StoreCookie(t, s)
    PROVE  /\ jar' \in Tokens => Unread(t, s) /\ jar' = requests[t][s].token
           /\ \A token, e : /\ Tracks(token, e) /\ e \in Nat
                            /\ Unread(t, s) => token # requests[t][s].token.csrf
                            => TracksWith(token, e, jar', arrivals')
<1>1. /\ AnswerFits(t, s) /\ arrivals \in Nat /\ jar' = requests[t][s].token
      /\ requests[t][s].status = "ok"
  BY DEF SessionInv, AnswersFit, TypeOK, StoreCookie
<1>2. CASE requests[t][s].kind = "login"
  <2>1. Unread(t, s) /\ jar' \in Tokens /\ arrivals' = arrivals + 1
    BY <1>1, <1>2 DEF AnswerFits, Unread, StoreCookie
  <2>2. ASSUME NEW token, NEW e, Tracks(token, e), e \in Nat,
               Unread(t, s) => token # requests[t][s].token.csrf
        PROVE  TracksWith(token, e, jar', arrivals')
    BY <1>1, <2>1, <2>2 DEF Tracks, TracksWith
  <2>. QED
    BY <1>1, <2>1, <2>2
<1>3. CASE requests[t][s].kind = "logout"
  <2>1. jar' = NoToken /\ arrivals' = arrivals
    BY <1>1, <1>3 DEF AnswerFits, StoreCookie
  <2>. QED
    BY <2>1, TokenFacts DEF Tracks, TracksWith
<1>. QED
  BY <1>2, <1>3 DEF StoreCookie

LEMMA StoreKeeps ==
    ASSUME SessionInv, NEW t \in Tabs, NEW s \in Slots, StoreCookie(t, s)
    PROVE  SessionInv'
<1>. DEFINE r == requests[t][s]
            n == requests'[t][s]
<1>1. /\ TypeOK /\ AnswerFits(t, s) /\ UNCHANGED <<clock, issued, shown, csrf, reloads, epoch>>
      /\ r.kind \in {"login", "logout"} /\ r.status = "ok" /\ jar' = r.token
  BY DEF StoreCookie, SessionInv, AnswersFit
<1>2. /\ RequestsTyped /\ OthersStay(t, s)
      /\ r.token \in Tokens \cup {NoToken} /\ arrivals' \in Nat
      /\ n.kind = r.kind /\ n.cookie = r.cookie /\ n.csrf = r.csrf /\ n.token = r.token
      /\ n.stale = r.stale /\ n.status = "stored" /\ n.seen = arrivals'
  BY <1>1, StoreEffect
<1>3. /\ jar' \in Tokens => Unread(t, s) /\ jar' = r.token
      /\ \A token, e : /\ Tracks(token, e) /\ e \in Nat
                       /\ Unread(t, s) => token # r.token.csrf
                       => TracksWith(token, e, jar', arrivals')
  BY StoreTracked
<1>4. /\ ~Unread(t, s)' /\ ~Asking(t, s)'
      /\ Awaiting(t, s)' => Unread(t, s) /\ Coming(t, s)' = r.token /\ jar' = r.token
      /\ \A u \in Tabs, i \in Slots : u # t \/ i # s =>
            /\ requests'[u][i] = requests[u][i]
            /\ (Unread(u, i)' <=> Unread(u, i)) /\ (Asking(u, i)' <=> Asking(u, i))
            /\ (Awaiting(u, i)' <=> Awaiting(u, i)) /\ Coming(u, i)' = Coming(u, i)
  BY <1>1, <1>2 DEF OthersStay, Unread, Asking, Stored, Awaiting, Coming
<1>5. TypeOK'
  BY <1>1, <1>2 DEF TypeOK, RequestsTyped
<1>6. ViewsFollow'
  <2>1. \A u \in Tabs, i \in Slots :
          /\ requests'[u][i].kind = requests[u][i].kind
          /\ requests[u][i] = Free => requests'[u][i] = Free
    BY <1>1, <1>2, <1>4 DEF Free
  <2>2. ASSUME NEW u \in Tabs, NEW i \in Slots, requests'[u][i].kind = "login"
        PROVE  /\ shown'[u] = "login"
               /\ \A k \in Slots : requests'[u][k].kind = "login" => k = i
    BY <1>1, <2>1, <2>2 DEF SessionInv, ViewsFollow
  <2>3. ASSUME NEW u \in Tabs, NEW i \in Slots, Asking(u, i)'
        PROVE  /\ shown'[u] = "resolving"
               /\ \A k \in Slots : k # i => requests'[u][k] = Free
    <3>1. Asking(u, i)
      BY <1>4, <2>3
    <3>. QED
      BY <1>1, <2>1, <3>1 DEF SessionInv, ViewsFollow
  <2>. QED
    BY <2>2, <2>3 DEF ViewsFollow
<1>7. AnswersFit'
  <2>1. AnswerFits(t, s)'
    BY <1>1, <1>2 DEF AnswerFits, Unread, Asking, Stored
  <2>2. ASSUME NEW u \in Tabs, NEW i \in Slots, u # t \/ i # s PROVE AnswerFits(u, i)'
    BY <1>1, <1>4, <2>2 DEF SessionInv, AnswersFit, AnswerFits, Unread, Asking, Stored, Valid
  <2>. QED
    BY <2>1, <2>2 DEF AnswersFit
<1>8. AllIssued'
  BY <1>1, <1>3, <1>4 DEF SessionInv, AllIssued
<1>9. UnreadIsNew'
  <2>. SUFFICES ASSUME NEW u \in Tabs, NEW i \in Slots, Unread(u, i)',
                       NEW v \in Tabs, NEW j \in Slots, NEW w \in Tabs
                PROVE  LET new == requests'[u][i].token.csrf IN
                       /\ jar' \in Tokens => jar'.csrf # new
                       /\ csrf'[w] # new
                       /\ Awaiting(v, j)' /\ Coming(v, j)' \in Tokens =>
                             Coming(v, j)'.csrf # new
                       /\ Unread(v, j)' /\ <<v, j>> # <<u, i>> => requests'[v][j].token.csrf # new
    BY DEF UnreadIsNew
  <2>1. /\ u # t \/ i # s
        /\ Unread(u, i) /\ requests'[u][i] = requests[u][i]
    BY <1>4
  <2>2. Unread(t, s) => r.token.csrf # requests[u][i].token.csrf
    BY <2>1 DEF SessionInv, UnreadIsNew
  <2>3. jar' \in Tokens => jar'.csrf # requests[u][i].token.csrf
    BY <1>3, <2>2
  <2>4. csrf'[w] # requests[u][i].token.csrf
    BY <1>1, <2>1 DEF SessionInv, UnreadIsNew
  <2>5. Awaiting(v, j)' /\ Coming(v, j)' \in Tokens =>
          Coming(v, j)'.csrf # requests[u][i].token.csrf
    <3>1. CASE v = t /\ j = s
      BY <1>4, <2>2, <3>1
    <3>2. CASE v # t \/ j # s
      BY <1>4, <2>1, <3>2 DEF SessionInv, UnreadIsNew
    <3>. QED
      BY <3>1, <3>2
  <2>6. Unread(v, j)' /\ <<v, j>> # <<u, i>> =>
          requests'[v][j].token.csrf # requests[u][i].token.csrf
    <3>1. Unread(v, j)' => Unread(v, j) /\ requests'[v][j] = requests[v][j]
      BY <1>4
    <3>. QED
      BY <2>1, <3>1 DEF SessionInv, UnreadIsNew
  <2>. QED
    BY <2>1, <2>3, <2>4, <2>5, <2>6
<1>10. TokensTracked'
  <2>1. ASSUME NEW u \in Tabs, shown'[u] = "panel"
        PROVE  csrf'[u] # 0 /\ Tracks(csrf[u], epoch[u])'
    <3>1. csrf[u] # 0 /\ Tracks(csrf[u], epoch[u]) /\ epoch[u] \in Nat
      BY <1>1, <2>1 DEF SessionInv, TokensTracked, TypeOK
    <3>2. Unread(t, s) => csrf[u] # r.token.csrf
      BY DEF SessionInv, UnreadIsNew
    <3>3. TracksWith(csrf[u], epoch[u], jar', arrivals')
      BY <1>3, <3>1, <3>2
    <3>. QED
      BY <1>1, <3>1, <3>3 DEF Tracks
  <2>2. ASSUME NEW u \in Tabs, NEW i \in Slots, Awaiting(u, i)', Coming(u, i)' \in Tokens
        PROVE  Tracks(Coming(u, i).csrf, requests[u][i].seen)'
    <3>1. CASE u = t /\ i = s
      <4>1. Coming(u, i)' = jar' /\ requests'[u][i].seen = arrivals' /\ arrivals' \in Nat
        BY <1>2, <1>4, <2>2, <3>1
      <4>. QED
        BY <4>1 DEF Tracks, TracksWith
    <3>2. CASE u # t \/ i # s
      <4>1. /\ Awaiting(u, i) /\ Coming(u, i) \in Tokens /\ Coming(u, i)' = Coming(u, i)
            /\ requests'[u][i] = requests[u][i]
        BY <1>4, <2>2, <3>2
      <4>2. Tracks(Coming(u, i).csrf, requests[u][i].seen) /\ requests[u][i].seen \in Nat
        BY <4>1, CookieType DEF SessionInv, TokensTracked, Requests
      <4>3. Unread(t, s) => Coming(u, i).csrf # r.token.csrf
        BY <4>1 DEF SessionInv, UnreadIsNew
      <4>4. TracksWith(Coming(u, i).csrf, requests[u][i].seen, jar', arrivals')
        BY <1>3, <4>2, <4>3
      <4>. QED
        BY <4>1, <4>4 DEF Tracks
    <3>. QED
      BY <3>1, <3>2
  <2>3. ASSUME NEW u \in Tabs, NEW i \in Slots, requests'[u][i].kind = "write",
               requests'[u][i].cookie \in Tokens
        PROVE  requests'[u][i].stale <=> requests'[u][i].cookie.csrf # requests'[u][i].csrf
    <3>1. u # t \/ i # s
      BY <1>1, <1>2, <2>3
    <3>. QED
      BY <1>4, <2>3, <3>1 DEF SessionInv, TokensTracked
  <2>. QED
    BY <2>1, <2>2, <2>3 DEF TokensTracked
<1>. QED
  BY <1>5, <1>6, <1>7, <1>8, <1>9, <1>10 DEF SessionInv

(***************************************************************************)
(* The client handles an answer.                                           *)
(***************************************************************************)
\* The requests that are left when that of t and s was answered.
Left(t, s, u, i) == u # t \/ i # s

\* The tab t shows a view with a token that it got at the arrival e of a login.
LEMMA ViewChange ==
    ASSUME SessionInv, NEW t \in Tabs, NEW s \in Slots, Receive(t, s),
           NEW view \in {"resolving", "login", "panel"}, NEW k \in 0 .. MaxLogins, NEW e \in Nat,
           shown' = [shown EXCEPT ![t] = view], csrf' = [csrf EXCEPT ![t] = k],
           epoch' = [epoch EXCEPT ![t] = e], UNCHANGED <<jar, arrivals>>,
           view = shown[t] \/ view = "login" \/ Awaiting(t, s),
           requests[t][s].status # "free",
           k = 0 \/ k = csrf[t] \/ (Awaiting(t, s) /\ Coming(t, s) \in Tokens
                                                  /\ k = Coming(t, s).csrf),
           view = "panel" => k # 0 /\ Tracks(k, e)
    PROVE  SessionInv'
<1>1. TypeOK /\ UNCHANGED <<clock, issued, reloads>>
  BY DEF Receive, SessionInv
<1>2. RequestsTyped /\ OthersStay(t, s) /\ requests'[t][s] = Free
  BY <1>1, FreeEffect
<1>3. /\ shown'[t] = view /\ csrf'[t] = k /\ epoch'[t] = e
      /\ \A u \in Tabs : u # t => shown'[u] = shown[u] /\ csrf'[u] = csrf[u] /\ epoch'[u] = epoch[u]
  BY <1>1 DEF TypeOK
<1>4. /\ Free.kind = "none" /\ Free.status = "free"
      /\ \A u \in Tabs, i \in Slots : Left(t, s, u, i) =>
            requests'[u][i] = requests[u][i] /\ Coming(u, i)' = Coming(u, i)
      /\ \A u \in Tabs, i \in Slots :
            /\ Unread(u, i)' => Left(t, s, u, i) /\ Unread(u, i)
            /\ Asking(u, i)' => Left(t, s, u, i) /\ Asking(u, i)
            /\ Awaiting(u, i)' => Left(t, s, u, i) /\ Awaiting(u, i)
            /\ requests'[u][i].kind # "none" => Left(t, s, u, i)
  BY <1>2 DEF Unread, Asking, Stored, Awaiting, Coming, Free, OthersStay, Left
<1>5. k <= issued
  BY DEF SessionInv, AllIssued, TypeOK
<1>6. \A i \in Slots : i # s /\ requests[t][i].kind = "login" => view = "login"
  <2>. SUFFICES ASSUME NEW i \in Slots, i # s, requests[t][i].kind = "login" PROVE view = "login"
    OBVIOUS
  <2>1. shown[t] = "login" /\ requests[t][s].kind # "login"
    BY DEF SessionInv, ViewsFollow
  <2>2. ~Asking(t, s)
    BY <2>1 DEF SessionInv, ViewsFollow
  <2>. QED
    BY <2>1, <2>2 DEF Awaiting, Stored
<1>7. \A i \in Slots : i # s => ~Asking(t, i)
  <2>. SUFFICES ASSUME NEW i \in Slots, i # s, Asking(t, i) PROVE FALSE
    OBVIOUS
  <2>1. requests[t][s] = Free
    BY DEF SessionInv, ViewsFollow
  <2>. QED
    BY <2>1 DEF Free
<1>8. \A u \in Tabs, i \in Slots : Unread(u, i) => requests[u][i].token.csrf # k
  <2>. SUFFICES ASSUME NEW u \in Tabs, NEW i \in Slots, Unread(u, i)
                PROVE  requests[u][i].token.csrf # k
    OBVIOUS
  <2>1. requests[u][i].token.csrf # 0
    BY TokenFacts DEF SessionInv, AnswersFit, AnswerFits
  <2>. QED
    BY <2>1 DEF SessionInv, UnreadIsNew
<1>9. TypeOK'
  BY <1>1, <1>2 DEF TypeOK, RequestsTyped
<1>10. ViewsFollow'
  <2>1. ASSUME NEW u \in Tabs, NEW i \in Slots, requests'[u][i].kind = "login"
        PROVE  /\ shown'[u] = "login"
               /\ \A j \in Slots : requests'[u][j].kind = "login" => j = i
    <3>1. Left(t, s, u, i) /\ requests[u][i].kind = "login"
      BY <1>4, <2>1
    <3>2. shown'[u] = "login"
      BY <1>3, <1>6, <3>1 DEF SessionInv, ViewsFollow, Left
    <3>3. \A j \in Slots : requests'[u][j].kind = "login" => requests[u][j].kind = "login"
      BY <1>4
    <3>. QED
      BY <3>1, <3>2, <3>3 DEF SessionInv, ViewsFollow
  <2>2. ASSUME NEW u \in Tabs, NEW i \in Slots, Asking(u, i)'
        PROVE  /\ shown'[u] = "resolving"
               /\ \A j \in Slots : j # i => requests'[u][j] = Free
    <3>1. Left(t, s, u, i) /\ Asking(u, i)
      BY <1>4, <2>2
    <3>2. shown'[u] = "resolving"
      BY <1>3, <1>7, <3>1 DEF SessionInv, ViewsFollow, Left
    <3>3. \A j \in Slots : requests[u][j] = Free => requests'[u][j] = Free
      BY <1>2 DEF OthersStay
    <3>. QED
      BY <3>1, <3>2, <3>3 DEF SessionInv, ViewsFollow
  <2>. QED
    BY <2>1, <2>2 DEF ViewsFollow
<1>11. AnswersFit'
  <2>1. AnswerFits(t, s)'
    BY <1>2, <1>4 DEF AnswerFits, Unread, Asking, Stored
  <2>2. ASSUME NEW u \in Tabs, NEW i \in Slots, Left(t, s, u, i) PROVE AnswerFits(u, i)'
    BY <1>1, <1>4, <2>2 DEF SessionInv, AnswersFit, AnswerFits, Unread, Asking, Stored, Valid
  <2>. QED
    BY <2>1, <2>2 DEF AnswersFit, Left
<1>12. AllIssued'
  BY <1>1, <1>3, <1>4, <1>5 DEF SessionInv, AllIssued
<1>13. UnreadIsNew'
  <2>. SUFFICES ASSUME NEW u \in Tabs, NEW i \in Slots, Unread(u, i)',
                       NEW v \in Tabs, NEW j \in Slots, NEW w \in Tabs
                PROVE  LET new == requests'[u][i].token.csrf IN
                       /\ jar' \in Tokens => jar'.csrf # new
                       /\ csrf'[w] # new
                       /\ Awaiting(v, j)' /\ Coming(v, j)' \in Tokens =>
                             Coming(v, j)'.csrf # new
                       /\ Unread(v, j)' /\ <<v, j>> # <<u, i>> => requests'[v][j].token.csrf # new
    BY DEF UnreadIsNew
  <2>1. Unread(u, i) /\ requests'[u][i] = requests[u][i]
    BY <1>4
  <2>2. csrf'[w] # requests[u][i].token.csrf
    BY <1>3, <1>8, <2>1 DEF SessionInv, UnreadIsNew
  <2>3. /\ Awaiting(v, j)' => Awaiting(v, j) /\ Coming(v, j)' = Coming(v, j)
        /\ Unread(v, j)' => Unread(v, j) /\ requests'[v][j] = requests[v][j]
    BY <1>4
  <2>. QED
    BY <2>1, <2>2, <2>3 DEF SessionInv, UnreadIsNew
<1>14. TokensTracked'
  <2>1. ASSUME NEW u \in Tabs, shown'[u] = "panel"
        PROVE  csrf'[u] # 0 /\ Tracks(csrf[u], epoch[u])'
    <3>1. CASE u = t
      BY <1>3, <2>1, <3>1 DEF Tracks
    <3>2. CASE u # t
      BY <1>3, <2>1, <3>2 DEF Tracks, SessionInv, TokensTracked
    <3>. QED
      BY <3>1, <3>2
  <2>2. ASSUME NEW u \in Tabs, NEW i \in Slots, Awaiting(u, i)', Coming(u, i)' \in Tokens
        PROVE  Tracks(Coming(u, i).csrf, requests[u][i].seen)'
    BY <1>4, <2>2 DEF Tracks, SessionInv, TokensTracked
  <2>3. ASSUME NEW u \in Tabs, NEW i \in Slots, requests'[u][i].kind = "write",
               requests'[u][i].cookie \in Tokens
        PROVE  requests'[u][i].stale <=> requests'[u][i].cookie.csrf # requests'[u][i].csrf
    BY <1>4, <2>3 DEF SessionInv, TokensTracked
  <2>. QED
    BY <2>1, <2>2, <2>3 DEF TokensTracked
<1>. QED
  BY <1>9, <1>10, <1>11, <1>12, <1>13, <1>14 DEF SessionInv

LEMMA Unchanged ==
    ASSUME SessionInv, NEW t \in Tabs
    PROVE  /\ shown = [shown EXCEPT ![t] = shown[t]] /\ csrf = [csrf EXCEPT ![t] = csrf[t]]
           /\ epoch = [epoch EXCEPT ![t] = epoch[t]]
           /\ shown[t] \in {"resolving", "login", "panel"} /\ csrf[t] \in 0 .. MaxLogins
           /\ epoch[t] \in Nat /\ 0 \in 0 .. MaxLogins
  BY SessionAssumption DEF SessionInv, TypeOK

LEMMA ReceiveKeeps ==
    ASSUME SessionInv, NEW t \in Tabs, NEW s \in Slots, Receive(t, s)
    PROVE  SessionInv'
<1>. DEFINE r == requests[t][s]
<1>1. /\ requests[t][s] \in Requests /\ AnswerFits(t, s) /\ UNCHANGED <<clock, issued, reloads>>
      /\ r.cookie \in Tokens \cup {NoToken} /\ r.seen \in Nat
  BY CookieType DEF SessionInv, AnswersFit, Receive, Requests
<1>2. CASE Expired(t, s)
  <2>1. /\ shown' = [shown EXCEPT ![t] = "login"] /\ csrf' = [csrf EXCEPT ![t] = 0]
        /\ UNCHANGED <<jar, arrivals, epoch>> /\ r.status = "unauthorized"
    BY <1>2 DEF Expired, Show
  <2>. QED
    BY <2>1, Unchanged, ViewChange
\* A login that is read, or the session of a page.
<1>3. CASE LoggedIn(t, s) \/ Resumed(t, s)
  <2>1. /\ shown' = [shown EXCEPT ![t] = "panel"] /\ csrf' = [csrf EXCEPT ![t] = r.token.csrf]
        /\ epoch' = [epoch EXCEPT ![t] = r.seen] /\ UNCHANGED <<jar, arrivals>>
        /\ Awaiting(t, s) /\ Coming(t, s) = r.token /\ r.token \in Tokens
        /\ r.status # "free"
    BY <1>1, <1>3 DEF LoggedIn, Resumed, Show, Asking, Stored, Awaiting, Coming, AnswerFits
  <2>2. r.token.csrf \in 0 .. MaxLogins /\ r.token.csrf # 0
    BY <2>1, TokenFacts
  <2>3. Tracks(r.token.csrf, r.seen)
    BY <2>1 DEF SessionInv, TokensTracked
  <2>. QED
    BY <1>1, <2>1, <2>2, <2>3, ViewChange
<1>4. CASE LoggedOut(t, s)
  <2>1. /\ shown' = [shown EXCEPT ![t] = "login"] /\ csrf' = [csrf EXCEPT ![t] = 0]
        /\ UNCHANGED <<jar, arrivals, epoch>> /\ r.status = "stored"
    BY <1>4 DEF LoggedOut, Show
  <2>. QED
    BY <2>1, Unchanged, ViewChange
<1>5. CASE Failed(t, s) \/ Succeeded(t, s)
  <2>1. UNCHANGED <<jar, csrf, arrivals, epoch>> /\ r.status # "free"
    BY <1>5 DEF Failed, Succeeded
  <2>2. PICK k \in 0 .. MaxLogins, e \in Nat, view \in {"resolving", "login", "panel"} :
          k = csrf[t] /\ e = epoch[t] /\ view = shown[t]
    BY Unchanged
  <2>3. /\ csrf' = [csrf EXCEPT ![t] = k] /\ epoch' = [epoch EXCEPT ![t] = e]
        /\ UNCHANGED <<jar, arrivals>> /\ requests[t][s].status # "free"
    BY <2>1, <2>2, Unchanged
  <2>4. CASE shown' = shown
    <3>1. shown' = [shown EXCEPT ![t] = view]
      BY <2>2, <2>4, Unchanged
    <3>2. view = "panel" => k # 0 /\ Tracks(k, e)
      BY <2>2 DEF SessionInv, TokensTracked
    <3>. QED
      BY <2>2, <2>3, <3>1, <3>2, ViewChange
  <2>5. CASE shown' = [shown EXCEPT ![t] = "login"]
    BY <2>2, <2>3, <2>5, ViewChange
  <2>. QED
    BY <1>5, <2>4, <2>5 DEF Failed, Succeeded
<1>. QED
  BY <1>2, <1>3, <1>4, <1>5 DEF Receive

(***************************************************************************)
(* The theorems.                                                           *)
(***************************************************************************)
LEMMA NextKeeps == SessionInv /\ [Next]_vars => SessionInv'
<1>. SUFFICES ASSUME SessionInv, [Next]_vars PROVE SessionInv'
  OBVIOUS
<1>1. ASSUME NEW t \in Tabs, Login(t) \/ Work(t) PROVE SessionInv'
  BY <1>1, SendKeeps
<1>2. ASSUME NEW t \in Tabs, Load(t) PROVE SessionInv'
  BY <1>2, LoadKeeps
<1>3. ASSUME NEW t \in Tabs, NEW s \in Slots, Serve(t, s) PROVE SessionInv'
  BY <1>3, ServeKeeps
<1>4. ASSUME NEW t \in Tabs, NEW s \in Slots, Lose(t, s) PROVE SessionInv'
  BY <1>4, LoseKeeps
<1>5. ASSUME NEW t \in Tabs, NEW s \in Slots, StoreCookie(t, s) \/ Receive(t, s)
      PROVE  SessionInv'
  BY <1>5, StoreKeeps, ReceiveKeeps
<1>6. CASE Tick
  BY <1>6, TickKeeps
<1>7. CASE UNCHANGED vars
  BY <1>7 DEF vars, SessionInv, TypeOK, ViewsFollow, AnswersFit, AnswerFits, AllIssued, UnreadIsNew,
              TokensTracked, Tracks, TracksWith, Unread, Asking, Stored, Awaiting, Coming, Valid
<1>. QED
  BY <1>1, <1>2, <1>3, <1>4, <1>5, <1>6, <1>7 DEF Next

LEMMA SessionInvHolds == Spec => []SessionInv
<1>1. Init => SessionInv
  BY InitInv
<1>2. SessionInv /\ [Next]_vars => SessionInv'
  BY NextKeeps
<1>. QED
  BY <1>1, <1>2, PTL DEF Spec

\* The variables of the browser and of the server keep their types, whatever
\* the tabs do and in whatever order they are answered.
THEOREM SessionTypes == Spec => []TypeOK
<1>1. SessionInv => TypeOK
  BY DEF SessionInv
<1>. QED
  BY <1>1, SessionInvHolds, PTL

\* A tab that shows the panel has a CSRF token.
THEOREM PanelAlwaysHasToken == Spec => []PanelHasToken
<1>1. SessionInv => PanelHasToken
  BY DEF SessionInv, TokensTracked, PanelHasToken
<1>. QED
  BY <1>1, SessionInvHolds, PTL

\* The guard refuses the CSRF header of a tab only after another login has
\* replaced the cookie that belongs to the tab's token.
THEOREM RefusedForOtherLogin == Spec => []ForbiddenOnlyAfterOtherLogin
<1>1. SessionInv => ForbiddenOnlyAfterOtherLogin
  <2>. SUFFICES ASSUME SessionInv, NEW t \in Tabs, NEW s \in Slots,
                       requests[t][s].status = "forbidden"
                PROVE  requests[t][s].stale
    BY DEF ForbiddenOnlyAfterOtherLogin
  <2>1. /\ requests[t][s].kind = "write" /\ requests[t][s].cookie \in Tokens
        /\ requests[t][s].cookie.csrf # requests[t][s].csrf
    BY DEF SessionInv, AnswersFit, AnswerFits
  <2>. QED
    BY <2>1 DEF SessionInv, TokensTracked
<1>. QED
  BY <1>1, SessionInvHolds, PTL

\* No mutation is carried out under a session that its tab was not given.
THEOREM OnlyOwnSessionWrites == Spec => []WritesUnderOwnSession
<1>1. SessionInv => WritesUnderOwnSession
  <2>. SUFFICES ASSUME SessionInv, NEW t \in Tabs, NEW s \in Slots,
                       requests[t][s].kind = "write", requests[t][s].status = "ok"
                PROVE  ~requests[t][s].stale
    BY DEF WritesUnderOwnSession
  <2>1. /\ requests[t][s].cookie \in Tokens
        /\ requests[t][s].cookie.csrf = requests[t][s].csrf
    BY DEF SessionInv, AnswersFit, AnswerFits
  <2>. QED
    BY <2>1 DEF SessionInv, TokensTracked
<1>. QED
  BY <1>1, SessionInvHolds, PTL

\* No answer takes the panel away from a tab but that of its own logout and
\* that of a request whose cookie was missing or has expired.
THEOREM PanelStays == Spec => PanelLeftForReason
<1>. DEFINE Reason(t) ==
       shown[t] = "panel" /\ shown'[t] # "panel" =>
           \/ shown'[t] = "resolving"
           \/ \E s \in Slots :
                LET r == requests[t][s] IN
                /\ r # Free /\ requests'[t][s] = Free
                /\ r.kind = "logout" \/ ~Valid(r.cookie)
<1>1. ASSUME SessionInv, [Next]_vars, NEW t \in Tabs PROVE Reason(t)
  <2>. SUFFICES ASSUME shown[t] = "panel", shown'[t] # "panel", shown'[t] # "resolving"
                PROVE  \E s \in Slots : /\ requests[t][s] # Free /\ requests'[t][s] = Free
                                        /\ requests[t][s].kind = "logout" \/ ~Valid(requests[t][s].cookie)
    OBVIOUS
  <2>1. shown \in [Tabs -> {"resolving", "login", "panel"}] /\ shown' # shown /\ TypeOK
    BY <1>1 DEF SessionInv, TypeOK
  <2>2. PICK u \in Tabs : Load(u) \/ \E s \in Slots : Receive(u, s)
    BY <1>1, <2>1 DEF Next, vars, Login, Work, Send, Serve, Lose, StoreCookie, Tick
  <2>3. ~Load(u)
    BY <2>1 DEF Load
  <2>4. PICK s \in Slots : Receive(u, s)
    BY <2>2, <2>3
  <2>5. requests'[u][s] = Free
    BY <2>1, <2>4, FreeEffect
  <2>6. shown' = [shown EXCEPT ![u] = "login"] \/ shown' = [shown EXCEPT ![u] = "panel"]
    BY <2>1, <2>4 DEF Receive, Expired, LoggedIn, Resumed, LoggedOut, Failed, Succeeded, Show
  <2>7. u = t
    BY <2>1, <2>6
  <2>8. Expired(t, s) \/ LoggedOut(t, s) \/ Failed(t, s)
    BY <2>1, <2>4, <2>7 DEF Receive, LoggedIn, Resumed, Succeeded, Show
  <2>9. requests[t][s] # Free
    BY <2>8 DEF Expired, LoggedOut, Failed, Free
  <2>10. requests[t][s].kind \notin {"login", "session"}
    BY <1>1 DEF SessionInv, ViewsFollow, Asking
  <2>11. requests[t][s].kind = "logout" \/ ~Valid(requests[t][s].cookie)
    <3>1. CASE Expired(t, s)
      BY <1>1, <2>10, <3>1 DEF Expired, SessionInv, AnswersFit, AnswerFits
    <3>2. CASE LoggedOut(t, s)
      BY <3>2 DEF LoggedOut
    <3>3. CASE Failed(t, s)
      BY <2>1, <2>10, <3>3 DEF Failed
    <3>. QED
      BY <2>8, <3>1, <3>2, <3>3
  <2>. QED
    BY <2>5, <2>7, <2>9, <2>11
<1>2. SessionInv /\ [Next]_vars => [\A t \in Tabs : Reason(t)]_vars
  BY <1>1
<1>. QED
  BY <1>2, SessionInvHolds, PTL DEF Spec, PanelLeftForReason
=============================================================================
