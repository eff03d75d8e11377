--------------------------- MODULE Frontend_proofs ---------------------------
(***************************************************************************)
(* The browser: the refresh queue of client.js, whose tokens the tab holds  *)
(* and when a logout has ended the session, for any number of requests and *)
(* users; then the walk through a history of any length, and the marks a   *)
(* reader leaves on it.                                                    *)
(***************************************************************************)
EXTENDS Session, HistoryPages, FiniteSetTheorems, TLAPS

-----------------------------------------------------------------------------
(***************************************************************************)
(* The refresh queue of client.js, whose tokens the tab holds, and when a   *)
(* logout has ended the session, for any number of requests and users.     *)
(***************************************************************************)

(* The queue, the flag and the requests' stages move together.  The stages *)
(* have their type because every handler moves requests it is called for.  *)
QueueInv ==
    /\ pc \in [Requests -> Stage]
    /\ RefreshQueueSound

(* Handlers that leave the flag and the queue alone may move a request only *)
(* between stages that neither wait nor refresh.                           *)
LEMMA PlainMove ==
    ASSUME QueueInv, NEW r \in Requests, NEW s \in Stage,
           pc[r] \notin {"waiting", "refreshing"}, s \notin {"waiting", "refreshing"},
           pc' = [pc EXCEPT ![r] = s], UNCHANGED <<isRefreshing, failedQueue>>
    PROVE  QueueInv'
  BY DEF QueueInv, RefreshQueueSound, Stage

(* Before anything is sent nobody waits and nobody refreshes.              *)
LEMMA QueueInit == Init => QueueInv
  BY DEF Init, QueueInv, RefreshQueueSound, Stage

(* A request that is refused queues up behind a refresh or starts one.     *)
LEMMA QueueUnauthorised ==
    ASSUME QueueInv, NEW r \in Requests, Unauthorised(r)
    PROVE  QueueInv'
  <1>1. CASE /\ pc[r] = "sent"
             /\ pc' = [pc EXCEPT ![r] = "failed"]
             /\ UNCHANGED <<isRefreshing, failedQueue>>
    BY <1>1, PlainMove DEF Stage
  <1>2. CASE /\ pc[r] = "sent" /\ isRefreshing
             /\ pc' = [pc EXCEPT ![r] = "waiting"]
             /\ failedQueue' = failedQueue \cup {r}
             /\ UNCHANGED isRefreshing
    BY <1>2 DEF QueueInv, RefreshQueueSound, Stage
  <1>3. CASE /\ pc[r] = "sent" /\ ~isRefreshing
             /\ pc' = [pc EXCEPT ![r] = "refreshing"]
             /\ isRefreshing' = TRUE /\ UNCHANGED failedQueue
    BY <1>3 DEF QueueInv, RefreshQueueSound, Stage
  <1>4. QED
    BY <1>1, <1>2, <1>3 DEF Unauthorised

(* However the refresh ends, it takes the whole queue with it.             *)
LEMMA QueueSettled ==
    ASSUME QueueInv, NEW r \in Requests, NEW s \in {"sent", "failed"},
           pc[r] = "refreshing",
           pc' = [q \in Requests |-> IF q \in failedQueue \cup {r} THEN s ELSE pc[q]],
           failedQueue' = {}, isRefreshing' = FALSE
    PROVE  QueueInv'
  BY DEF QueueInv, RefreshQueueSound, Stage

(* Every step keeps the invariant.                                         *)
LEMMA QueueNext == QueueInv /\ [Next]_vars => QueueInv'
  <1> SUFFICES ASSUME QueueInv, [Next]_vars PROVE QueueInv'
    OBVIOUS
  <1>a. ASSUME UNCHANGED netVars PROVE QueueInv'
    BY <1>a DEF QueueInv, RefreshQueueSound, netVars
  <1>l. "logout" \in Requests
    BY DEF Requests
  <1>1. CASE ServeRestore \/ ReceiveRestore \/ ServeLogin \/ ReceiveLogin \/ Route
             \/ FailLogin \/ LoginAgain \/ Lapse \/ EndSession \/ UNCHANGED vars
    BY <1>1, <1>a DEF ServeRestore, ReceiveRestore, ServeLogin, ReceiveLogin, Route,
                      FailLogin, LoginAgain, Lapse, EndSession, vars, netVars
  <1>2. CASE \E u \in Users : StartLogin(u)
    BY <1>2, <1>a DEF StartLogin
  <1>3. ASSUME NEW r \in Requests, Request(r) PROVE QueueInv'
    BY <1>3, PlainMove DEF Request, Begin, Stage
  <1>4. CASE StartLogout
    BY <1>4, <1>l, PlainMove DEF StartLogout, Begin, Stage
  <1>5. ASSUME NEW r \in Requests, Succeed(r) PROVE QueueInv'
    BY <1>5, PlainMove DEF Succeed, Stage
  <1>6. CASE ServeLogout
    BY <1>6, <1>l, PlainMove DEF ServeLogout, Stage
  <1>7. CASE ReceiveLogout
    BY <1>7, <1>l, PlainMove DEF ReceiveLogout, Stage
  <1>8. ASSUME NEW r \in Requests, Lose(r) PROVE QueueInv'
    BY <1>8, PlainMove DEF Lose, Stage
  <1>9. ASSUME NEW r \in Requests, Retry(r) PROVE QueueInv'
    BY <1>9, PlainMove DEF Retry, Stage
  <1>10. ASSUME NEW r \in Requests, Unauthorised(r) PROVE QueueInv'
    BY <1>10, QueueUnauthorised
  <1>11. ASSUME NEW r \in Requests, ServeRefresh(r) PROVE QueueInv'
    BY <1>11 DEF ServeRefresh, QueueInv, RefreshQueueSound
  <1>12. ASSUME NEW r \in Requests, Refreshed(r) PROVE QueueInv'
    BY <1>12, QueueSettled DEF Refreshed
  <1>13. ASSUME NEW r \in Requests, RefreshFailed(r) PROVE QueueInv'
    BY <1>13, QueueSettled DEF RefreshFailed
  <1>14. QED
    BY <1>1, <1>2, <1>3, <1>4, <1>5, <1>6, <1>7, <1>8, <1>9, <1>10, <1>11, <1>12, <1>13
    DEF Next, Calls

(* client.js 38-61, 201-259: no request is ever left waiting for a refresh  *)
(* that is not under way, and the interceptor never runs two refreshes.    *)
THEOREM SessionQueueSound == Spec => []RefreshQueueSound
  <1>1. QueueInv => RefreshQueueSound
    BY DEF QueueInv
  <1>2. QED
    BY QueueInit, QueueNext, <1>1, PTL DEF Spec

-----------------------------------------------------------------------------
(***************************************************************************)
(* The variables have their types, and ids and sign-ins are counted.       *)
(***************************************************************************)
AuthType ==
    [mem : Token, header : Token, user : Users \cup {NoUser},
     signedIn : BOOLEAN, expired : BOOLEAN, active : BOOLEAN,
     open : BOOLEAN, path : {"login", "app"}, loading : BOOLEAN]
RequestType ==
    [tok : Token, tries : 0..MaxRetries, retried : BOOLEAN, call : Call]

(* Every sign-in and the one logout are completed once; sessions are       *)
(* numbered by sign-ins, so a new one is new to the browser and to Redis.  *)
Counts ==
    /\ signs <= logins + 1
    /\ login.code = "200" \/ ~Over(pc["logout"]) => signs <= logins
    /\ login.code = "200" /\ ~Over(pc["logout"]) => signs < logins
    /\ cookie.id <= logins
    /\ login.code = "sent" => login.tok.user \in Users
    /\ login.code = "200" => /\ login.cookie.user = login.tok.user
                             /\ login.cookie.id <= logins
    /\ \A s \in store : s.user \in Users

TypeInv == TypeOK /\ QueueInv /\ Counts

LEMMA Constants ==
    /\ NoToken \in Token /\ NoSession \in SessionKey /\ NoCall \in Call
    /\ Fresh \in RequestType /\ "logout" \in Requests /\ "logout" \notin Data
    /\ NoUser \notin Users
  <1>1. MaxLogins \in Nat /\ MaxGen \in Nat
    BY SessionAssumption
  <1>2. 0 \in 0..MaxGen /\ 0 \in 0..MaxLogins /\ 0 \in 0..(2 * MaxLogins + 1) /\ 0 \in 0..2
    BY <1>1
  <1>3. NoToken \in Token /\ NoSession \in SessionKey
    BY <1>2 DEF NoToken, Token, NoSession, SessionKey
  <1>4. NoCall \in Call
    BY <1>2, <1>3 DEF NoCall, Call
  <1>5. Fresh \in RequestType
    BY <1>2, <1>3, <1>4 DEF Fresh, RequestType, MaxRetries
  <1> QED
    BY <1>3, <1>4, <1>5, SessionAssumption DEF Requests

(* The tab after each thing that happens to it.                            *)
LEMMA TabTyped ==
    ASSUME NEW a \in AuthType
    PROVE  /\ GivenUp(a) \in AuthType /\ SignedOut(a) \in AuthType
           /\ \A t \in Token, u \in Users \cup {NoUser} : SignedIn(a, t, u) \in AuthType
  BY Constants DEF AuthType, GivenUp, SignedOut, SignedIn

LEMMA CallTyped ==
    ASSUME TypeOK
    PROVE  /\ Sent \in Call /\ Sent.code = "sent" /\ Sent.cookie = cookie /\ Sent.at = signs
           /\ \A t \in Token : Header(t) \in Token
  BY Constants DEF TypeOK, Sent, Call, Header

(* What a call may come back with.                                         *)
LEMMA OutcomeFacts ==
    ASSUME TypeOK, NEW call \in Call, NEW o \in Outcomes(call), Counted(o)
    PROVE  /\ o \in Call /\ o.at = call.at /\ o.code \in {"200", "400", "401", "lost"}
           /\ faults' \in 0..MaxFaults /\ faults' >= faults
           /\ o.code = "lost" => faults' # 0
           /\ o.code = "200" => /\ o.tok.user = call.cookie.user
                                /\ call.cookie \in store /\ call.cookie # NoSession
           /\ o.code \in {"400", "401"} => call.cookie = NoSession \/ call.cookie \notin store
  <1>1. Answer(call) \in Call /\ Answer(call).at = call.at
    <2> DEFINE codes == {"none", "sent", "200", "400", "401", "lost"}
               cookieless == [call EXCEPT !.cookie = NoSession]
               tok == [user |-> call.cookie.user, gen |-> gen]
    <2>1. cookieless \in Call /\ cookieless.at = call.at
      BY Constants DEF Call
    <2>2. \A code \in codes : /\ [cookieless EXCEPT !.code = code] \in Call
                             /\ [cookieless EXCEPT !.code = code].at = call.at
      BY <2>1 DEF Call
    <2>3. gen \in 0..MaxGen /\ call.cookie.user \in Users \cup {NoUser}
      BY SessionAssumption DEF TypeOK, Call, SessionKey
    <2>4. tok \in Token
      BY <2>3 DEF Token
    <2> HIDE DEF tok
    <2>5. /\ [cookieless EXCEPT !.code = "200", !.tok = tok] \in Call
          /\ [cookieless EXCEPT !.code = "200", !.tok = tok].at = call.at
      BY <2>1, <2>4 DEF Call
    <2>6. \/ \E code \in codes : Answer(call) = [cookieless EXCEPT !.code = code]
          \/ Answer(call) = [cookieless EXCEPT !.code = "200", !.tok = tok]
      BY DEF Answer, tok
    <2> HIDE DEF cookieless
    <2> QED
      BY <2>2, <2>5, <2>6
  <1>2. /\ Answer(call).code \in {"200", "400", "401"}
        /\ Answer(call).code = "200" => /\ Answer(call).tok.user = call.cookie.user
                                        /\ call.cookie \in store /\ call.cookie # NoSession
        /\ Answer(call).code \in {"400", "401"} =>
              call.cookie = NoSession \/ call.cookie \notin store
    BY DEF Answer, Call
  <1>3. CASE o = Answer(call)
    BY <1>1, <1>2, <1>3 DEF Counted, TypeOK
  <1>4. CASE o # Answer(call)
    <2>1. faults < MaxFaults /\ o = [call EXCEPT !.code = "lost", !.cookie = NoSession]
      BY <1>4 DEF Outcomes
    <2>2. o \in Call /\ o.at = call.at /\ o.code = "lost"
      BY <2>1, Constants DEF Call
    <2> QED
      BY <2>1, <2>2, SessionAssumption DEF Counted, TypeOK
  <1> QED
    BY <1>3, <1>4

LEMMA CountsKept ==
    ASSUME Counts, UNCHANGED <<signs, logins, cookie, login>>, store' \subseteq store,
           Over(pc["logout"]) => Over(pc'["logout"])
    PROVE  Counts'
  BY DEF Counts

(* Whether or not the logout request is over with this step.               *)
LEMMA Concluded ==
    ASSUME TypeOK, Counts, NEW a \in AuthType, Conclude(a),
           Over(pc["logout"]) => Over(pc'["logout"]),
           UNCHANGED <<logins, cookie, login>>, store' \subseteq store
    PROVE  auth' \in AuthType /\ signs' \in 0..(2 * MaxLogins + 1) /\ Counts'
  <1>0. signs \in Nat /\ logins \in 0..MaxLogins /\ MaxLogins \in Nat
    BY SessionAssumption DEF TypeOK
  <1>1. CASE Over(pc'["logout"]) /\ ~Over(pc["logout"])
    <2>1. auth' = SignedOut(a) /\ signs' = signs + 1
      BY <1>1 DEF Conclude
    <2>2. signs <= logins /\ (login.code = "200" => signs < logins)
      BY <1>1 DEF Counts
    <2>3. /\ signs' \in 0..(2 * MaxLogins + 1) /\ signs' <= logins' + 1
          /\ login'.code = "200" => signs' <= logins'
      BY <1>0, <2>1, <2>2
    <2> QED
      BY <1>1, <2>1, <2>3, TabTyped DEF Counts
  <1>2. CASE ~(Over(pc'["logout"]) /\ ~Over(pc["logout"]))
    BY <1>2, CountsKept DEF Conclude, TypeOK
  <1> QED
    BY <1>1, <1>2

LEMMA TypeInit == Init => TypeInv
  <1> SUFFICES ASSUME Init PROVE TypeOK /\ Counts
    BY QueueInit DEF TypeInv
  <1>0. /\ MaxLogins \in Nat /\ MaxGen \in Nat \ {0} /\ MaxFaults \in Nat
        /\ Returning \in Users
    BY SessionAssumption
  <1>1. 1 \in 1..MaxGen /\ 0 \in 0..MaxLogins /\ 0 \in 0..(2 * MaxLogins + 1) /\ 0 \in 0..MaxFaults
    BY <1>0
  <1>2. cookie \in SessionKey /\ cookie.id = 0 /\ store \subseteq {cookie}
    BY <1>0, <1>1, Constants DEF Init, SessionKey, NoSession
  <1>3. \A s \in store : s.user \in Users
    BY <1>0 DEF Init
  <1>4. auth \in AuthType
    BY <1>0, Constants DEF Init, AuthType, Remembered
  <1>5. restore \in [call : Call, saved : Users \cup {NoUser}]
    <2>1. [NoCall EXCEPT !.code = "sent", !.cookie = cookie] \in Call
      BY <1>2, Constants DEF Call
    <2> QED
      BY <1>0, <2>1 DEF Init, Remembered
  <1>6. TypeOK
    BY <1>1, <1>2, <1>4, <1>5, Constants DEF Init, TypeOK, AuthType, Stage, RequestType
  <1>7. Counts
    BY <1>2, <1>3 DEF Init, Counts, NoCall, Over
  <1> QED
    BY <1>6, <1>7

(* Every step keeps the types and the counts.                              *)
LEMMA TypeNext == TypeInv /\ [Next]_vars => TypeInv'
  <1> SUFFICES ASSUME TypeInv, [Next]_vars PROVE TypeOK' /\ Counts'
    BY QueueNext DEF TypeInv
  <1>0. TypeOK /\ Counts /\ QueueInv
    BY DEF TypeInv
  <1>1. QueueInv' /\ pc' \in [Requests -> Stage]
    BY <1>0, QueueNext DEF QueueInv
  <1>2. auth \in AuthType /\ req \in [Requests -> RequestType]
    BY <1>0 DEF TypeOK, AuthType, RequestType
  <1>3. TypeOK' <=>
          /\ gen' \in 1..MaxGen /\ store' \subseteq SessionKey /\ logins' \in 0..MaxLogins
          /\ cookie' \in SessionKey /\ auth' \in AuthType
          /\ restore' \in [call : Call, saved : Users \cup {NoUser}] /\ login' \in Call
          /\ isRefreshing' \in BOOLEAN /\ failedQueue' \subseteq Requests
          /\ pc' \in [Requests -> Stage] /\ req' \in [Requests -> RequestType]
          /\ faults' \in 0..MaxFaults /\ signs' \in 0..(2 * MaxLogins + 1) /\ late' \in BOOLEAN
    BY DEF TypeOK, AuthType, RequestType
  <1>4. "logout" \in Requests /\ "logout" \notin Data
    BY Constants
  <1>5. failedQueue' \subseteq Requests
    BY <1>1 DEF QueueInv, RefreshQueueSound
  <1>l. Over(pc["logout"]) => Over(pc'["logout"])
    <2>1. ASSUME NEW r \in Requests, ~Over(pc[r]), NEW s \in Stage, pc' = [pc EXCEPT ![r] = s]
          PROVE  Over(pc["logout"]) => Over(pc'["logout"])
      BY <1>4, <2>1, <1>0 DEF QueueInv
    <2>2. ASSUME NEW r \in Requests, Refreshed(r) \/ RefreshFailed(r)
          PROVE  Over(pc["logout"]) => Over(pc'["logout"])
      BY <1>0, <1>4, <2>2 DEF Refreshed, RefreshFailed, QueueInv, RefreshQueueSound, Over
    <2>3. ASSUME NEW r \in Requests,
                 \/ Succeed(r) \/ Retry(r) \/ Unauthorised(r) \/ Request(r) \/ Lose(r)
          PROVE  Over(pc["logout"]) => Over(pc'["logout"])
      BY <2>1, <2>3 DEF Succeed, Retry, Unauthorised, Request, Begin, Lose, Stage, Over
    <2>4. CASE ServeLogout \/ ReceiveLogout \/ StartLogout
      BY <1>4, <2>1, <2>4 DEF ServeLogout, ReceiveLogout, StartLogout, Begin, Stage, Over
    <2>5. CASE UNCHANGED pc
      BY <2>5
    <2> QED
      BY <2>2, <2>3, <2>4, <2>5
      DEF Next, Calls, ServeRestore, ReceiveRestore, ServeLogin, ReceiveLogin, Route, ServeRefresh,
          StartLogin, FailLogin, LoginAgain, Lapse, EndSession, netVars, vars
  <1>6. isRefreshing' \in BOOLEAN
    BY <1>0
    DEF Next, Calls, ServeRestore, ReceiveRestore, ServeLogin, ReceiveLogin, Route, ServeRefresh,
        StartLogin, FailLogin, LoginAgain, Lapse, EndSession, netVars, vars, Succeed, Retry,
        Unauthorised, Request, Begin, Lose, ServeLogout, ReceiveLogout, StartLogout, Refreshed,
        RefreshFailed, TypeOK
  <1> USE DEF serverVars, netVars
  <1>7. CASE ServeRestore
    <2>1. PICK o \in Outcomes(restore.call) : restore' = [restore EXCEPT !.call = o] /\ Counted(o)
      BY <1>7 DEF ServeRestore
    <2>2. o \in Call /\ faults' \in 0..MaxFaults
      BY <1>0, <2>1, OutcomeFacts DEF TypeOK
    <2>3. restore' \in [call : Call, saved : Users \cup {NoUser}]
      BY <1>0, <2>1, <2>2 DEF TypeOK
    <2>4. UNCHANGED <<serverVars, cookie, auth, login, netVars, signs, late>>
      BY <1>7 DEF ServeRestore
    <2> QED
      BY <1>0, <1>2, <1>3, <1>l, <2>2, <2>3, <2>4, CountsKept DEF TypeOK
  <1>8. CASE ReceiveRestore
    <2> DEFINE refused == IF restore.call.code = "401" THEN GivenUp(auth) ELSE auth
    <2>1. refused \in AuthType
      BY <1>2, TabTyped
    <2>2. restore.call.tok \in Token /\ restore.saved \in Users \cup {NoUser}
      BY <1>0 DEF TypeOK, Call
    <2>3. auth.user \in Users \cup {NoUser}
      BY <1>2 DEF AuthType
    <2>4. \A u \in Users \cup {NoUser} :
             [SignedIn(auth, restore.call.tok, u) EXCEPT !.loading = FALSE] \in AuthType
      <3>1. \A a \in AuthType : [a EXCEPT !.loading = FALSE] \in AuthType
        BY DEF AuthType
      <3> QED
        BY <1>2, <2>2, <3>1, TabTyped
    <2> HIDE DEF refused
    <2> DEFINE cleared == [refused EXCEPT !.mem = NoToken, !.header = NoToken,
                                         !.signedIn = FALSE, !.loading = FALSE]
    <2>5. cleared \in AuthType
      BY <2>1, Constants DEF AuthType
    <2>6. /\ [cleared EXCEPT !.user = NoUser] \in AuthType
          /\ \A b \in BOOLEAN : [cleared EXCEPT !.expired = TRUE, !.open = b] \in AuthType
      BY <2>5 DEF AuthType
    <2>7. cleared.open \in BOOLEAN
      BY <2>5 DEF AuthType
    <2>8. auth' \in AuthType
      <3>1. CASE restore.call.code = "200"
        BY <1>8, <2>2, <2>3, <2>4, <3>1 DEF ReceiveRestore
      <3>2. CASE restore.call.code # "200" /\ restore.saved = NoUser
        BY <1>8, <2>6, <3>2 DEF ReceiveRestore, refused
      <3>3. CASE restore.call.code # "200" /\ restore.saved # NoUser
        <4> DEFINE b == cleared.open \/ (~auth.expired /\ auth.path # "login")
        <4>1. auth' = [cleared EXCEPT !.expired = TRUE, !.open = b]
          BY <1>8, <3>3 DEF ReceiveRestore, refused
        <4>2. b \in BOOLEAN
          OBVIOUS
        <4> HIDE DEF b, cleared
        <4> QED
          BY <2>6, <4>1, <4>2
      <3> QED
        BY <3>1, <3>2, <3>3
    <2>9. /\ restore' \in [call : Call, saved : Users \cup {NoUser}]
          /\ late' \in BOOLEAN
      BY <1>0, <1>8, Constants DEF ReceiveRestore, Note, TypeOK
    <2>10. UNCHANGED <<serverVars, cookie, login, netVars, faults, signs>>
      BY <1>8 DEF ReceiveRestore
    <2> HIDE DEF cleared
    <2> QED
      BY <1>0, <1>2, <1>3, <1>l, <2>8, <2>9, <2>10, CountsKept DEF TypeOK
  <1>9. ASSUME NEW u \in Users, StartLogin(u) PROVE TypeOK' /\ Counts'
    <2>1. Sent \in Call /\ Sent.code = "sent"
      BY <1>0, CallTyped
    <2>2. login' = [Sent EXCEPT !.tok.user = u] /\ login = NoCall
      BY <1>9 DEF StartLogin
    <2>3. login' \in Call /\ login'.code = "sent" /\ login'.tok.user = u
      BY <2>1, <2>2 DEF Call, Token
    <2>4. auth' \in AuthType
      BY <1>2, <1>9 DEF StartLogin, AuthType
    <2>5. UNCHANGED <<serverVars, cookie, restore, netVars, faults, signs, late>>
      BY <1>9 DEF StartLogin
    <2> QED
      BY <1>0, <1>2, <1>3, <2>2, <2>3, <2>4, <2>5 DEF TypeOK, Counts
  <1>10. CASE ServeLogin
    <2> DEFINE t == [user |-> login.tok.user, id |-> logins + 1]
    <2>1. /\ login.code = "sent" /\ logins < MaxLogins /\ logins' = logins + 1
          /\ store' = store \cup {t}
          /\ login' = [login EXCEPT !.code = "200", !.cookie = t, !.tok.gen = gen]
          /\ UNCHANGED <<gen, cookie, auth, restore, netVars, faults, signs, late>>
      BY <1>10 DEF ServeLogin
    <2>2. logins \in 0..MaxLogins /\ MaxLogins \in Nat /\ gen \in 0..MaxGen /\ signs \in Nat
      BY <1>0, SessionAssumption DEF TypeOK
    <2>3. logins' \in 0..MaxLogins /\ logins' > logins
      BY <2>1, <2>2
    <2>4. login \in Call /\ login.tok.user \in Users
      BY <1>0, <2>1 DEF TypeOK, Counts
    <2>5. t \in SessionKey /\ t.user \in Users /\ t.id <= logins'
      BY <2>1, <2>2, <2>3, <2>4 DEF SessionKey
    <2>6. t.user = login.tok.user
      OBVIOUS
    <2> HIDE DEF t
    <2>7. /\ login' \in Call /\ login'.code = "200" /\ login'.cookie = t
          /\ login'.tok.user = login.tok.user
      BY <2>1, <2>2, <2>4, <2>5 DEF Call, Token
    <2>8. signs <= logins + 1 /\ (~Over(pc["logout"]) => signs <= logins)
      BY <1>0 DEF Counts
    <2>9. signs' <= logins' /\ (~Over(pc'["logout"]) => signs' < logins')
      BY <2>1, <2>2, <2>8
    <2>10. signs' <= logins' + 1
      BY <2>1, <2>2, <2>9
    <2>11. cookie'.id <= logins'
      <3>1. cookie.id \in Nat /\ cookie.id <= logins
        BY <1>0 DEF TypeOK, Counts, SessionKey
      <3> QED
        BY <2>1, <2>2, <2>3, <3>1
    <2>12. Counts'
      BY <1>0, <2>1, <2>5, <2>6, <2>7, <2>9, <2>10, <2>11 DEF Counts
    <2> QED
      BY <1>0, <1>2, <1>3, <2>1, <2>3, <2>5, <2>7, <2>12 DEF TypeOK
  <1>11. CASE ReceiveLogin
    <2>1. /\ login.code = "200" /\ cookie' = login.cookie /\ signs' = signs + 1
          /\ auth' = [SignedIn(auth, login.tok, login.cookie.user)
                        EXCEPT !.loading = FALSE, !.path = "app"]
          /\ login' = NoCall /\ late' \in BOOLEAN
          /\ UNCHANGED <<serverVars, restore, netVars, faults>>
      BY <1>0, <1>11 DEF ReceiveLogin, TypeOK
    <2>2. /\ login.tok \in Token /\ login.cookie \in SessionKey
          /\ login.cookie.user \in Users \cup {NoUser}
      BY <1>0 DEF TypeOK, Call, SessionKey
    <2>3. auth' \in AuthType
      <3>1. \A a \in AuthType : [a EXCEPT !.loading = FALSE, !.path = "app"] \in AuthType
        BY DEF AuthType
      <3> QED
        BY <1>2, <2>1, <2>2, <3>1, TabTyped
    <2>4. /\ signs <= logins /\ (~Over(pc["logout"]) => signs < logins)
          /\ login.cookie.id <= logins
      BY <1>0, <2>1 DEF Counts
    <2>5. signs \in Nat /\ logins \in 0..MaxLogins /\ MaxLogins \in Nat
      BY <1>0, SessionAssumption DEF TypeOK
    <2>6. /\ signs' \in 0..(2 * MaxLogins + 1) /\ signs' <= logins' + 1
          /\ ~Over(pc'["logout"]) => signs' <= logins'
      BY <2>1, <2>4, <2>5
    <2>7. Counts'
      BY <1>0, <2>1, <2>4, <2>6 DEF Counts, NoCall
    <2> QED
      BY <1>0, <1>1, <1>2, <1>3, <1>5, <1>6, <2>1, <2>2, <2>3, <2>6, <2>7, Constants DEF TypeOK
  <1>12. CASE Route \/ LoginAgain
    <2>1. auth' \in AuthType
      <3>1. CASE Route
        <4>1. \A a \in AuthType, p \in {"login", "app"} : [a EXCEPT !.path = p] \in AuthType
          BY DEF AuthType
        <4>2. \E p \in {"login", "app"} : auth' = [auth EXCEPT !.path = p]
          BY <3>1 DEF Route
        <4> QED
          BY <1>2, <4>1, <4>2
      <3>2. CASE LoginAgain
        BY <1>2, <3>2, Constants DEF LoginAgain, AuthType
      <3> QED
        BY <1>12, <3>1, <3>2
    <2>2. UNCHANGED <<serverVars, cookie, restore, login, netVars, faults, signs, late>>
      BY <1>12 DEF Route, LoginAgain
    <2> QED
      BY <1>0, <1>1, <1>2, <1>3, <1>5, <1>6, <1>l, <2>1, <2>2, CountsKept DEF TypeOK
  <1>13. CASE FailLogin
    <2>1. auth' \in AuthType
      BY <1>2, <1>13 DEF FailLogin, AuthType
    <2>0. faults' \in 0..MaxFaults
      BY <1>0, <1>13, SessionAssumption DEF FailLogin, TypeOK
    <2>2. login' = NoCall /\ UNCHANGED <<serverVars, cookie, restore, netVars, signs, late>>
      BY <1>13 DEF FailLogin
    <2>3. Counts'
      BY <1>0, <2>2 DEF Counts, NoCall
    <2> QED
      BY <1>0, <1>1, <1>2, <1>3, <1>5, <1>6, <2>0, <2>1, <2>2, <2>3, Constants DEF TypeOK
  <1>14. ASSUME NEW r \in Requests, Begin(r) PROVE req' \in [Requests -> RequestType]
    <2>1. Header(NoToken) \in Token
      BY <1>0, Constants, CallTyped
    <2> QED
      BY <1>2, <1>14, <2>1 DEF Begin, RequestType
  <1>15. ASSUME NEW r \in Requests, Request(r) PROVE TypeOK' /\ Counts'
    <2>1. req' \in [Requests -> RequestType]
      BY <1>14, <1>15 DEF Request
    <2>2. UNCHANGED <<serverVars, cookie, auth, restore, login, faults, signs, late>>
      BY <1>15 DEF Request
    <2> QED
      BY <1>0, <1>1, <1>2, <1>3, <1>5, <1>6, <1>l, <2>1, <2>2, CountsKept DEF TypeOK
  <1>16. CASE StartLogout
    <2>1. req' \in [Requests -> RequestType]
      BY <1>4, <1>14, <1>16 DEF StartLogout
    <2>2. auth' \in AuthType
      BY <1>2, <1>16 DEF StartLogout, AuthType
    <2>3. UNCHANGED <<serverVars, cookie, restore, login, faults, signs, late>>
      BY <1>16 DEF StartLogout
    <2> QED
      BY <1>0, <1>1, <1>3, <1>5, <1>6, <1>l, <2>1, <2>2, <2>3, CountsKept DEF TypeOK
  <1>17. ASSUME NEW r \in Requests, Succeed(r) \/ Retry(r) PROVE TypeOK' /\ Counts'
    <2>1. req' \in [Requests -> RequestType]
      <3>1. CASE Succeed(r)
        BY <1>2, <3>1, Constants DEF Succeed
      <3>2. CASE Retry(r)
        <4>1. Header(req[r].tok) \in Token
          BY <1>0, <1>2, CallTyped DEF RequestType
        <4> QED
          BY <1>2, <3>2, <4>1 DEF Retry, RequestType
      <3> QED
        BY <1>17, <3>1, <3>2
    <2>2. UNCHANGED <<serverVars, cookie, auth, restore, login, faults, signs, late>>
      BY <1>17 DEF Succeed, Retry
    <2> QED
      BY <1>0, <1>1, <1>2, <1>3, <1>5, <1>6, <1>l, <2>1, <2>2, CountsKept DEF TypeOK
  <1>18. CASE ServeLogout
    <2>1. /\ store' \subseteq store
          /\ UNCHANGED <<gen, logins, cookie, auth, restore, login, req, faults, signs, late>>
      BY <1>18 DEF ServeLogout
    <2> QED
      BY <1>0, <1>1, <1>2, <1>3, <1>5, <1>6, <1>l, <2>1, CountsKept DEF TypeOK
  <1>19. CASE ReceiveLogout
    <2>1. /\ cookie' = NoSession /\ pc' = [pc EXCEPT !["logout"] = "ok"] /\ pc["logout"] = "served"
          /\ req' = [req EXCEPT !["logout"] = Fresh]
          /\ UNCHANGED <<serverVars, restore, login, isRefreshing, failedQueue, faults, late>>
      BY <1>19 DEF ReceiveLogout
    <2>2. pc'["logout"] = "ok"
      BY <1>0, <1>4, <2>1 DEF QueueInv
    <2>3. auth' = SignedOut(auth) /\ signs' = signs + 1
      BY <1>19, <2>1, <2>2 DEF ReceiveLogout, Conclude, Over
    <2>4. req' \in [Requests -> RequestType]
      BY <1>2, <2>1, Constants
    <2>5. auth' \in AuthType
      BY <1>2, <2>3, TabTyped
    <2>6. ~Over(pc["logout"])
      BY <2>1 DEF Over
    <2>7. signs <= logins /\ (login.code = "200" => signs < logins)
      BY <1>0, <2>6 DEF Counts
    <2>8. signs \in Nat /\ logins \in 0..MaxLogins /\ MaxLogins \in Nat
      BY <1>0, SessionAssumption DEF TypeOK
    <2>9. /\ signs' \in 0..(2 * MaxLogins + 1) /\ signs' <= logins' + 1
          /\ login'.code = "200" => signs' <= logins'
      BY <2>1, <2>3, <2>7, <2>8
    <2>10. cookie'.id <= logins'
      BY <2>1, <2>8 DEF NoSession
    <2>11. Counts'
      BY <1>0, <2>1, <2>2, <2>9, <2>10 DEF Counts, Over
    <2> QED
      BY <1>0, <1>1, <1>3, <1>5, <1>6, <2>1, <2>4, <2>5, <2>9, <2>11, Constants DEF TypeOK
  <1>20. ASSUME NEW r \in Requests, Lose(r) PROVE TypeOK' /\ Counts'
    <2>1. req' \in [Requests -> RequestType]
      <3>1. CASE r \in Gets /\ req[r].tries < MaxRetries
        <4>1. req' = [req EXCEPT ![r].tries = @ + 1]
          BY <1>20, <3>1 DEF Lose
        <4>2. req[r].tries + 1 \in 0..MaxRetries
          BY <1>2, <3>1 DEF RequestType, MaxRetries
        <4> QED
          BY <1>2, <4>1, <4>2 DEF RequestType
      <3>2. CASE ~(r \in Gets /\ req[r].tries < MaxRetries)
        BY <1>2, <1>20, <3>2, Constants DEF Lose
      <3> QED
        BY <3>1, <3>2
    <2>2. faults' \in 0..MaxFaults
      BY <1>0, <1>20, SessionAssumption DEF Lose, TypeOK
    <2>3. Conclude(auth) /\ UNCHANGED <<serverVars, cookie, restore, login, late>>
      BY <1>20 DEF Lose
    <2>4. auth' \in AuthType /\ signs' \in 0..(2 * MaxLogins + 1) /\ Counts'
      BY <1>0, <1>2, <1>l, <2>3, Concluded
    <2> QED
      BY <1>0, <1>1, <1>3, <1>5, <1>6, <2>1, <2>2, <2>3, <2>4 DEF TypeOK
  <1>21. ASSUME NEW r \in Requests, Unauthorised(r) PROVE TypeOK' /\ Counts'
    <2>1. req' \in [Requests -> RequestType]
      <3>1. \/ req' = req
            \/ req' = [req EXCEPT ![r] = Fresh]
            \/ req' = [req EXCEPT ![r].retried = TRUE, ![r].call = Sent]
        BY <1>21 DEF Unauthorised
      <3>2. Sent \in Call
        BY <1>0, CallTyped
      <3> QED
        <4>1. [req[r] EXCEPT !.retried = TRUE, !.call = Sent] \in RequestType
          BY <1>2, <3>2 DEF RequestType
        <4>2. [req EXCEPT ![r].retried = TRUE, ![r].call = Sent]
              = [req EXCEPT ![r] = [req[r] EXCEPT !.retried = TRUE, !.call = Sent]]
          BY <1>2 DEF RequestType
        <4> QED
          BY <1>2, <3>1, <4>1, <4>2, Constants
    <2>2. Conclude(auth) /\ UNCHANGED <<serverVars, cookie, restore, login, faults, late>>
      BY <1>21 DEF Unauthorised
    <2>3. auth' \in AuthType /\ signs' \in 0..(2 * MaxLogins + 1) /\ Counts'
      BY <1>0, <1>2, <1>l, <2>2, Concluded
    <2> QED
      BY <1>0, <1>1, <1>3, <1>5, <1>6, <2>1, <2>2, <2>3 DEF TypeOK
  <1>22. ASSUME NEW r \in Requests, ServeRefresh(r) PROVE TypeOK' /\ Counts'
    <2>1. PICK o \in Outcomes(req[r].call) : req' = [req EXCEPT ![r].call = o] /\ Counted(o)
      BY <1>22 DEF ServeRefresh
    <2>2. req[r].call \in Call
      BY <1>2 DEF RequestType
    <2>3. o \in Call /\ faults' \in 0..MaxFaults
      BY <1>0, <2>1, <2>2, OutcomeFacts
    <2>4. req' \in [Requests -> RequestType]
      BY <1>2, <2>1, <2>3 DEF RequestType
    <2>5. UNCHANGED <<serverVars, cookie, auth, restore, login, pc, signs, late>>
      BY <1>22 DEF ServeRefresh
    <2> QED
      BY <1>0, <1>1, <1>2, <1>3, <1>5, <1>6, <2>3, <2>4, <2>5, CountsKept DEF TypeOK
  <1>23. ASSUME NEW r \in Requests, Refreshed(r) PROVE TypeOK' /\ Counts'
    <2> DEFINE t == req[r].call.tok
    <2>1. /\ auth' = [auth EXCEPT !.mem = t, !.header = t, !.active = FALSE]
          /\ req' = [q \in Requests |->
                       IF q \in failedQueue \cup {r}
                       THEN [req[q] EXCEPT !.tok = t, !.call = NoCall] ELSE req[q]]
          /\ late' \in BOOLEAN
          /\ UNCHANGED <<serverVars, cookie, restore, login, faults, signs>>
      BY <1>0, <1>23 DEF Refreshed, Note, TypeOK
    <2>2. t \in Token
      BY <1>2 DEF RequestType, Call
    <2> HIDE DEF t
    <2>3. auth' \in AuthType
      BY <1>2, <2>1, <2>2 DEF AuthType
    <2>4. \A q \in Requests : [req[q] EXCEPT !.tok = t, !.call = NoCall] \in RequestType
      BY <1>2, <2>2, Constants DEF RequestType
    <2>5. req' \in [Requests -> RequestType]
      BY <1>2, <2>1, <2>4
    <2> QED
      BY <1>0, <1>1, <1>3, <1>5, <1>6, <1>l, <2>1, <2>3, <2>5, CountsKept DEF TypeOK
  <1>24. ASSUME NEW r \in Requests, RefreshFailed(r) PROVE TypeOK' /\ Counts'
    <2>1. /\ req' = [q \in Requests |-> IF q \in failedQueue \cup {r} THEN Fresh ELSE req[q]]
          /\ Conclude(GivenUp(auth)) /\ late' \in BOOLEAN
          /\ UNCHANGED <<serverVars, cookie, restore, login, faults>>
      BY <1>0, <1>24 DEF RefreshFailed, Note, TypeOK
    <2>2. req' \in [Requests -> RequestType]
      BY <1>2, <2>1, Constants
    <2>3. GivenUp(auth) \in AuthType
      BY <1>2, TabTyped
    <2>4. auth' \in AuthType /\ signs' \in 0..(2 * MaxLogins + 1) /\ Counts'
      BY <1>0, <1>l, <2>1, <2>3, Concluded
    <2> QED
      BY <1>0, <1>1, <1>3, <1>5, <1>6, <2>1, <2>2, <2>4 DEF TypeOK
  <1>25. CASE Lapse \/ EndSession
    <2>1. gen' \in 1..MaxGen
      BY <1>0, <1>25, SessionAssumption DEF Lapse, EndSession, TypeOK
    <2>2. /\ store' \subseteq store
          /\ UNCHANGED <<logins, cookie, auth, restore, login, netVars, faults, signs, late>>
      BY <1>25 DEF Lapse, EndSession
    <2> QED
      BY <1>0, <1>2, <1>3, <2>1, <2>2, CountsKept DEF TypeOK
  <1>26. CASE UNCHANGED vars
    BY <1>0, <1>2, <1>3, <1>26, CountsKept DEF vars, TypeOK
  <1> QED
    BY <1>7, <1>8, <1>9, <1>10, <1>11, <1>12, <1>13, <1>15, <1>16, <1>17, <1>18, <1>19, <1>20,
       <1>21, <1>22, <1>23, <1>24, <1>25, <1>26 DEF Next, Calls

-----------------------------------------------------------------------------
(***************************************************************************)
(* Whose the tokens are, and when the session is over.                     *)
(***************************************************************************)
Asked == {restore.call} \cup {req[r].call : r \in Requests}

(* A refresh asked for since the last sign-in or sign-out carries the       *)
(* cookie of now, so its answer is about the user of now; and what it was  *)
(* refused for is still so.                                                *)
CallRight(call) ==
    /\ call.at <= signs
    /\ call.code = "lost" => faults # 0
    /\ call.at = signs /\ ~late =>
          /\ call.code = "sent" => call.cookie = cookie
          /\ call.code = "200" /\ auth.user # NoUser => call.tok.user = auth.user
          /\ call.code \in {"400", "401"} /\ faults = 0 => cookie \notin store

(* The restore of the mounting app is for the user it remembers.           *)
RestoreRight ==
    /\ restore.call.at = 0
    /\ restore.call.code # "none" /\ signs = 0 => auth.user = restore.saved

CallsRight == \A call \in Asked : CallRight(call)

TabRight ==
    ~late /\ auth.user # NoUser =>
        /\ cookie # NoSession => cookie.user = auth.user
        /\ auth.mem # NoToken => auth.mem.user = auth.user
        /\ auth.header # NoToken => auth.header.user = auth.user

(* A tab that knows its session expired has none, nor has one whose logout *)
(* was served.                                                             *)
EndRight ==
    ~late /\ faults = 0 /\ (auth.active \/ pc["logout"] = "served") => cookie \notin store

SInv == RestoreRight /\ CallsRight /\ TabRight /\ EndRight

(* Nobody's session is not stored, and only a new sign-in's is.            *)
LEMMA StoreFacts ==
    ASSUME TypeInv
    PROVE  NoSession \notin store /\ [user |-> login.tok.user, id |-> logins + 1] # cookie
  <1>1. \A s \in store : s.user # NoUser
    BY Constants DEF TypeInv, Counts
  <1>2. cookie.id <= logins /\ logins \in Nat /\ cookie.id \in Nat
    BY SessionAssumption DEF TypeInv, TypeOK, Counts, SessionKey
  <1> QED
    BY <1>1, <1>2 DEF NoSession

(* While nobody signs in or out, the calls asked for remain right.         *)
LEMMA CallsStay ==
    ASSUME TypeInv, SInv, UNCHANGED <<signs, cookie>>, late => late', auth'.user = auth.user,
           faults # 0 => faults' # 0, cookie \in store' => cookie \in store,
           \A call \in Asked' : call \in Asked \/ call = NoCall \/ CallRight(call)'
    PROVE  CallsRight'
  <1>1. \A call \in Asked : CallRight(call)'
    BY DEF SInv, CallsRight, CallRight
  <1>2. CallRight(NoCall)'
    <2>1. 0 <= signs'
      BY SessionAssumption DEF TypeInv, TypeOK
    <2> QED
      BY <2>1 DEF CallRight, NoCall
  <1> QED
    BY <1>1, <1>2 DEF CallsRight

(* A step that neither signs in nor out, expires nothing and gives nobody  *)
(* a token.                                                                *)
LEMMA PlainStep ==
    ASSUME TypeInv, SInv, UNCHANGED <<signs, cookie, restore>>, late => late',
           auth'.user = auth.user, faults # 0 => faults' # 0,
           cookie \in store' => cookie \in store,
           \A call \in Asked' : call \in Asked \/ call = NoCall \/ CallRight(call)',
           auth'.mem \in {auth.mem, NoToken}, auth'.header \in {auth.header, NoToken},
           ~late' /\ faults' = 0 /\ (auth'.active \/ pc'["logout"] = "served") =>
              auth.active \/ pc["logout"] = "served" \/ cookie \notin store'
    PROVE  SInv'
  <1>1. CallsRight'
    BY CallsStay
  <1>2. RestoreRight'
    BY DEF SInv, RestoreRight
  <1>3. TabRight'
    BY DEF SInv, TabRight
  <1>4. EndRight'
    BY DEF SInv, EndRight
  <1> QED
    BY <1>1, <1>2, <1>3, <1>4 DEF SInv

(* Once someone signed in or out, what was asked for before is late.       *)
LEMMA Outdated ==
    ASSUME TypeInv, SInv, signs' = signs + 1, faults # 0 => faults' # 0, restore' = restore,
           \A call \in Asked' : call \in Asked \/ call = NoCall
    PROVE  CallsRight' /\ RestoreRight'
  <1>1. signs \in Nat
    BY SessionAssumption DEF TypeInv, TypeOK
  <1>2. \A call \in Asked : call.at \in Nat /\ call.at <= signs
    <2>1. \A call \in Asked : call \in Call
      BY DEF TypeInv, TypeOK, Asked
    <2> QED
      BY <2>1, SessionAssumption DEF Call, SInv, CallsRight, CallRight
  <1>3. \A call \in Asked : CallRight(call)'
    <2>1. \A call \in Asked : call.at <= signs' /\ call.at # signs'
      BY <1>1, <1>2
    <2> QED
      BY <2>1 DEF SInv, CallsRight, CallRight
  <1>4. CallRight(NoCall)'
    <2>1. 0 <= signs'
      BY <1>1
    <2> QED
      BY <2>1 DEF CallRight, NoCall
  <1>5. CallsRight'
    BY <1>3, <1>4 DEF CallsRight
  <1>6. RestoreRight'
    <2>1. signs' # 0
      BY <1>1
    <2> QED
      BY <2>1 DEF SInv, RestoreRight
  <1> QED
    BY <1>5, <1>6

(* The logout request is over, or the tab did what it was about to do.     *)
LEMMA ConcludedRight ==
    ASSUME TypeInv, SInv, NEW a \in AuthType, Conclude(a), UNCHANGED <<restore, store>>,
           cookie' = cookie, late => late', faults # 0 => faults' # 0,
           a.user = auth.user, a.mem \in {auth.mem, NoToken},
           a.header \in {auth.header, NoToken},
           a.active => auth.active \/ (~late' /\ faults' = 0 => cookie \notin store),
           pc'["logout"] = "served" => pc["logout"] = "served",
           \A call \in Asked' : call \in Asked \/ call = NoCall \/ CallRight(call)',
           Over(pc'["logout"]) /\ ~Over(pc["logout"]) =>
              \A call \in Asked' : call \in Asked \/ call = NoCall
    PROVE  SInv'
  <1>1. CASE Over(pc'["logout"]) /\ ~Over(pc["logout"])
    <2>1. auth' = SignedOut(a) /\ signs' = signs + 1
      BY <1>1 DEF Conclude
    <2>2. auth'.user = NoUser /\ ~auth'.active
      BY <2>1 DEF SignedOut, AuthType
    <2>3. CallsRight' /\ RestoreRight'
      BY <1>1, <2>1, Outdated
    <2>4. TabRight' /\ EndRight'
      BY <1>1, <2>2 DEF TabRight, EndRight, Over
    <2> QED
      BY <2>3, <2>4 DEF SInv
  <1>2. CASE ~(Over(pc'["logout"]) /\ ~Over(pc["logout"]))
    <2>1. auth' = a /\ signs' = signs
      BY <1>2 DEF Conclude
    <2> QED
      BY <2>1, PlainStep
  <1> QED
    BY <1>1, <1>2

(* The app mounts with the cookie, and the profile, it finds.              *)
LEMMA SessionInit == Init => SInv
  <1> SUFFICES ASSUME Init PROVE SInv
    OBVIOUS
  <1>0. PICK saved \in Remembered, kept \in BOOLEAN, page \in {"login", "app"} :
          /\ cookie = IF kept THEN [user |-> Returning, id |-> 0] ELSE NoSession
          /\ auth = [mem |-> NoToken, header |-> NoToken, user |-> saved,
                     signedIn |-> FALSE, expired |-> FALSE, active |-> FALSE,
                     open |-> FALSE, path |-> page, loading |-> TRUE]
          /\ restore = [call |-> [NoCall EXCEPT !.code = "sent", !.cookie = cookie],
                        saved |-> saved]
    BY DEF Init
  <1>1. /\ restore.call.at = 0 /\ restore.call.code = "sent" /\ restore.call.cookie = cookie
        /\ auth.user = restore.saved /\ auth.user \in {Returning, NoUser} /\ ~auth.active
        /\ auth.mem = NoToken /\ auth.header = NoToken
        /\ cookie # NoSession => cookie.user = Returning
    BY <1>0 DEF NoCall, Remembered
  <1>r. RestoreRight /\ TabRight /\ EndRight
    BY <1>1, Constants DEF Init, RestoreRight, TabRight, EndRight
  <1>2. \A call \in Asked : call = restore.call \/ call = NoCall
    BY DEF Init, Asked, Fresh
  <1>3. CallsRight
    <2>1. signs = 0
      BY DEF Init
    <2>2. CallRight(NoCall)
      BY <2>1 DEF CallRight, NoCall
    <2>3. CallRight(restore.call)
      BY <1>1, <2>1 DEF CallRight
    <2> QED
      BY <1>2, <2>2, <2>3 DEF CallsRight
  <1> QED
    BY <1>r, <1>3 DEF SInv

(* What a call asked for now comes back with is right.                     *)
LEMMA AnswerRight ==
    ASSUME TypeInv, SInv, NEW call \in Asked, NEW o \in Outcomes(call), Counted(o),
           UNCHANGED <<store, cookie, auth, signs, late>>, call.code = "sent"
    PROVE  o \in Call /\ CallRight(o)' /\ (faults # 0 => faults' # 0)
  <1>1. TypeOK /\ call \in Call
    BY DEF TypeInv, TypeOK, Asked
  <1>2. /\ o \in Call /\ o.at = call.at /\ o.code \in {"200", "400", "401", "lost"}
        /\ faults' \in 0..MaxFaults /\ faults' >= faults /\ (o.code = "lost" => faults' # 0)
        /\ o.code = "200" => /\ o.tok.user = call.cookie.user
                             /\ call.cookie # NoSession
        /\ o.code \in {"400", "401"} => call.cookie = NoSession \/ call.cookie \notin store
    BY <1>1, OutcomeFacts
  <1>3. faults \in Nat /\ faults' \in Nat /\ (faults # 0 => faults' # 0)
    BY <1>1, <1>2, SessionAssumption DEF TypeOK
  <1>4. call.at <= signs /\ (call.at = signs /\ ~late => call.cookie = cookie)
    BY DEF SInv, CallsRight, CallRight
  <1>5. ~late /\ auth.user # NoUser /\ cookie # NoSession => cookie.user = auth.user
    BY DEF SInv, TabRight
  <1>6. NoSession \notin store
    BY StoreFacts
  <1> QED
    BY <1>2, <1>3, <1>4, <1>5, <1>6 DEF CallRight

(* The answer to the restore of a mounting app: it is late, or the tab is  *)
(* still the remembered user's.                                            *)
LEMMA RestoreStep == TypeInv /\ SInv /\ ReceiveRestore => SInv'
  <1> SUFFICES ASSUME TypeInv, SInv, ReceiveRestore PROVE SInv'
    OBVIOUS
  <1> DEFINE call == restore.call
             refused == IF call.code = "401" THEN GivenUp(auth) ELSE auth
             cleared == [refused EXCEPT !.mem = NoToken, !.header = NoToken,
                                        !.signedIn = FALSE, !.loading = FALSE]
  <1>1. /\ restore' = [call |-> NoCall, saved |-> NoUser]
        /\ UNCHANGED <<store, cookie, pc, req, faults, signs>>
        /\ call.code # "none" /\ late' = (late \/ call.at # signs)
    BY DEF ReceiveRestore, Note, serverVars, netVars
  <1>2. auth \in AuthType /\ late \in BOOLEAN /\ call \in Call
    BY DEF TypeInv, TypeOK, AuthType
  <1>3. CallRight(call)
    BY DEF SInv, CallsRight, Asked
  <1>4. \A c \in Asked' : c \in Asked \/ c = NoCall
    BY <1>1 DEF Asked
  <1>5. RestoreRight'
    BY <1>1 DEF RestoreRight, NoCall
  <1>6. ~late' => ~late /\ call.at = signs /\ auth.user = restore.saved
    BY <1>1 DEF SInv, RestoreRight
  <1>7. refused \in AuthType
    BY <1>2, TabTyped
  <1>8. /\ refused.user = auth.user
        /\ refused.active => auth.active \/ call.code = "401"
    BY <1>2 DEF GivenUp, AuthType
  <1> HIDE DEF refused
  <1>9. /\ cleared.user = auth.user /\ cleared.mem = NoToken /\ cleared.header = NoToken
        /\ cleared.active = refused.active /\ cleared \in AuthType
    BY <1>7, <1>8, Constants DEF AuthType
  <1> HIDE DEF cleared
  <1>10. CASE call.code = "200"
    <2>1. auth' = [SignedIn(auth, call.tok, IF restore.saved # NoUser
                                            THEN restore.saved ELSE auth.user)
                     EXCEPT !.loading = FALSE]
      BY <1>10 DEF ReceiveRestore
    <2>2. /\ auth'.mem = call.tok /\ auth'.header = call.tok /\ ~auth'.active
          /\ auth'.user = IF restore.saved # NoUser THEN restore.saved ELSE auth.user
      BY <1>2, <2>1 DEF SignedIn, AuthType
    <2>3. ~late' => auth'.user = auth.user
      BY <1>6, <2>2
    <2>4. CallsRight'
      <3>1. CASE ~late'
        BY <1>1, <1>4, <1>6, <2>3, <3>1, CallsStay
      <3>2. CASE late'
        BY <1>1, <1>4, <3>2, SessionAssumption DEF CallsRight, CallRight, SInv, NoCall, TypeInv, TypeOK
      <3> QED
        BY <3>1, <3>2
    <2>5. TabRight'
      BY <1>1, <1>3, <1>6, <1>10, <2>2, <2>3 DEF TabRight, CallRight, SInv
    <2>6. EndRight'
      BY <1>1, <1>6, <2>2 DEF EndRight, SInv
    <2> QED
      BY <1>5, <2>4, <2>5, <2>6 DEF SInv
  <1>11. CASE call.code # "200"
    <2>1. auth' = IF restore.saved # NoUser
                  THEN [cleared EXCEPT !.expired = TRUE,
                           !.open = @ \/ (~auth.expired /\ auth.path # "login")]
                  ELSE [cleared EXCEPT !.user = NoUser]
      BY <1>11 DEF ReceiveRestore, refused, cleared
    <2>2. /\ auth'.mem = NoToken /\ auth'.header = NoToken /\ auth'.active = refused.active
          /\ auth'.user = IF restore.saved # NoUser THEN auth.user ELSE NoUser
      BY <1>9, <2>1 DEF AuthType
    <2>3. ~late' => auth'.user = auth.user
      BY <1>6, <2>2
    <2>4. CallsRight'
      <3>1. CASE ~late'
        BY <1>1, <1>4, <1>6, <2>3, <3>1, CallsStay
      <3>2. CASE late'
        BY <1>1, <1>4, <3>2, SessionAssumption DEF CallsRight, CallRight, SInv, NoCall, TypeInv, TypeOK
      <3> QED
        BY <3>1, <3>2
    <2>5. TabRight'
      BY <1>1, <1>6, <2>2, <2>3 DEF TabRight, SInv
    <2>6. EndRight'
      BY <1>1, <1>3, <1>6, <1>8, <2>2 DEF EndRight, CallRight, SInv
    <2> QED
      BY <1>5, <2>4, <2>5, <2>6 DEF SInv
  <1> QED
    BY <1>10, <1>11

(* Every step keeps the tokens and the session in order.                   *)
LEMMA SessionNext == TypeInv /\ SInv /\ [Next]_vars => SInv'
  <1> SUFFICES ASSUME TypeInv, SInv, [Next]_vars PROVE SInv'
    OBVIOUS
  <1>0. TypeOK /\ pc \in [Requests -> Stage] /\ late \in BOOLEAN /\ faults \in Nat
    BY SessionAssumption DEF TypeInv, TypeOK
  <1>1. auth \in AuthType /\ req \in [Requests -> RequestType] /\ "logout" \in Requests
    BY <1>0, Constants DEF TypeOK, AuthType, RequestType
  <1>2. ASSUME UNCHANGED <<restore, req>> PROVE \A call \in Asked' : call \in Asked
    BY <1>2 DEF Asked
  <1>3. ASSUME NEW r \in Requests, UNCHANGED restore,
               \/ req' = [req EXCEPT ![r] = Fresh]
               \/ \E t \in Token : req' = [req EXCEPT ![r].tok = t]
               \/ req' = [req EXCEPT ![r].tries = @ + 1]
        PROVE  \A call \in Asked' : call \in Asked \/ call = NoCall
    <2>1. \A q \in Requests : req'[q].call = req[q].call \/ req'[q].call = NoCall
      BY <1>1, <1>3 DEF RequestType, Fresh
    <2> QED
      BY <1>3, <2>1 DEF Asked
  <1> USE DEF serverVars, netVars
  <1>4. CASE ServeRestore
    <2>1. PICK o \in Outcomes(restore.call) : restore' = [restore EXCEPT !.call = o] /\ Counted(o)
      BY <1>4 DEF ServeRestore
    <2>2. /\ restore.call.code = "sent" /\ restore.call \in Asked
          /\ UNCHANGED <<store, cookie, auth, pc, req, signs, late>>
      BY <1>4 DEF ServeRestore, Asked
    <2>3. o \in Call /\ CallRight(o)' /\ (faults # 0 => faults' # 0)
      BY <2>1, <2>2, AnswerRight
    <2>4. restore'.call = o /\ restore'.saved = restore.saved
      BY <1>0, <2>1 DEF TypeOK
    <2>5. \A call \in Asked' : call \in Asked \/ CallRight(call)'
      BY <2>2, <2>3, <2>4 DEF Asked
    <2>6. CallsRight'
      BY <2>2, <2>3, <2>5, CallsStay
    <2>7. o.at = restore.call.at
      BY <1>0, <2>1, OutcomeFacts DEF TypeOK
    <2>8. RestoreRight' /\ TabRight' /\ EndRight'
      BY <2>2, <2>3, <2>4, <2>7 DEF SInv, RestoreRight, TabRight, EndRight
    <2> QED
      BY <2>6, <2>8 DEF SInv
  <1>5. CASE ReceiveRestore
    BY <1>5, RestoreStep
  <1>6. ASSUME NEW u \in Users, StartLogin(u) PROVE SInv'
    <2>1. UNCHANGED <<store, cookie, restore, pc, req, faults, signs, late>>
      BY <1>6 DEF StartLogin
    <2>2. auth'.user = auth.user /\ auth'.mem = auth.mem /\ auth'.header = auth.header
          /\ auth'.active = auth.active
      BY <1>1, <1>6 DEF StartLogin, AuthType
    <2> QED
      BY <1>2, <2>1, <2>2, PlainStep
  <1>7. CASE ServeLogin
    <2>1. /\ store' = store \cup {[user |-> login.tok.user, id |-> logins + 1]}
          /\ UNCHANGED <<cookie, auth, restore, pc, req, faults, signs, late>>
      BY <1>7 DEF ServeLogin
    <2>2. cookie \in store' => cookie \in store
      BY <2>1, StoreFacts
    <2> QED
      BY <1>2, <2>1, <2>2, PlainStep
  <1>8. CASE ReceiveLogin
    <2>1. /\ login.code = "200" /\ cookie' = login.cookie /\ signs' = signs + 1
          /\ auth' = [SignedIn(auth, login.tok, login.cookie.user)
                        EXCEPT !.loading = FALSE, !.path = "app"]
          /\ UNCHANGED <<store, restore, pc, req, faults>>
          /\ pc["logout"] = "served" => late'
      BY <1>8 DEF ReceiveLogin, Over
    <2>2. auth'.mem = login.tok /\ auth'.header = login.tok /\ ~auth'.active
          /\ auth'.user = login.cookie.user
      BY <1>1, <2>1 DEF SignedIn, AuthType
    <2>3. login.cookie.user = login.tok.user
      BY <2>1 DEF TypeInv, Counts
    <2>4. CallsRight' /\ RestoreRight'
      BY <1>2, <2>1, Outdated
    <2>5. TabRight' /\ EndRight'
      BY <2>1, <2>2, <2>3 DEF TabRight, EndRight
    <2> QED
      BY <2>4, <2>5 DEF SInv
  <1>9. CASE Route \/ LoginAgain \/ FailLogin
    <2>1. /\ UNCHANGED <<store, cookie, restore, pc, req, signs, late>>
          /\ faults' = faults \/ faults' = faults + 1
      BY <1>9 DEF Route, LoginAgain, FailLogin
    <2>2. /\ auth'.user = auth.user /\ auth'.mem \in {auth.mem, NoToken}
          /\ auth'.header = auth.header /\ (auth'.active => auth.active)
      <3>1. CASE Route
        BY <1>1, <3>1 DEF Route, AuthType
      <3>2. CASE LoginAgain
        BY <1>1, <3>2 DEF LoginAgain, AuthType
      <3>3. CASE FailLogin
        BY <1>1, <3>3 DEF FailLogin, AuthType
      <3> QED
        BY <1>9, <3>1, <3>2, <3>3
    <2>3. faults # 0 => faults' # 0
      BY <1>0, <2>1
    <2> QED
      BY <1>2, <2>1, <2>2, <2>3, PlainStep
  <1>10. ASSUME NEW r \in Requests, Begin(r) \/ Succeed(r) \/ Retry(r), UNCHANGED restore
         PROVE  /\ \A call \in Asked' : call \in Asked \/ call = NoCall
                /\ pc'["logout"] = "served" => pc["logout"] = "served"
    <2>1. \/ req' = [req EXCEPT ![r] = Fresh]
          \/ \E t \in Token : req' = [req EXCEPT ![r].tok = t]
      <3>1. CASE Begin(r)
        BY <1>0, <3>1, CallTyped, Constants DEF Begin
      <3>2. CASE Succeed(r)
        BY <3>2 DEF Succeed
      <3>3. CASE Retry(r)
        <4>1. Header(req[r].tok) \in Token
          BY <1>0, <1>1, CallTyped DEF RequestType
        <4>2. req' = [req EXCEPT ![r].tok = Header(req[r].tok)]
          BY <1>1, <3>3 DEF Retry, RequestType
        <4> QED
          BY <4>1, <4>2
      <3> QED
        BY <1>10, <3>1, <3>2, <3>3
    <2>2. \E s \in {"sent", "ok"} : pc' = [pc EXCEPT ![r] = s]
      BY <1>10 DEF Begin, Succeed, Retry
    <2>3. pc'["logout"] = "served" => pc["logout"] = "served"
      BY <1>0, <1>1, <2>2
    <2> QED
      BY <1>3, <1>10, <2>1, <2>3
  <1>11. ASSUME NEW r \in Requests, Request(r) \/ Succeed(r) \/ Retry(r) PROVE SInv'
    <2>1. UNCHANGED <<store, cookie, auth, restore, faults, signs, late>>
      BY <1>11 DEF Request, Succeed, Retry
    <2>2. Begin(r) \/ Succeed(r) \/ Retry(r)
      BY <1>11 DEF Request
    <2> QED
      BY <1>10, <2>1, <2>2, PlainStep
  <1>12. CASE StartLogout
    <2>1. Begin("logout") /\ UNCHANGED <<store, cookie, restore, faults, signs, late>>
      BY <1>12 DEF StartLogout
    <2>2. /\ auth'.user = auth.user /\ auth'.mem = auth.mem
          /\ auth'.header = auth.header /\ (auth'.active => auth.active)
      BY <1>1, <1>12 DEF StartLogout, AuthType
    <2> QED
      BY <1>1, <1>10, <2>1, <2>2, PlainStep
  <1>13. CASE ServeLogout
    <2>1. /\ store' = store \ {cookie}
          /\ UNCHANGED <<cookie, auth, restore, req, faults, signs, late>>
      BY <1>13 DEF ServeLogout
    <2> QED
      BY <1>2, <2>1, PlainStep
  <1>14. CASE ReceiveLogout
    <2>1. /\ pc' = [pc EXCEPT !["logout"] = "ok"] /\ pc["logout"] = "served"
          /\ req' = [req EXCEPT !["logout"] = Fresh] /\ Conclude(auth)
          /\ UNCHANGED <<restore, faults, late>>
      BY <1>14 DEF ReceiveLogout
    <2>2. pc'["logout"] = "ok"
      BY <1>0, <1>1, <2>1
    <2>3. auth' = SignedOut(auth) /\ signs' = signs + 1
      BY <2>1, <2>2 DEF Conclude, Over
    <2>4. CallsRight' /\ RestoreRight'
      BY <1>1, <1>3, <2>1, <2>3, Outdated
    <2>5. auth'.user = NoUser /\ ~auth'.active
      BY <1>1, <2>3 DEF SignedOut, AuthType
    <2>6. TabRight' /\ EndRight'
      BY <2>2, <2>5 DEF TabRight, EndRight
    <2> QED
      BY <2>4, <2>6 DEF SInv
  <1>15. ASSUME NEW r \in Requests, Lose(r) PROVE SInv'
    <2>1. Conclude(auth) /\ faults' = faults + 1 /\ UNCHANGED <<store, cookie, restore, late>>
      BY <1>15 DEF Lose
    <2>2. req' = [req EXCEPT ![r].tries = @ + 1] \/ req' = [req EXCEPT ![r] = Fresh]
      BY <1>15 DEF Lose
    <2>3. \E s \in {"backoff", "failed"} : pc' = [pc EXCEPT ![r] = s]
      BY <1>15 DEF Lose
    <2>4. pc'["logout"] = "served" => pc["logout"] = "served"
      BY <1>0, <1>1, <2>3
    <2>5. faults' # 0
      BY <1>0, <2>1
    <2>6. \A call \in Asked' : call \in Asked \/ call = NoCall
      BY <1>3, <2>1, <2>2
    <2> QED
      BY <1>1, <2>1, <2>4, <2>5, <2>6, ConcludedRight
  <1>16. ASSUME NEW r \in Requests, Unauthorised(r) PROVE SInv'
    <2>1. Conclude(auth) /\ UNCHANGED <<store, cookie, restore, faults, late>>
      BY <1>16 DEF Unauthorised
    <2>2. \/ /\ pc' = [pc EXCEPT ![r] = "failed"]
             /\ req' = [req EXCEPT ![r] = Fresh]
          \/ pc' = [pc EXCEPT ![r] = "waiting"] /\ req' = req
          \/ /\ pc' = [pc EXCEPT ![r] = "refreshing"]
             /\ req' = [req EXCEPT ![r].retried = TRUE, ![r].call = Sent]
      BY <1>16 DEF Unauthorised
    <2>3. pc'["logout"] = "served" => pc["logout"] = "served"
      BY <1>0, <1>1, <2>2
    <2>4. CASE req' = req \/ req' = [req EXCEPT ![r] = Fresh]
      <3>1. \A call \in Asked' : call \in Asked \/ call = NoCall
        BY <1>2, <1>3, <2>1, <2>4
      <3> QED
        BY <1>1, <2>1, <2>3, <3>1, ConcludedRight
    <2>5. CASE /\ pc' = [pc EXCEPT ![r] = "refreshing"]
               /\ req' = [req EXCEPT ![r].retried = TRUE, ![r].call = Sent]
      <3>1. ~(Over(pc'["logout"]) /\ ~Over(pc["logout"]))
        BY <1>0, <1>1, <2>5 DEF Over
      <3>2. auth' = auth /\ signs' = signs
        BY <2>1, <3>1 DEF Conclude
      <3>3. \A q \in Requests : req'[q].call = req[q].call \/ req'[q].call = Sent
        BY <1>1, <2>5 DEF RequestType
      <3>4. \A call \in Asked' : call \in Asked \/ call = Sent
        BY <2>1, <3>3 DEF Asked
      <3>5. \A call \in Call : call = Sent => CallRight(call)'
        <4>1. signs \in Nat
          BY <1>0, SessionAssumption DEF TypeOK
        <4>2. Sent.code = "sent" /\ Sent.cookie = cookie /\ Sent.at = signs
          BY <1>0, CallTyped
        <4> QED
          BY <2>1, <3>2, <4>1, <4>2 DEF CallRight
      <3>6. \A call \in Asked' : call \in Asked \/ CallRight(call)'
        BY <1>0, <3>4, <3>5, CallTyped
      <3> QED
        BY <2>1, <2>3, <3>2, <3>6, PlainStep
    <2> QED
      BY <2>2, <2>4, <2>5
  <1>17. ASSUME NEW r \in Requests, ServeRefresh(r) PROVE SInv'
    <2>1. PICK o \in Outcomes(req[r].call) : req' = [req EXCEPT ![r].call = o] /\ Counted(o)
      BY <1>17 DEF ServeRefresh
    <2>2. /\ req[r].call.code = "sent" /\ req[r].call \in Asked
          /\ UNCHANGED <<store, cookie, auth, restore, pc, signs, late>>
      BY <1>17 DEF ServeRefresh, Asked
    <2>3. o \in Call /\ CallRight(o)' /\ (faults # 0 => faults' # 0)
      BY <2>1, <2>2, AnswerRight
    <2>4. \A q \in Requests : req'[q].call = req[q].call \/ req'[q].call = o
      BY <1>1, <2>1 DEF RequestType
    <2>5. \A call \in Asked' : call \in Asked \/ CallRight(call)'
      BY <2>2, <2>3, <2>4 DEF Asked
    <2> QED
      BY <2>2, <2>3, <2>5, PlainStep
  <1>18. ASSUME NEW r \in Requests, Refreshed(r) PROVE SInv'
    <2> DEFINE c == req[r].call
               t == c.tok
    <2>1. /\ c.code = "200" /\ late' = (late \/ c.at # signs)
          /\ auth' = [auth EXCEPT !.mem = t, !.header = t, !.active = FALSE]
          /\ pc' = [q \in Requests |-> IF q \in failedQueue \cup {r} THEN "sent" ELSE pc[q]]
          /\ req' = [q \in Requests |->
                       IF q \in failedQueue \cup {r}
                       THEN [req[q] EXCEPT !.tok = t, !.call = NoCall] ELSE req[q]]
          /\ UNCHANGED <<store, cookie, restore, faults, signs>>
      BY <1>18 DEF Refreshed, Note
    <2>2. c \in Asked /\ CallRight(c)
      BY DEF SInv, CallsRight, Asked
    <2> HIDE DEF c
    <2>3. \A q \in Requests : req'[q].call = req[q].call \/ req'[q].call = NoCall
      BY <1>1, <2>1 DEF RequestType
    <2>4. \A call \in Asked' : call \in Asked \/ call = NoCall
      BY <2>1, <2>3 DEF Asked
    <2>5. auth'.mem = t /\ auth'.header = t /\ ~auth'.active /\ auth'.user = auth.user
      BY <1>1, <2>1 DEF AuthType
    <2>6. pc'["logout"] = "served" => pc["logout"] = "served"
      BY <1>1, <2>1
    <2>7. CallsRight'
      BY <2>1, <2>4, <2>5, CallsStay
    <2>8. TabRight'
      BY <2>1, <2>2, <2>5 DEF SInv, TabRight, CallRight
    <2>9. RestoreRight' /\ EndRight'
      BY <2>1, <2>5, <2>6 DEF SInv, RestoreRight, EndRight
    <2> QED
      BY <2>7, <2>8, <2>9 DEF SInv
  <1>19. ASSUME NEW r \in Requests, RefreshFailed(r) PROVE SInv'
    <2> DEFINE c == req[r].call
    <2>1. /\ c.code \in {"400", "401", "lost"} /\ late' = (late \/ c.at # signs)
          /\ pc' = [q \in Requests |-> IF q \in failedQueue \cup {r} THEN "failed" ELSE pc[q]]
          /\ req' = [q \in Requests |-> IF q \in failedQueue \cup {r} THEN Fresh ELSE req[q]]
          /\ Conclude(GivenUp(auth))
          /\ UNCHANGED <<store, cookie, restore, faults>>
      BY <1>19 DEF RefreshFailed, Note
    <2>2. CallRight(c)
      BY DEF SInv, CallsRight, Asked
    <2> HIDE DEF c
    <2>3. \A q \in Requests : req'[q].call = req[q].call \/ req'[q].call = NoCall
      BY <1>1, <2>1 DEF RequestType, Fresh
    <2>4. \A call \in Asked' : call \in Asked \/ call = NoCall
      BY <2>1, <2>3 DEF Asked
    <2>5. GivenUp(auth) \in AuthType
      BY <1>1, TabTyped
    <2>6. /\ GivenUp(auth).user = auth.user /\ GivenUp(auth).mem = NoToken
          /\ GivenUp(auth).header \in {auth.header, NoToken}
      BY <1>1 DEF GivenUp, AuthType
    <2>7. ~late' /\ faults' = 0 => cookie \notin store
      BY <2>1, <2>2 DEF CallRight
    <2>8. pc'["logout"] = "served" => pc["logout"] = "served"
      BY <1>1, <2>1
    <2> QED
      BY <2>1, <2>4, <2>5, <2>6, <2>7, <2>8, ConcludedRight
  <1>20. CASE Lapse \/ EndSession \/ UNCHANGED vars
    <2>1. /\ store' \subseteq store
          /\ UNCHANGED <<cookie, auth, restore, pc, req, faults, signs, late>>
      BY <1>20 DEF Lapse, EndSession, vars
    <2> QED
      BY <1>2, <2>1, PlainStep
  <1> QED
    BY <1>4, <1>5, <1>6, <1>7, <1>8, <1>9, <1>11, <1>12, <1>13, <1>14, <1>15, <1>16, <1>17,
       <1>18, <1>19, <1>20 DEF Next, Calls

(* AuthContext.jsx 88-169, client.js 230-242: however answers and sign-ins  *)
(* interleave, a tab that no late answer reached holds only its user's     *)
(* tokens, and every variable keeps its type.                              *)
THEOREM TokensAreTheUsers == Spec => []TokenIsTheUsers
  <1>1. TypeInv /\ SInv => TokenIsTheUsers
    BY DEF TypeInv, SInv, TabRight, TokenIsTheUsers
  <1>2. QED
    BY TypeInit, TypeNext, SessionInit, SessionNext, <1>1, PTL DEF Spec

(* authService.js 109-124, client.js 200-241: without faults and late       *)
(* answers a logout that is over has ended the session of the cookie, also *)
(* when it was given up because the session had expired.                   *)
THEOREM LogoutDoesEndSession == Spec => LogoutEndsSession
  <1> DEFINE Ends ==
        /\ faults' = 0 /\ Over(pc'["logout"]) /\ ~Over(pc["logout"])
        /\ ~late' /\ ~(pc["logout"] = "sent" /\ req["logout"].retried)
        => cookie \notin store'
  <1>1. TypeInv /\ SInv /\ [Next]_vars => Ends
    <2> SUFFICES ASSUME TypeInv, SInv, [Next]_vars, faults' = 0,
                        Over(pc'["logout"]), ~Over(pc["logout"]), ~late',
                        ~(pc["logout"] = "sent" /\ req["logout"].retried)
                 PROVE  cookie \notin store'
      OBVIOUS
    <2>0. /\ pc \in [Requests -> Stage] /\ faults \in Nat /\ "logout" \in Requests
          /\ "logout" \notin Data
      BY SessionAssumption, Constants DEF TypeInv, TypeOK
    <2>1. ASSUME NEW r \in Requests, NEW s \in Stage, pc' = [pc EXCEPT ![r] = s]
          PROVE  r = "logout" /\ Over(s)
      BY <2>0, <2>1
    <2>2. CASE ReceiveLogout
      BY <2>2 DEF ReceiveLogout, serverVars, SInv, EndRight
    <2>3. ASSUME NEW r \in Requests, Unauthorised(r) PROVE cookie \notin store'
      <3>1. pc[r] = "sent" /\ UNCHANGED <<store, faults, late>>
        BY <2>3 DEF Unauthorised, serverVars
      <3>2. r = "logout" /\ auth.active
        BY <2>1, <2>3, <3>1 DEF Unauthorised, Stage, Over
      <3> QED
        BY <3>1, <3>2 DEF SInv, EndRight
    <2>4. ASSUME NEW r \in Requests, RefreshFailed(r) PROVE cookie \notin store'
      <3>1. /\ req[r].call.code \in {"400", "401", "lost"} /\ UNCHANGED <<store, faults>>
            /\ late' = (late \/ req[r].call.at # signs)
        BY <2>4 DEF RefreshFailed, Note, serverVars
      <3>2. CallRight(req[r].call)
        BY DEF SInv, CallsRight, Asked
      <3> QED
        BY <3>1, <3>2 DEF CallRight
    <2>5. ASSUME NEW r \in Requests, Lose(r) PROVE FALSE
      BY <2>0, <2>5 DEF Lose
    <2>6. ASSUME NEW r \in Requests, Refreshed(r) PROVE FALSE
      BY <2>0, <2>6 DEF Refreshed, Over
    <2>7. ASSUME NEW r \in Requests, Request(r) \/ Succeed(r) \/ Retry(r) PROVE FALSE
      BY <2>0, <2>1, <2>7 DEF Request, Begin, Succeed, Retry, Stage, Over
    <2>8. CASE StartLogout \/ ServeLogout
      BY <2>0, <2>1, <2>8 DEF StartLogout, Begin, ServeLogout, Stage, Over
    <2>9. pc' # pc
      OBVIOUS
    <2> QED
      BY <2>2, <2>3, <2>4, <2>5, <2>6, <2>7, <2>8, <2>9
      DEF Next, Calls, ServeRestore, ReceiveRestore, ServeLogin, ReceiveLogin, Route, ServeRefresh,
          StartLogin, FailLogin, LoginAgain, Lapse, EndSession, netVars, vars
  <1>2. QED
    BY TypeInit, TypeNext, SessionInit, SessionNext, <1>1, PTL DEF Spec, LogoutEndsSession



-----------------------------------------------------------------------------
(***************************************************************************)
(* The walk through a history.                                             *)
(***************************************************************************)
Row == [in : SUBSET Views, was : SUBSET Views, kind : Kinds]

TypedRows == rows \in Seq(Row) /\ Len(rows) <= MaxRows /\ screen \in Screens

(* A row's views before and after it settled.                              *)
Views2(r) == rows[r].in \cup rows[r].was

(* The stack of cursors: rows of the view, going back in time.             *)
StackInv ==
    /\ cursorHistory \in Seq(Nat) /\ cursorHistory[1] = 0
    /\ currentPageIndex \in 1 .. Len(cursorHistory)
    /\ \A i \in 2 .. Len(cursorHistory) : cursorHistory[i] \in 1 .. Len(rows)
    /\ \A i, j \in 2 .. Len(cursorHistory) : i < j => cursorHistory[j] < cursorHistory[i]
    /\ \A i \in 2 .. Len(cursorHistory) : view \in Views2(cursorHistory[i])

(* A page, stored or on its way, is cut from the rows there are, and its   *)
(* next cursor is a row of its view.                                       *)
PageRight(k, p) ==
    /\ p \in Pages /\ PageInPlace(k[2], p)
    /\ p.next <= Len(rows)
    /\ p.next # 0 => k[1] \in Views2(p.next)

PagesInv ==
    /\ cache \in [Keys -> Pages] /\ answer \in [Keys -> Pages]
    /\ \A k \in Keys : \A p \in {cache[k], answer[k]} : PageRight(k, p)
    /\ \A k \in Keys : answer[k].unread = {}

RestTyped ==
    /\ news \in [payment : Nat, notification : Nat]
    /\ view \in Views /\ local \in Kinds \cup {"ALL", "READ", "UNREAD"}
    /\ stale \subseteq Keys /\ asked \subseteq Keys /\ failed \subseteq Keys
    /\ read \subseteq Cursors /\ readAll \in Nat
    /\ marking \subseteq Cursors /\ markingAll \in BOOLEAN

HistoryInv == TypedRows /\ StackInv /\ PagesInv /\ RestTyped /\ ReadStaysRead

LEMMA HistoryNumbers ==
    /\ MaxRows \in Nat /\ FirstRows \in Nat /\ FirstRows <= MaxRows /\ Limit \in Nat /\ Limit >= 1
    /\ Base \in [Views -> Views] /\ Home \in Views
    /\ 0 \in Cursors
  BY HistoryPagesAssumption DEF Cursors

(* The page the services answer lies between its cursor and its next.      *)
LEMMA PageOfRows ==
    ASSUME TypedRows, NEW v \in Views, NEW c \in Cursors
    PROVE  /\ PageRight(<<v, c>>, PageOf(v, c)) /\ PageOf(v, c).unread = {}
           /\ PageOf(v, c).there
  <1> DEFINE S == Found(v, c)
             N == Len(rows)
  <1>0. N \in Nat /\ N <= MaxRows /\ MaxRows \in Nat /\ c \in Nat /\ Limit \in Nat
    BY HistoryNumbers DEF TypedRows, Cursors
  <1>1. S \subseteq InView(v) /\ InView(v) \subseteq 1..N
    BY DEF Found, Skipped, FromCursor, InView
  <1>2. S \subseteq 1..N /\ \A r \in S : v \in rows[r].in
    BY <1>1 DEF InView
  <1>3. ASSUME c # 0, NEW r \in S PROVE r < c
    <2>1. PICK s \in FromCursor(v, c) : s > r
      BY <1>3 DEF Found, Skipped, Above
    <2>2. s <= c /\ s \in 1..N
      BY <1>1, <1>3, <2>1 DEF FromCursor
    <2> QED
      BY <1>0, <1>2, <1>3, <2>1, <2>2
  <1> HIDE DEF S
  <1>4. CursorOf(S) = 0 \/ CursorOf(S) \in Extra(S)
    BY DEF CursorOf
  <1>5. Extra(S) \subseteq S /\ Newest(S) \subseteq S
    BY DEF Extra, Newest
  <1>6. ASSUME NEW e \in Extra(S), NEW r \in Newest(S) PROVE r > e
    <2>1. e \in 1..N /\ r \in 1..N
      BY <1>2, <1>5, <1>6
    <2>2. ASSUME r <= e PROVE FALSE
      <3>1. Above(S, e) \subseteq Above(S, r)
        <4>1. \A s \in S : s > e => s > r
          BY <1>0, <1>2, <2>1, <2>2
        <4> QED
          BY <4>1 DEF Above
      <3>2. IsFiniteSet(Above(S, r))
        <4>1. IsFiniteSet(1..N)
          <5>1. 1 \in Int /\ N \in Int
            BY <1>0
          <5> QED
            BY <5>1, FS_Interval
        <4>2. Above(S, r) \subseteq 1..N
          BY <1>2 DEF Above
        <4> QED
          BY <4>1, <4>2, FS_Subset
      <3>3. /\ Cardinality(Above(S, e)) <= Cardinality(Above(S, r))
            /\ IsFiniteSet(Above(S, e))
        BY <3>1, <3>2, FS_Subset
      <3>4. Cardinality(Above(S, e)) = Limit /\ Cardinality(Above(S, r)) < Limit
        BY <1>6 DEF Extra, Newest
      <3>5. Cardinality(Above(S, r)) \in Nat
        BY <3>2, FS_CardinalityType
      <3> QED
        BY <1>0, <3>3, <3>4, <3>5
    <2> QED
      BY <2>1, <2>2
  <1> DEFINE p == [rows |-> Newest(S), next |-> CursorOf(S), unread |-> {}, there |-> TRUE]
  <1>7. PageOf(v, c) = p
    BY DEF PageOf, S
  <1>8. CursorOf(S) \in 0..N /\ Newest(S) \subseteq 1..N
    <2>1. CursorOf(S) = 0 \/ CursorOf(S) \in 1..N
      BY <1>2, <1>4, <1>5
    <2>2. Newest(S) \subseteq 1..N
      BY <1>2, <1>5
    <2> HIDE DEF N
    <2> QED
      BY <1>0, <2>1, <2>2
  <1>9. p \in Pages
    BY <1>0, <1>8 DEF Pages, Cursors
  <1>10. \A r \in Newest(S) : (c # 0 => r <= c) /\ r > CursorOf(S)
    BY <1>0, <1>2, <1>3, <1>4, <1>5, <1>6, <1>8
  <1>11. c # 0 => CursorOf(S) < c
    BY <1>0, <1>3, <1>4, <1>5
  <1>12. PageInPlace(c, p)
    BY <1>10, <1>11 DEF PageInPlace
  <1>13. CursorOf(S) # 0 => v \in rows[CursorOf(S)].in
    BY <1>2, <1>4, <1>5
  <1> QED
    BY <1>0, <1>7, <1>8, <1>9, <1>12, <1>13 DEF PageRight, Views2

(* The notification service answers from the rows it has just added.       *)
AnswersRight ==
    TypedRows =>
       \A k \in Keys : \A page \in {PageOf(k[1], k[2])} : PageRight(k, page) /\ page.unread = {}

LEMMA AnswersStayRight == AnswersRight /\ AnswersRight'
  <1>1. AnswersRight
    <2> SUFFICES ASSUME TypedRows, NEW k \in Keys, NEW page \in {PageOf(k[1], k[2])}
                 PROVE  PageRight(k, page) /\ page.unread = {}
      BY DEF AnswersRight
    <2>1. k[1] \in Views /\ k[2] \in Cursors /\ k = <<k[1], k[2]>>
      BY DEF Keys
    <2> QED
      BY <2>1, PageOfRows
  <1> QED
    BY <1>1, PTL

LEMMA EmptyPage ==
    ASSUME TypedRows, NEW k \in Keys, NEW b \in BOOLEAN
    PROVE  PageRight(k, [NoPage EXCEPT !.there = b]) /\ PageRight(k, NoPage)
  <1>1. NoPage \in Pages /\ [NoPage EXCEPT !.there = b] \in Pages
    BY HistoryNumbers DEF NoPage, Pages
  <1>2. k[2] \in Nat /\ Len(rows) \in Nat
    BY HistoryNumbers DEF Keys, Cursors, TypedRows
  <1> QED
    BY <1>1, <1>2 DEF PageRight, PageInPlace, NoPage

(* Rows are only added, and their views only grow.                         *)
RowsGrow ==
    /\ Len(rows) <= Len(rows')
    /\ \A r \in 1..Len(rows) : Views2(r) \subseteq rows'[r].in \cup rows'[r].was

LEMMA RowsSame == ASSUME UNCHANGED rows, TypedRows PROVE RowsGrow
  BY DEF RowsGrow, Views2, TypedRows

LEMMA RowWritten ==
    ASSUME TypedRows, Len(rows) < MaxRows, NEW s \in Shapes[screen],
           rows' = Append(rows, NewRow(s)), screen' = screen
    PROVE  TypedRows' /\ RowsGrow
  <1>1. NewRow(s) \in Row
    BY HistoryPagesAssumption DEF NewRow, Row, TypedRows
  <1>2. rows' \in Seq(Row) /\ Len(rows') = Len(rows) + 1 /\ Len(rows) \in Nat
    BY <1>1 DEF TypedRows
  <1>3. \A r \in 1..Len(rows) : rows'[r] = rows[r]
    BY <1>1 DEF TypedRows
  <1> QED
    BY <1>2, <1>3, HistoryNumbers DEF TypedRows, RowsGrow, Views2

LEMMA RowSettled ==
    ASSUME TypedRows, NEW r \in 1..Len(rows), Settle(r)
    PROVE  TypedRows' /\ RowsGrow
  <1>1. PICK s \in Shapes[screen] : rows' = [rows EXCEPT ![r].in = s.in]
    BY DEF Settle
  <1>2. screen' = screen /\ rows[r].in = rows[r].was
    BY DEF Settle
  <1>3. s.in \in SUBSET Views /\ rows[r] \in Row
    BY HistoryPagesAssumption DEF TypedRows
  <1>4. [rows[r] EXCEPT !.in = s.in] \in Row
    BY <1>3 DEF Row
  <1>5. rows' \in Seq(Row) /\ Len(rows') = Len(rows)
    BY <1>1, <1>4 DEF TypedRows
  <1>6. \A q \in 1..Len(rows) : Views2(q) \subseteq rows'[q].in \cup rows'[q].was
    BY <1>1, <1>2 DEF TypedRows, Row, Views2
  <1> QED
    BY <1>2, <1>5, <1>6 DEF TypedRows, RowsGrow

(* A page stays right while rows are written and settle.                   *)
LEMMA PageStays ==
    ASSUME TypedRows, TypedRows', RowsGrow, NEW k \in Keys, NEW p, PageRight(k, p)
    PROVE  PageRight(k, p)'
  <1>1. Len(rows) \in Nat /\ Len(rows') \in Nat /\ p.next \in Nat
    BY DEF TypedRows, PageRight, Pages, Cursors
  <1>2. p.next # 0 => p.next \in 1..Len(rows)
    BY <1>1 DEF PageRight
  <1> QED
    BY <1>1, <1>2 DEF PageRight, RowsGrow, Views2, PageInPlace

LEMMA StackStays ==
    ASSUME TypedRows, TypedRows', RowsGrow, StackInv,
           UNCHANGED <<view, cursorHistory, currentPageIndex>>
    PROVE  StackInv'
  <1>1. Len(rows) \in Nat /\ Len(rows') \in Nat
    BY DEF TypedRows
  <1>2. \A i \in 2 .. Len(cursorHistory) : cursorHistory[i] \in 1 .. Len(rows')
    BY <1>1 DEF StackInv, RowsGrow
  <1> QED
    BY <1>2 DEF StackInv, RowsGrow, Views2

(* What the query cache does to pages that are right.                      *)
LEMMA PagesStay ==
    ASSUME TypedRows, TypedRows', RowsGrow, PagesInv,
           cache' \in [Keys -> Pages], answer' \in [Keys -> Pages],
           \A k \in Keys : \A p \in {cache'[k]} :
              p = cache[k] \/ PageRight(k, p) \/ PageRight(k, p)',
           \A k \in Keys : \A p \in {answer'[k]} :
              \/ p = answer[k]
              \/ p.unread = {} /\ (PageRight(k, p) \/ PageRight(k, p)')
    PROVE  PagesInv'
  <1>1. ASSUME NEW k \in Keys, NEW p, PageRight(k, p) PROVE PageRight(k, p)'
    BY <1>1, PageStays
  <1>2. ASSUME NEW k \in Keys, NEW p \in {cache'[k], answer'[k]} PROVE PageRight(k, p)'
    <2>1. PageRight(k, cache[k]) /\ PageRight(k, answer[k])
      BY DEF PagesInv
    <2>2. p \in {cache'[k]} \/ p \in {answer'[k]}
      BY <1>2
    <2> QED
      BY <1>1, <2>1, <2>2
  <1>3. \A k \in Keys : answer'[k].unread = {}
    BY DEF PagesInv
  <1> QED
    BY <1>2, <1>3 DEF PagesInv

(* The marks in the browser's storage.                                     *)
LEMMA MarksStay ==
    ASSUME ReadStaysRead, UNCHANGED storage,
           \A k \in Keys : \A r \in cache'[k].unread \ {Live} :
              r \in cache[k].unread \/ Unread({r}) # {}
    PROVE  ReadStaysRead'
  BY DEF ReadStaysRead, Unread, storage

LEMMA HistoryInitRight == HistoryInit => HistoryInv
  <1> SUFFICES ASSUME HistoryInit PROVE HistoryInv
    OBVIOUS
  <1>1. TypedRows
    <2>1. \A s \in Shapes[screen] : NewRow(s) \in Row
      BY HistoryPagesAssumption DEF HistoryInit, NewRow, Row
    <2>2. rows \in [1..FirstRows -> Row]
      BY <2>1 DEF HistoryInit
    <2>3. rows \in Seq(Row) /\ Len(rows) = FirstRows
      BY <2>2, HistoryNumbers
    <2> QED
      BY <2>3, HistoryNumbers DEF TypedRows, HistoryInit
  <1>2. StackInv
    BY DEF HistoryInit, StackInv
  <1>3. \A k \in Keys : PageRight(k, NoPage)
    BY <1>1, EmptyPage
  <1>4. PagesInv
    BY <1>3 DEF HistoryInit, PagesInv, PageRight, NoPage
  <1>b. markingAll \in BOOLEAN
    BY Zenon DEF HistoryInit
  <1>5. RestTyped
    BY <1>b, HistoryNumbers DEF HistoryInit, RestTyped, Keys
  <1>6. ReadStaysRead
    BY DEF HistoryInit, ReadStaysRead, NoPage
  <1> QED
    BY <1>1, <1>2, <1>4, <1>5, <1>6 DEF HistoryInv

(* An answer or the end of a request stores a page.                        *)
LEMMA StoredPage ==
    ASSUME PagesInv, TypedRows, NEW k \in Keys, NEW page, PageRight(k, page), Stored(k, page)
    PROVE  /\ cache' \in [Keys -> Pages] /\ answer' \in [Keys -> Pages]
           /\ \A q \in Keys : \A p \in {cache'[q]} : p = cache[q] \/ PageRight(q, p)
           /\ \A q \in Keys : \A p \in {answer'[q]} :
                 p = answer[q] \/ (p.unread = {} /\ PageRight(q, p))
           /\ \A q \in Keys : cache'[q] = IF q = k THEN page ELSE cache[q]
           /\ (stale \subseteq Keys => stale' \subseteq Keys)
           /\ (asked \subseteq Keys => asked' \subseteq Keys)
           /\ (failed \subseteq Keys => failed' \subseteq Keys)
  <1>1. page \in Pages /\ NoPage \in Pages /\ NoPage.unread = {}
    BY EmptyPage DEF PageRight, NoPage
  <1>2. PageRight(k, NoPage)
    BY EmptyPage
  <1> QED
    BY <1>1, <1>2 DEF Stored, PagesInv

(* What a refetch does to the questions and answers.                       *)
LEMMA RefetchedPages ==
    ASSUME PagesInv, TypedRows, Cur \in Keys, Refetched
    PROVE  /\ answer' \in [Keys -> Pages]
           /\ \A q \in Keys : \A p \in {answer'[q]} :
                 p = answer[q] \/ (p.unread = {} /\ PageRight(q, p))
           /\ (asked \subseteq Keys => asked' \subseteq Keys)
  <1>1. NoPage \in Pages /\ NoPage.unread = {} /\ PageRight(Cur, NoPage)
    BY EmptyPage DEF PageRight, NoPage
  <1>2. answer' = answer \/ answer' = [answer EXCEPT ![Cur] = NoPage]
    BY DEF Refetched
  <1>3. asked' = asked \/ asked' = asked \cup {Cur}
    BY DEF Refetched
  <1> QED
    BY <1>1, <1>2, <1>3 DEF PagesInv

LEMMA CurIsKey == HistoryInv => Cur \in Keys /\ cursorHistory[currentPageIndex] \in Cursors
  <1> SUFFICES ASSUME HistoryInv PROVE Cur \in Keys /\ cursorHistory[currentPageIndex] \in Cursors
    OBVIOUS
  <1>1. cursorHistory[currentPageIndex] \in 0..Len(rows)
    BY DEF HistoryInv, StackInv, TypedRows
  <1>2. Len(rows) \in Nat /\ Len(rows) <= MaxRows
    BY DEF HistoryInv, TypedRows
  <1> QED
    BY <1>1, <1>2, HistoryNumbers DEF Cur, Keys, Cursors, HistoryInv, RestTyped

(* The tables change, and the services answer from them.                   *)
LEMMA TablesStep ==
    ASSUME HistoryInv,
           \/ Write \/ \E r \in 1..Len(rows) : Settle(r)
           \/ \E k \in Keys : ServeLedger(k) \/ ServeTransactions(k) \/ ServeNotifications(k)
    PROVE  HistoryInv'
  <1> USE DEF server, stack, query, storage
  <1>0. TypedRows /\ StackInv /\ PagesInv /\ RestTyped /\ ReadStaysRead
    BY DEF HistoryInv
  <1>1. Announced(news) \in [payment : Nat, notification : Nat]
    BY <1>0 DEF RestTyped, Announced
  <1>2. ASSUME TypedRows', RowsGrow, UNCHANGED <<stack, query, storage>>,
               news' \in [payment : Nat, notification : Nat]
        PROVE  HistoryInv'
    <2>1. PagesInv'
      BY <1>0, <1>2, PagesStay DEF PagesInv
    <2>2. StackInv'
      BY <1>0, <1>2, StackStays
    <2>3. ReadStaysRead'
      BY <1>0, <1>2, MarksStay
    <2> QED
      BY <1>0, <1>2, <2>1, <2>2, <2>3 DEF HistoryInv, RestTyped
  <1>3. CASE Write
    <2>1. PICK s \in Shapes[screen] : rows' = Append(rows, NewRow(s))
      BY <1>3 DEF Write
    <2>2. Len(rows) < MaxRows /\ screen' = screen /\ news' = Announced(news)
          /\ UNCHANGED <<stack, query, storage>>
      BY <1>3 DEF Write
    <2>3. TypedRows' /\ RowsGrow
      BY <1>0, <2>1, <2>2, RowWritten
    <2> QED
      BY <1>1, <1>2, <2>2, <2>3
  <1>4. ASSUME NEW r \in 1..Len(rows), Settle(r) PROVE HistoryInv'
    <2>1. TypedRows' /\ RowsGrow
      BY <1>0, <1>4, RowSettled
    <2>2. news' = Announced(news) /\ UNCHANGED <<stack, query, storage>>
      BY <1>4 DEF Settle
    <2> QED
      BY <1>1, <1>2, <2>1, <2>2
  <1>5. ASSUME NEW k \in Keys, Served(k), TypedRows', RowsGrow,
               news' \in [payment : Nat, notification : Nat],
               NEW page, answer' = [answer EXCEPT ![k] = page], page.unread = {},
               PageRight(k, page) \/ PageRight(k, page)'
        PROVE  HistoryInv'
    <2>1. UNCHANGED <<screen, stack, cache, stale, failed, storage>> /\ asked' \subseteq asked
      BY <1>5 DEF Served
    <2>2. page \in Pages
      BY <1>5 DEF PageRight
    <2>3. answer' \in [Keys -> Pages] /\ cache' \in [Keys -> Pages]
      BY <1>0, <1>5, <2>1, <2>2 DEF PagesInv
    <2>4. \A q \in Keys : \A p \in {answer'[q]} :
             p = answer[q] \/ (p.unread = {} /\ (PageRight(q, p) \/ PageRight(q, p)'))
      BY <1>0, <1>5 DEF PagesInv
    <2>5. PagesInv'
      BY <1>0, <1>5, <2>1, <2>3, <2>4, PagesStay
    <2>6. StackInv' /\ ReadStaysRead'
      BY <1>0, <1>5, <2>1, StackStays, MarksStay
    <2> QED
      BY <1>0, <1>5, <2>1, <2>5, <2>6 DEF HistoryInv, RestTyped
  <1>6. ASSUME NEW k \in Keys, ServeLedger(k) \/ ServeTransactions(k) PROVE HistoryInv'
    <2>1. /\ Served(k) /\ answer' = [answer EXCEPT ![k] = PageOf(k[1], k[2])]
          /\ UNCHANGED <<rows, news>>
      BY <1>6 DEF ServeLedger, ServeTransactions
    <2>3. PageRight(k, PageOf(k[1], k[2])) /\ PageOf(k[1], k[2]).unread = {}
      BY <1>0, AnswersStayRight DEF AnswersRight
    <2>4. TypedRows' /\ RowsGrow
      BY <1>0, <2>1, RowsSame DEF TypedRows, Served
    <2>5. news' \in [payment : Nat, notification : Nat]
      BY <1>0, <2>1 DEF RestTyped
    <2> QED
      BY <1>5, <2>1, <2>3, <2>4, <2>5
  <1>7. ASSUME NEW k \in Keys, ServeNotifications(k) PROVE HistoryInv'
    <2>1. Served(k)
      BY <1>7 DEF ServeNotifications
    <2>2. PICK page : page \in {PageOf(k[1], k[2])'} /\ answer' = [answer EXCEPT ![k] = page]
      BY <1>7 DEF ServeNotifications
    <2>3. TypedRows' /\ RowsGrow /\ news' \in [payment : Nat, notification : Nat]
      <3>1. CASE UNCHANGED <<rows, news>>
        BY <1>0, <2>1, <3>1, RowsSame DEF TypedRows, Served, RestTyped
      <3>2. CASE /\ Len(rows) < MaxRows
                 /\ \E s \in Shapes[screen] : rows' = Append(rows, NewRow(s))
                 /\ news' = Announced(news)
        BY <1>0, <1>1, <2>1, <3>2, RowWritten DEF Served
      <3> QED
        BY <1>7, <3>1, <3>2 DEF ServeNotifications
    <2>4. PageRight(k, page)' /\ page.unread = {}
      BY <2>2, <2>3, AnswersStayRight DEF AnswersRight
    <2> QED
      BY <1>5, <2>1, <2>2, <2>3, <2>4
  <1> QED
    BY <1>3, <1>4, <1>6, <1>7

(* A step that leaves the tables and the stack alone.                      *)
LEMMA CacheStep ==
    ASSUME HistoryInv, UNCHANGED <<screen, rows, stack>>, ReadStaysRead',
           cache' \in [Keys -> Pages], answer' \in [Keys -> Pages],
           \A k \in Keys : \A p \in {cache'[k]} : p = cache[k] \/ PageRight(k, p),
           \A k \in Keys : \A p \in {answer'[k]} :
              p = answer[k] \/ (p.unread = {} /\ PageRight(k, p)),
           news' \in [payment : Nat, notification : Nat],
           stale' \subseteq Keys, asked' \subseteq Keys, failed' \subseteq Keys,
           read' \subseteq Cursors, readAll' \in Nat, marking' \subseteq Cursors,
           markingAll' \in BOOLEAN
    PROVE  HistoryInv'
  <1>0. TypedRows /\ StackInv /\ PagesInv /\ RestTyped
    BY DEF HistoryInv
  <1>1. TypedRows' /\ RowsGrow
    BY <1>0, RowsSame DEF TypedRows
  <1>2. PagesInv'
    BY <1>0, <1>1, PagesStay
  <1>3. StackInv'
    BY <1>0, <1>1, StackStays DEF stack
  <1>4. RestTyped'
    BY <1>0 DEF RestTyped, stack
  <1> QED
    BY <1>1, <1>2, <1>3, <1>4 DEF HistoryInv

(* Answers arrive, requests fail, and pages grow old or are announced.     *)
LEMMA QueryStep ==
    ASSUME HistoryInv,
           \/ \E k \in Keys : Receive(k) \/ Fail(k)
           \/ Age \/ PaymentEvent \/ NotificationEvent \/ Refresh
    PROVE  HistoryInv'
  <1> USE DEF server, query, storage
  <1>0. TypedRows /\ StackInv /\ PagesInv /\ RestTyped /\ ReadStaysRead
    BY DEF HistoryInv
  <1>p. /\ cache \in [Keys -> Pages] /\ answer \in [Keys -> Pages]
        /\ \A k \in Keys : PageRight(k, cache[k]) /\ PageRight(k, answer[k])
        /\ \A k \in Keys : answer[k].unread = {}
    BY <1>0 DEF PagesInv
  <1>1. ASSUME NEW k \in Keys, Receive(k) PROVE HistoryInv'
    <2> DEFINE page == Formatted(answer[k])
    <2>1. Stored(k, page) /\ UNCHANGED <<server, stack, storage>>
      BY <1>1 DEF Receive
    <2>2. answer[k] \in Pages /\ Unread(answer[k].rows) \subseteq answer[k].rows
      BY <1>p DEF Unread
    <2>3. [answer[k] EXCEPT !.unread = Unread(answer[k].rows)] \in Pages
      BY <2>2 DEF Pages
    <2>4. page \in Pages /\ page.rows = answer[k].rows /\ page.next = answer[k].next
      BY <2>2, <2>3 DEF Formatted, Pages
    <2>5. PageRight(k, page)
      BY <1>p, <2>4 DEF PageRight, PageInPlace
    <2>6. page.unread = {} \/ page.unread = Unread(answer[k].rows)
      BY <1>p, <2>2 DEF Formatted, Pages
    <2>7. \A r \in page.unread : Unread({r}) # {}
      BY <2>6 DEF Unread
    <2> HIDE DEF page
    <2>8. /\ cache' \in [Keys -> Pages] /\ answer' \in [Keys -> Pages]
          /\ \A q \in Keys : \A p \in {cache'[q]} : p = cache[q] \/ PageRight(q, p)
          /\ \A q \in Keys : \A p \in {answer'[q]} :
                p = answer[q] \/ (p.unread = {} /\ PageRight(q, p))
          /\ \A q \in Keys : cache'[q] = IF q = k THEN page ELSE cache[q]
          /\ stale' \subseteq Keys /\ asked' \subseteq Keys /\ failed' \subseteq Keys
      BY <1>0, <2>1, <2>5, StoredPage DEF RestTyped
    <2>9. ReadStaysRead'
      BY <1>0, <2>1, <2>7, <2>8, MarksStay
    <2> QED
      BY <1>0, <2>1, <2>8, <2>9, CacheStep DEF RestTyped
  <1>2. ASSUME NEW k \in Keys, Fail(k) PROVE HistoryInv'
    <2>1. UNCHANGED <<server, stack, storage>>
      BY <1>2 DEF Fail
    <2>2. CASE screen = "notifications"
      <3> DEFINE page == [NoPage EXCEPT !.there = TRUE]
      <3>1. Stored(k, page)
        BY <1>2, <2>2 DEF Fail
      <3>2. PageRight(k, page)
        BY <1>0, EmptyPage
      <3>3. page.unread = {}
        BY DEF NoPage
      <3> HIDE DEF page
      <3>4. /\ cache' \in [Keys -> Pages] /\ answer' \in [Keys -> Pages]
            /\ \A q \in Keys : \A p \in {cache'[q]} : p = cache[q] \/ PageRight(q, p)
            /\ \A q \in Keys : \A p \in {answer'[q]} :
                  p = answer[q] \/ (p.unread = {} /\ PageRight(q, p))
            /\ \A q \in Keys : cache'[q] = IF q = k THEN page ELSE cache[q]
            /\ stale' \subseteq Keys /\ asked' \subseteq Keys /\ failed' \subseteq Keys
        BY <1>0, <3>1, <3>2, StoredPage DEF RestTyped
      <3>5. ReadStaysRead'
        BY <1>0, <2>1, <3>3, <3>4, MarksStay
      <3> QED
        BY <1>0, <2>1, <3>4, <3>5, CacheStep DEF RestTyped
    <2>3. CASE screen # "notifications"
      <3>1. /\ failed' = failed \cup {k} /\ asked' = asked \ {k}
            /\ answer' = [answer EXCEPT ![k] = NoPage] /\ UNCHANGED <<cache, stale>>
        BY <1>2, <2>3 DEF Fail
      <3>2. NoPage \in Pages /\ NoPage.unread = {} /\ PageRight(k, NoPage)
        BY <1>0, EmptyPage DEF PageRight, NoPage
      <3>3. /\ answer' \in [Keys -> Pages]
            /\ \A q \in Keys : \A p \in {answer'[q]} :
                  p = answer[q] \/ (p.unread = {} /\ PageRight(q, p))
        BY <1>p, <3>1, <3>2
      <3>4. ReadStaysRead'
        BY <1>0, <2>1, <3>1, MarksStay
      <3> QED
        BY <1>0, <1>p, <2>1, <3>1, <3>3, <3>4, CacheStep DEF RestTyped
    <2> QED
      BY <2>2, <2>3
  <1>3. CASE Age
    <2>1. /\ UNCHANGED <<server, stack, cache, asked, answer, failed, storage>>
          /\ stale' \subseteq Keys
      BY <1>3 DEF Age
    <2>2. ReadStaysRead'
      BY <1>0, <2>1, MarksStay
    <2> QED
      BY <1>0, <1>p, <2>1, <2>2, CacheStep DEF RestTyped
  <1>4. CASE PaymentEvent \/ Refresh
    <2>1. /\ Refetched /\ cache' = cache /\ UNCHANGED <<screen, rows, stack, storage, failed>>
          /\ stale' = stale \/ stale' \subseteq Keys
          /\ news' = news \/ (news.payment > 0 /\ news' = [news EXCEPT !.payment = @ - 1])
      BY <1>4 DEF PaymentEvent, Invalidated, Refresh
    <2>2. news' \in [payment : Nat, notification : Nat]
      BY <1>0, <2>1 DEF RestTyped
    <2>3. ReadStaysRead'
      BY <1>0, <2>1, MarksStay
    <2>4. /\ answer' \in [Keys -> Pages]
          /\ \A q \in Keys : \A p \in {answer'[q]} :
                p = answer[q] \/ (p.unread = {} /\ PageRight(q, p))
          /\ (asked \subseteq Keys => asked' \subseteq Keys)
      BY <1>0, <2>1, CurIsKey, RefetchedPages
    <2> QED
      BY <1>0, <1>p, <2>1, <2>2, <2>3, <2>4, CacheStep DEF RestTyped
  <1>5. CASE NotificationEvent
    <2>1. /\ cache' = [k \in Keys |->
                   IF cache[k].there
                   THEN [cache[k] EXCEPT !.rows = @ \cup {Live}, !.unread = @ \cup {Live}]
                   ELSE NoPage]
          /\ read' = read \ {Live} /\ news.notification > 0
          /\ news' = [news EXCEPT !.notification = @ - 1]
          /\ UNCHANGED <<screen, rows, stack, stale, asked, answer, failed, readAll, marking, markingAll>>
      BY <1>5 DEF NotificationEvent
    <2>2. news' \in [payment : Nat, notification : Nat]
      <3>1. news.notification > 0 /\ news' = [news EXCEPT !.notification = @ - 1]
        BY <2>1
      <3> QED
        BY <1>0, <3>1 DEF RestTyped
    <2>3. ASSUME NEW k \in Keys
          PROVE  /\ PageRight(k, cache'[k]) /\ cache'[k].unread \ {Live} \subseteq cache[k].unread
      <3> DEFINE p == [cache[k] EXCEPT !.rows = @ \cup {Live}, !.unread = @ \cup {Live}]
      <3>1. cache[k] \in Pages /\ PageRight(k, cache[k])
        BY <1>p
      <3>2. p \in Pages
        BY <3>1, HistoryNumbers DEF Pages, Live
      <3>3. p.next = cache[k].next /\ p.rows = cache[k].rows \cup {Live}
            /\ p.unread = cache[k].unread \cup {Live}
        BY <3>1 DEF Pages
      <3> HIDE DEF p
      <3>4. PageRight(k, p)
        BY <3>1, <3>2, <3>3 DEF PageRight, PageInPlace
      <3>5. cache'[k] = IF cache[k].there THEN p ELSE NoPage
        BY <2>1 DEF p
      <3>6. PageRight(k, NoPage) /\ NoPage.unread = {}
        BY <1>0, EmptyPage DEF NoPage
      <3> QED
        BY <3>3, <3>4, <3>5, <3>6
    <2>4. cache' \in [Keys -> Pages]
      BY <2>1, <2>3 DEF PageRight
    <2>5. ReadStaysRead'
      BY <1>0, <2>1, <2>3 DEF ReadStaysRead, Unread
    <2> QED
      BY <1>0, <1>p, <2>1, <2>2, <2>3, <2>4, <2>5, CacheStep DEF RestTyped
  <1> QED
    BY <1>1, <1>2, <1>3, <1>4, <1>5

(* A screen that turns to another question asks it.                        *)
LEMMA ObserveStep ==
    ASSUME HistoryInv, NEW k \in Keys, Observe(k), UNCHANGED <<server, storage>>,
           StackInv', view' \in Views, local' \in Kinds \cup {"ALL", "READ", "UNREAD"}
    PROVE  HistoryInv'
  <1> USE DEF server, storage
  <1>0. TypedRows /\ PagesInv /\ RestTyped /\ ReadStaysRead
    BY DEF HistoryInv
  <1>1. UNCHANGED <<cache, stale, answer, failed>> /\ asked' \subseteq asked \cup {k}
    BY DEF Observe
  <1>2. TypedRows' /\ RowsGrow
    BY <1>0, RowsSame DEF TypedRows
  <1>3. PagesInv'
    BY <1>0, <1>1, <1>2, PagesStay DEF PagesInv
  <1>4. ReadStaysRead'
    BY <1>0, <1>1, MarksStay
  <1> QED
    BY <1>0, <1>1, <1>2, <1>3, <1>4 DEF HistoryInv, RestTyped

LEMMA StartOverStep ==
    ASSUME HistoryInv, NEW v \in Views, NEW f \in Kinds \cup {"ALL", "READ", "UNREAD"},
           StartOver(v, f), UNCHANGED <<server, storage>>
    PROVE  HistoryInv'
  <1>1. cursorHistory' = <<0>> /\ currentPageIndex' = 1 /\ view' = v /\ local' = f
    BY DEF StartOver
  <1>2. StackInv'
    BY <1>1 DEF StackInv
  <1>3. <<v, 0>> \in Keys
    BY HistoryNumbers DEF Keys
  <1> QED
    BY <1>1, <1>2, <1>3, ObserveStep DEF StartOver

(* The next page starts at a row of this view that is older than all the   *)
(* cursors passed.                                                         *)
LEMMA NextPageStep == HistoryInv /\ NextPage => HistoryInv'
  <1> SUFFICES ASSUME HistoryInv, NextPage PROVE HistoryInv'
    OBVIOUS
  <1> DEFINE n == currentPageIndex
             c == cursorHistory[n]
             e == Page.next
  <1>0. TypedRows /\ StackInv /\ PagesInv /\ RestTyped
    BY DEF HistoryInv
  <1>1. /\ cursorHistory' = Append(SubSeq(cursorHistory, 1, n), e)
        /\ currentPageIndex' = n + 1 /\ Observe(<<view, e>>)
        /\ UNCHANGED <<server, view, local, storage>> /\ e # 0
    BY DEF NextPage, CanNext
  <1>2. Cur \in Keys /\ Cur = <<view, c>> /\ c \in Cursors
    BY CurIsKey DEF Cur
  <1>3. PageRight(Cur, Page)
    BY <1>0, <1>2 DEF PagesInv, Page
  <1>4. e \in Cursors /\ e <= Len(rows) /\ view \in Views2(e) /\ (c # 0 => e < c)
    BY <1>1, <1>2, <1>3 DEF PageRight, Pages, PageInPlace
  <1>5. Len(rows) \in Nat /\ e \in 1..Len(rows) /\ e \in Nat
    BY <1>0, <1>1, <1>4 DEF TypedRows, Cursors
  <1> HIDE DEF e
  <1>6. n \in Nat /\ n >= 1 /\ n <= Len(cursorHistory) /\ cursorHistory \in Seq(Nat)
    BY <1>0 DEF StackInv
  <1>7. /\ cursorHistory' \in Seq(Nat) /\ Len(cursorHistory') = n + 1
        /\ \A i \in 1..n : cursorHistory'[i] = cursorHistory[i]
        /\ cursorHistory'[n + 1] = e
    <2> DEFINE s == SubSeq(cursorHistory, 1, n)
    <2>1. s \in Seq(Nat) /\ Len(s) = n /\ \A i \in 1..n : s[i] = cursorHistory[i]
      BY <1>6
    <2> HIDE DEF s
    <2>2. cursorHistory' = Append(s, e)
      BY <1>1 DEF s
    <2> QED
      BY <1>5, <1>6, <2>1, <2>2
  <1>8. UNCHANGED <<rows, view>>
    BY <1>1 DEF server
  <1>9. ASSUME NEW i \in 2..Len(cursorHistory')
        PROVE  /\ cursorHistory'[i] \in 1..Len(rows) /\ view \in Views2(cursorHistory'[i])
    <2>1. CASE i = n + 1
      <3>1. cursorHistory'[i] = e
        BY <1>7, <2>1
      <3> QED
        BY <1>4, <1>5, <3>1
    <2>2. CASE i # n + 1
      <3>1. i \in 2..n
        BY <1>6, <1>7, <1>9, <2>2
      <3>2. cursorHistory'[i] = cursorHistory[i] /\ i \in 2..Len(cursorHistory)
        BY <1>6, <1>7, <3>1
      <3> QED
        BY <1>0, <3>2 DEF StackInv
    <2> QED
      BY <2>1, <2>2
  <1>10. ASSUME NEW i \in 2..Len(cursorHistory'), NEW j \in 2..Len(cursorHistory'), i < j
         PROVE  cursorHistory'[j] < cursorHistory'[i]
    <2>1. i \in 2..n /\ cursorHistory'[i] = cursorHistory[i]
      BY <1>6, <1>7, <1>10
    <2>2. CASE j = n + 1
      <3>1. c \in 1..Len(rows) /\ c <= cursorHistory[i]
        <4>1. n \in 2..Len(cursorHistory)
          BY <1>6, <2>1
        <4>2. c \in 1..Len(rows) /\ cursorHistory[i] \in 1..Len(rows)
          BY <1>0, <1>6, <2>1, <4>1 DEF StackInv
        <4>3. i < n => c < cursorHistory[i]
          BY <1>0, <1>6, <2>1, <4>1 DEF StackInv
        <4> QED
          BY <1>5, <1>6, <2>1, <4>2, <4>3
      <3>2. e < c /\ cursorHistory[i] \in Nat
        BY <1>0, <1>4, <1>6, <2>1, <3>1 DEF StackInv
      <3> QED
        BY <1>5, <1>7, <2>1, <2>2, <3>1, <3>2
    <2>3. CASE j # n + 1
      <3>1. j \in 2..n
        BY <1>6, <1>7, <1>10, <2>3
      <3>2. cursorHistory'[j] = cursorHistory[j] /\ j \in 2..Len(cursorHistory)
        BY <1>6, <1>7, <3>1
      <3>3. i \in 2..Len(cursorHistory)
        BY <1>6, <2>1
      <3> QED
        BY <1>0, <1>10, <2>1, <3>2, <3>3 DEF StackInv
    <2> QED
      BY <2>2, <2>3
  <1>11. StackInv'
    <2>1. cursorHistory'[1] = 0 /\ currentPageIndex' \in 1..Len(cursorHistory')
      BY <1>0, <1>1, <1>6, <1>7 DEF StackInv
    <2> QED
      BY <1>7, <1>8, <1>9, <1>10, <2>1 DEF StackInv, Views2
  <1>12. <<view, e>> \in Keys
    BY <1>0, <1>4 DEF Keys, RestTyped, e
  <1> QED
    BY <1>0, <1>1, <1>11, <1>12, ObserveStep DEF RestTyped

(* The user.                                                               *)
LEMMA UserStep ==
    ASSUME HistoryInv,
           \/ \E v \in Views : ChangeAccount(v) \/ ChangeFilter(v)
           \/ \E f \in Kinds \cup {"ALL", "READ", "UNREAD"} : ChangeLocalFilter(f)
           \/ ResetFilters \/ NextPage \/ PrevPage
           \/ \E r \in Cursors : MarkRead(r)
           \/ Marked \/ MarkAllRead \/ MarkedAll
    PROVE  HistoryInv'
  <1>0. TypedRows /\ StackInv /\ PagesInv /\ RestTyped /\ ReadStaysRead
    BY DEF HistoryInv
  <1>p. /\ cache \in [Keys -> Pages] /\ answer \in [Keys -> Pages]
        /\ \A k \in Keys : PageRight(k, cache[k]) /\ PageRight(k, answer[k])
    BY <1>0 DEF PagesInv
  <1>1. ASSUME NEW v \in Views, ChangeAccount(v) \/ ChangeFilter(v) PROVE HistoryInv'
    <2>1. local \in Kinds \cup {"ALL", "READ", "UNREAD"}
      BY <1>0 DEF RestTyped
    <2> QED
      BY <1>1, <2>1, StartOverStep DEF ChangeAccount, ChangeFilter
  <1>2. ASSUME NEW f \in Kinds \cup {"ALL", "READ", "UNREAD"}, ChangeLocalFilter(f)
        PROVE  HistoryInv'
    BY <1>0, <1>2, StartOverStep DEF ChangeLocalFilter, RestTyped
  <1>3. CASE ResetFilters
    <2>1. Base[view] \in Views
      BY <1>0, HistoryNumbers DEF RestTyped
    <2> QED
      BY <1>3, <2>1, StartOverStep DEF ResetFilters
  <1>4. CASE NextPage
    BY <1>4, NextPageStep
  <1>5. CASE PrevPage
    <2> DEFINE n == currentPageIndex - 1
    <2>1. /\ currentPageIndex' = n /\ Observe(<<view, cursorHistory[n]>>)
          /\ UNCHANGED <<server, view, local, cursorHistory, storage>> /\ currentPageIndex > 1
      BY <1>5 DEF PrevPage, CanPrev
    <2>2. n \in 1..Len(cursorHistory) /\ cursorHistory[n] \in 0..Len(rows)
      BY <1>0, <2>1 DEF StackInv, TypedRows
    <2>3. <<view, cursorHistory[n]>> \in Keys
      BY <1>0, <2>2, HistoryNumbers DEF TypedRows, RestTyped, Keys, Cursors
    <2> HIDE DEF n
    <2>4. StackInv'
      BY <1>0, <2>1, <2>2 DEF StackInv, Views2, server
    <2> QED
      BY <1>0, <2>1, <2>3, <2>4, ObserveStep DEF RestTyped
  <1>6. ASSUME NEW r \in Cursors, MarkRead(r) PROVE HistoryInv'
    <2>1. /\ read' = read \cup {r} /\ marking' = {r} /\ marking = {}
          /\ UNCHANGED <<server, stack, query, readAll, markingAll>>
      BY <1>6 DEF MarkRead
    <2>2. ReadStaysRead'
      BY <1>0, <2>1 DEF ReadStaysRead, Unread, query
    <2> QED
      BY <1>0, <1>6, <1>p, <2>1, <2>2, CacheStep DEF RestTyped, server, query
  <1>7. CASE MarkAllRead
    <2>1. /\ read' = read \cup Page.unread /\ markingAll' = TRUE
          /\ readAll' \in {Len(rows), Len(rows) + 1}
          /\ UNCHANGED <<server, stack, query, marking>>
      BY <1>7 DEF MarkAllRead, ReadAllNow
    <2>2. \A k \in Keys : cache[k].unread \subseteq Cursors
      BY <1>p DEF Pages
    <2>3. Page.unread \subseteq Cursors
      BY <2>2, CurIsKey DEF Page
    <2>4. ReadStaysRead'
      BY <2>1, <2>2 DEF ReadStaysRead, query
    <2>5. readAll' \in Nat
      BY <1>0, <2>1 DEF TypedRows
    <2> QED
      BY <1>0, <1>p, <2>1, <2>3, <2>4, <2>5, CacheStep DEF RestTyped, server, query
  <1>8. CASE Marked
    <2>1. /\ cache' = [k \in Keys |-> [cache[k] EXCEPT !.unread = @ \ marking]]
          /\ stale' = {k \in Keys : cache[k].there} /\ Refetched /\ marking' = {}
          /\ read' = read \cup marking
          /\ UNCHANGED <<server, stack, failed, readAll, markingAll>>
      BY <1>8 DEF Marked, Invalidated
    <2>2. ASSUME NEW k \in Keys
          PROVE  PageRight(k, cache'[k]) /\ cache'[k].unread = cache[k].unread \ marking
      <3> DEFINE p == [cache[k] EXCEPT !.unread = @ \ marking]
      <3>1. cache[k] \in Pages /\ PageRight(k, cache[k])
        BY <1>p
      <3>2. /\ p \in Pages /\ p.next = cache[k].next /\ p.rows = cache[k].rows
            /\ p.unread = cache[k].unread \ marking
        BY <3>1 DEF Pages
      <3>3. cache'[k] = p
        BY <2>1
      <3> HIDE DEF p
      <3>4. PageRight(k, p)
        BY <3>1, <3>2 DEF PageRight, PageInPlace
      <3> QED
        BY <3>2, <3>3, <3>4
    <2>3. cache' \in [Keys -> Pages]
      BY <2>1, <2>2 DEF PageRight
    <2>4. ReadStaysRead'
      BY <1>0, <2>1, <2>2 DEF ReadStaysRead, Unread
    <2>5. /\ answer' \in [Keys -> Pages]
          /\ \A q \in Keys : \A p \in {answer'[q]} :
                p = answer[q] \/ (p.unread = {} /\ PageRight(q, p))
          /\ (asked \subseteq Keys => asked' \subseteq Keys)
      BY <1>0, <2>1, CurIsKey, RefetchedPages
    <2>6. read' \subseteq Cursors
      BY <1>0, <2>1 DEF RestTyped
    <2> QED
      BY <1>0, <1>p, <2>1, <2>2, <2>3, <2>4, <2>5, <2>6, CacheStep DEF RestTyped, server
  <1>9. CASE MarkedAll
    <2>1. /\ cache' = [k \in Keys |-> [cache[k] EXCEPT !.unread = {}]]
          /\ stale' = {k \in Keys : cache[k].there} /\ Refetched /\ markingAll' = FALSE
          /\ readAll' \in {Len(rows), Len(rows) + 1}
          /\ UNCHANGED <<server, stack, failed, read, marking>>
      BY <1>9 DEF MarkedAll, Invalidated, ReadAllNow
    <2>2. ASSUME NEW k \in Keys PROVE PageRight(k, cache'[k]) /\ cache'[k].unread = {}
      <3> DEFINE p == [cache[k] EXCEPT !.unread = {}]
      <3>1. cache[k] \in Pages /\ PageRight(k, cache[k])
        BY <1>p
      <3>2. p \in Pages /\ p.next = cache[k].next /\ p.rows = cache[k].rows /\ p.unread = {}
        BY <3>1 DEF Pages
      <3>3. cache'[k] = p
        BY <2>1
      <3> HIDE DEF p
      <3>4. PageRight(k, p)
        BY <3>1, <3>2 DEF PageRight, PageInPlace
      <3> QED
        BY <3>2, <3>3, <3>4
    <2>3. cache' \in [Keys -> Pages]
      BY <2>1, <2>2 DEF PageRight
    <2>4. ReadStaysRead'
      BY <2>2 DEF ReadStaysRead
    <2>5. /\ answer' \in [Keys -> Pages]
          /\ \A q \in Keys : \A p \in {answer'[q]} :
                p = answer[q] \/ (p.unread = {} /\ PageRight(q, p))
          /\ (asked \subseteq Keys => asked' \subseteq Keys)
      BY <1>0, <2>1, CurIsKey, RefetchedPages
    <2>6. readAll' \in Nat
      BY <1>0, <2>1 DEF TypedRows
    <2> QED
      BY <1>0, <1>p, <2>1, <2>2, <2>3, <2>4, <2>5, <2>6, CacheStep DEF RestTyped, server
  <1> QED
    BY <1>1, <1>2, <1>3, <1>4, <1>5, <1>6, <1>7, <1>8, <1>9

LEMMA HistoryStep == HistoryInv /\ [HistoryNext]_historyVars => HistoryInv'
  <1> SUFFICES ASSUME HistoryInv, [HistoryNext]_historyVars PROVE HistoryInv'
    OBVIOUS
  <1>1. CASE UNCHANGED historyVars
    <2>1. UNCHANGED <<server, stack, query, storage>>
      BY <1>1 DEF historyVars
    <2>2. TypedRows /\ PagesInv /\ RestTyped /\ ReadStaysRead
      BY DEF HistoryInv
    <2>3. ReadStaysRead'
      BY <2>1, <2>2, MarksStay DEF query
    <2> QED
      BY <2>1, <2>2, <2>3, CacheStep DEF RestTyped, PagesInv, server, query, storage
  <1>2. CASE HistoryNext
    BY <1>2, TablesStep, QueryStep, UserStep DEF HistoryNext
  <1> QED
    BY <1>1, <1>2

LEMMA HistoryAlways == HistorySpec => []HistoryInv
  BY HistoryInitRight, HistoryStep, PTL DEF HistorySpec

LEMMA HistoryTyped == HistoryInv => HistoryTypeOK
  <1> SUFFICES ASSUME HistoryInv PROVE HistoryTypeOK
    OBVIOUS
  <1>1. \A r \in 1..Len(rows) : rows[r] \in Row
    BY DEF HistoryInv, TypedRows
  <1> QED
    BY <1>1 DEF HistoryInv, TypedRows, StackInv, PagesInv, RestTyped, HistoryTypeOK, Row

(* LedgerPage.jsx, TransactionsPage.jsx, NotificationsPage.jsx and their    *)
(* services: however rows, events and refetches interleave with clicks, for*)
(* pages of any length, stacked cursors descend and pages keep within them.*)
THEOREM WalksDescend == HistorySpec => []PagesDescend
  <1>1. HistoryInv => PagesDescend
    BY HistoryTyped DEF HistoryInv, StackInv, PagesInv, PageRight, PagesDescend
  <1> QED
    BY <1>1, HistoryAlways, PTL

(* The same screens: a filter or an account is never walked with a cursor  *)
(* of another.                                                             *)
THEOREM CursorsKeepTheirView == HistorySpec => []CursorsAreOfThisView
  <1>1. HistoryInv => CursorsAreOfThisView
    BY DEF HistoryInv, StackInv, CursorsAreOfThisView, Views2
  <1> QED
    BY <1>1, HistoryAlways, PTL

(* useNotifications.js: however the PATCHes of a single mark and of        *)
(* mark-all overlap, no answer or refetch brings back a mark taken off.    *)
THEOREM MarksStayTaken == HistorySpec => []ReadStaysRead
  <1>1. HistoryInv => ReadStaysRead
    BY DEF HistoryInv
  <1> QED
    BY <1>1, HistoryAlways, PTL
=============================================================================
