------------------------------ MODULE Session ------------------------------
(***************************************************************************)
(* One browser tab's session: the access token kept in memory, the axios   *)
(* interceptors that attach and refresh it (client.js), the authentication *)
(* context, the session-expired modal and the route guard around it, and   *)
(* the auth-service and gateway checks that answer them.                   *)
(*                                                                         *)
(* Access tokens are stateless: a token is its user and the period gen in  *)
(* which it was signed, and it is expired once a later period begins.  A   *)
(* refresh session is a key of TokenStore; the browser holds at most one   *)
(* in its cookie.  Every call that changes who is signed in is two steps,  *)
(* the server's and the arrival of its answer, so that answers of an older *)
(* call can arrive after a newer one.                                      *)
(***************************************************************************)
EXTENDS Naturals, FiniteSets

CONSTANTS
    Users,          \* the people who sign in from this browser
    NoUser,         \* nobody
    Returning,      \* the user who used it before
    Data,           \* requests of the pages, each made once
    Gets,           \* those of them that only read
    MaxGen,         \* how many lifetimes of an access token are looked at
    MaxLogins,      \* how many sign-ins
    MaxFaults       \* how many calls are lost or answered with a server error

ASSUME SessionAssumption ==
    /\ NoUser \notin Users /\ Returning \in Users
    /\ "logout" \notin Data /\ Gets \subseteq Data
    /\ MaxGen \in Nat \ {0} /\ MaxLogins \in Nat /\ MaxFaults \in Nat

Requests == Data \cup {"logout"}
NoToken == [user |-> NoUser, gen |-> 0]
Token == [user : Users \cup {NoUser}, gen : 0..MaxGen]
NoSession == [user |-> NoUser, id |-> 0]
SessionKey == [user : Users \cup {NoUser}, id : 0..MaxLogins]
Remembered == {Returning, NoUser}   \* the profile in the browser's storage
MaxRetries == 2     \* MAX_RETRIES of the interceptor

VARIABLES
    gen,            \* the current token period
    store,          \* refresh sessions alive in Redis
    logins,         \* sign-ins served so far
    cookie,         \* the browser's refresh cookie
    auth,           \* token, context state, modal and page of the tab
    restore,        \* the refresh sent when the app mounts
    login,          \* the sign-in under way
    isRefreshing,   \* client.js: a refresh of the interceptor is under way
    failedQueue,    \* client.js: requests waiting for it
    pc,             \* where each request is
    req,            \* each request's header, retries and refresh call
    faults,         \* faults injected so far
    signs,          \* completed sign-ins and sign-outs
    late            \* an answer came that was asked for before someone signed in or out

vars == <<gen, store, logins, cookie, auth, restore, login, isRefreshing,
          failedQueue, pc, req, faults, signs, late>>
netVars == <<isRefreshing, failedQueue, pc, req>>
serverVars == <<gen, store, logins>>

NoCall == [code |-> "none", cookie |-> NoSession, tok |-> NoToken, at |-> 0]

\* A call leaves the browser with the cookie it holds now.
Sent == [code |-> "sent", cookie |-> cookie, tok |-> NoToken, at |-> signs]

\* A request before it is sent; a request that is over is forgotten.
Fresh == [tok |-> NoToken, tries |-> 0, retried |-> FALSE, call |-> NoCall]

Call == [code : {"none", "sent", "200", "400", "401", "lost"},
         cookie : SessionKey, tok : Token,
         at : 0..(2 * MaxLogins + 1)]

Stage == {"idle", "sent", "served", "backoff", "waiting", "refreshing", "ok", "failed"}

(* The parts that one test would never see disagree: waiting requests, the *)
(* refresh they wait for, and the tab's view of who is signed in.          *)
TypeOK ==
    /\ gen \in 1..MaxGen
    /\ store \subseteq SessionKey
    /\ logins \in 0..MaxLogins
    /\ cookie \in SessionKey
    /\ auth \in [mem : Token, header : Token, user : Users \cup {NoUser},
                 signedIn : BOOLEAN, expired : BOOLEAN, active : BOOLEAN,
                 open : BOOLEAN, path : {"login", "app"}, loading : BOOLEAN]
    /\ restore \in [call : Call, saved : Users \cup {NoUser}]
    /\ login \in Call
    /\ isRefreshing \in BOOLEAN
    /\ failedQueue \subseteq Requests
    /\ pc \in [Requests -> Stage]
    /\ req \in [Requests -> [tok : Token, tries : 0..MaxRetries, retried : BOOLEAN,
                             call : Call]]
    /\ faults \in 0..MaxFaults
    /\ signs \in 0..(2 * MaxLogins + 1)
    /\ late \in BOOLEAN

\* The app mounts with whatever an earlier visit left behind: nothing, a live
\* or a revoked session, with or without a remembered user.
Init ==
    /\ gen = 1 /\ logins = 0 /\ faults = 0 /\ signs = 0 /\ late = FALSE
    /\ \E saved \in Remembered, alive \in BOOLEAN, kept \in BOOLEAN,
          page \in {"login", "app"} :
        /\ cookie = IF kept THEN [user |-> Returning, id |-> 0] ELSE NoSession
        /\ store = IF kept /\ alive THEN {cookie} ELSE {}
        /\ auth = [mem |-> NoToken, header |-> NoToken, user |-> saved,
                   signedIn |-> FALSE, expired |-> FALSE, active |-> FALSE,
                   open |-> FALSE, path |-> page, loading |-> TRUE]
        /\ restore = [call |-> [NoCall EXCEPT !.code = "sent", !.cookie = cookie],
                      saved |-> saved]
    /\ login = NoCall
    /\ isRefreshing = FALSE
    /\ failedQueue = {}
    /\ pc = [r \in Requests |-> "idle"]
    /\ req = [r \in Requests |-> Fresh]

-----------------------------------------------------------------------------
(***************************************************************************)
(* What the tab does to its own state.                                     *)
(***************************************************************************)
(* Mutant: the user is not replaced. *)
SignedInAsBefore(a, t, u) ==
    [a EXCEPT !.mem = t, !.header = t, !.signedIn = TRUE, !.expired = FALSE,
              !.active = FALSE]

\* A token arrives by sign-in, or by the refresh of a mounting app.
SignedIn(a, t, u) ==
    [a EXCEPT !.mem = t, !.header = t, !.signedIn = TRUE, !.expired = FALSE,
              !.active = FALSE, !.user = u]

\* The interceptor gives up: the token goes, and the first time the event is
\* dispatched; context and modal listen to it.
GivenUp(a) ==
    IF a.active THEN [a EXCEPT !.mem = NoToken]
    ELSE [a EXCEPT !.mem = NoToken, !.header = NoToken, !.signedIn = FALSE,
                   !.active = TRUE, !.expired = TRUE,
                   !.open = @ \/ a.path # "login"]

\* The finally block of logout(), and the caller's navigation.
SignedOut(a) ==
    [a EXCEPT !.mem = NoToken, !.header = NoToken, !.user = NoUser,
              !.signedIn = FALSE, !.expired = FALSE, !.active = FALSE,
              !.loading = FALSE, !.path = "login"]

\* The request interceptor: the token in memory, else the header the request
\* already had, else the client's default header.
Header(own) ==
    IF auth.mem # NoToken THEN auth.mem ELSE IF own # NoToken THEN own ELSE auth.header

\* The gateway lets a request with this token through.
Accepted(t) == t.gen = gen

\* What the auth-service answers to a refresh: 400 without a cookie, 401 when
\* the session is no longer stored, else a token of this period.  The session
\* itself is not replaced.
Answer(call) ==
    LET answer == [call EXCEPT !.cookie = NoSession]
    IN  IF call.cookie = NoSession THEN [answer EXCEPT !.code = "400"]
        ELSE IF call.cookie \notin store THEN [answer EXCEPT !.code = "401"]
        ELSE [answer EXCEPT !.code = "200",
                            !.tok = [user |-> call.cookie.user, gen |-> gen]]

\* A call is answered, or lost to the network, a timeout or a server error.
Outcomes(call) ==
    {Answer(call)} \cup (IF faults < MaxFaults THEN {[call EXCEPT !.code = "lost", !.cookie = NoSession]} ELSE {})

Counted(outcome) == faults' = IF outcome.code = "lost" THEN faults + 1 ELSE faults

\* An answer is late when someone signed in or out after it was asked for.
Note(call) == late' = (late \/ call.at # signs)

Over(p) == p \in {"ok", "failed"}

\* The tab after a step that moved the requests: when the logout request is over,
\* however it ended, logout() clears the tab and its caller opens the login page.
Conclude(a) ==
    IF Over(pc'["logout"]) /\ ~Over(pc["logout"])
    THEN auth' = SignedOut(a) /\ signs' = signs + 1
    ELSE auth' = a /\ UNCHANGED signs

-----------------------------------------------------------------------------
(***************************************************************************)
(* Mounting, signing in, and the routes.                                   *)
(***************************************************************************)
ServeRestore ==
    /\ restore.call.code = "sent"
    /\ \E o \in Outcomes(restore.call) :
        restore' = [restore EXCEPT !.call = o] /\ Counted(o)
    /\ UNCHANGED <<serverVars, cookie, auth, login, netVars, signs, late>>

\* initializeAuth: a refused restore passes the interceptor's branch for the
\* refresh endpoint first, then the context's own catch.
ReceiveRestore ==
    LET call == restore.call
        refused == IF call.code = "401" THEN GivenUp(auth) ELSE auth
        cleared == [refused EXCEPT !.mem = NoToken, !.header = NoToken,
                                   !.signedIn = FALSE, !.loading = FALSE]
    IN  /\ call.code \in {"200", "400", "401", "lost"}
        /\ auth' = IF call.code = "200"
                   THEN [SignedIn(auth, call.tok, IF restore.saved # NoUser
                                                  THEN restore.saved ELSE auth.user)
                            EXCEPT !.loading = FALSE]
                   ELSE IF restore.saved # NoUser
                   THEN [cleared EXCEPT !.expired = TRUE,
                             !.open = @ \/ (~auth.expired /\ auth.path # "login")]
                   ELSE [cleared EXCEPT !.user = NoUser]
        /\ restore' = [call |-> NoCall, saved |-> NoUser]
        /\ Note(call)
        /\ UNCHANGED <<serverVars, cookie, login, netVars, faults, signs>>

\* login() or signup(), from the page of that name.
StartLogin(u) ==
    /\ auth.path = "login" /\ ~auth.signedIn /\ ~auth.open
    /\ login = NoCall /\ logins < MaxLogins
    /\ login' = [Sent EXCEPT !.tok.user = u]
    /\ auth' = [auth EXCEPT !.loading = TRUE]
    /\ UNCHANGED <<serverVars, cookie, restore, netVars, faults, signs, late>>

\* AuthService.login and signup: a session of its own for every sign-in.
ServeLogin ==
    LET s == [user |-> login.tok.user, id |-> logins + 1]
    IN  /\ login.code = "sent" /\ logins < MaxLogins
        /\ logins' = logins + 1
        /\ store' = store \cup {s}
        /\ login' = [login EXCEPT !.code = "200", !.cookie = s, !.tok.gen = gen]
        /\ UNCHANGED <<gen, cookie, auth, restore, netVars, faults, signs, late>>

ReceiveLogin ==
    /\ login.code = "200"
    /\ cookie' = login.cookie
    /\ auth' = [SignedIn(auth, login.tok, login.cookie.user)
                   EXCEPT !.loading = FALSE, !.path = "app"]
    /\ signs' = signs + 1
    /\ login' = NoCall
    /\ late' = (late \/ login.at # signs \/ ~(pc["logout"] = "idle" \/ Over(pc["logout"])))
    /\ UNCHANGED <<serverVars, restore, netVars, faults>>

\* Wrong password, an e-mail already taken, or an answer that never came.
FailLogin ==
    /\ login.code # "none" /\ faults < MaxFaults
    /\ faults' = faults + 1
    /\ login' = NoCall
    /\ auth' = [auth EXCEPT !.loading = FALSE]
    /\ UNCHANGED <<serverVars, cookie, restore, netVars, signs, late>>

\* ProtectedRoute shows its page to a signed-in user and behind the modal,
\* and sends everybody else to the login page, which sends back the signed in.
PageShown == auth.path = "app" /\ ~auth.loading /\ (auth.expired \/ auth.signedIn)

Route ==
    /\ auth' = [auth EXCEPT !.path = IF @ = "app" THEN "login" ELSE "app"]
    /\ \/ auth.path = "app" /\ ~auth.loading /\ ~auth.expired /\ ~auth.signedIn
       \/ auth.path = "login" /\ auth.signedIn
    /\ UNCHANGED <<serverVars, cookie, restore, login, netVars, faults, signs, late>>

-----------------------------------------------------------------------------
(***************************************************************************)
(* Requests through the interceptors.                                      *)
(***************************************************************************)
Begin(r) ==
    /\ pc[r] = "idle"
    /\ pc' = [pc EXCEPT ![r] = "sent"]
    /\ req' = [req EXCEPT ![r].tok = Header(NoToken)]
    /\ UNCHANGED <<isRefreshing, failedQueue>>

Request(r) ==
    /\ r \in Data /\ PageShown
    /\ Begin(r)
    /\ UNCHANGED <<serverVars, cookie, auth, restore, login, faults, signs, late>>

\* Logout from the bar, or from the modal, which first hides itself and
\* forgets that the session expired.
StartLogout ==
    /\ \/ PageShown /\ ~auth.open
       \/ auth.open
    /\ Begin("logout")
    /\ auth' = IF auth.open
               THEN [auth EXCEPT !.open = FALSE, !.active = FALSE, !.expired = FALSE,
                                 !.loading = TRUE]
               ELSE [auth EXCEPT !.loading = TRUE]
    /\ UNCHANGED <<serverVars, cookie, restore, login, faults, signs, late>>

\* "Login Again" of the modal.
LoginAgain ==
    /\ auth.open
    /\ auth' = [auth EXCEPT !.open = FALSE, !.mem = NoToken, !.active = FALSE,
                            !.expired = FALSE, !.path = "login"]
    /\ UNCHANGED <<serverVars, cookie, restore, login, netVars, faults, signs, late>>

\* The gateway accepts the token of a page's request.
Succeed(r) ==
    /\ r \in Data /\ pc[r] = "sent" /\ Accepted(req[r].tok)
    /\ pc' = [pc EXCEPT ![r] = "ok"]
    /\ req' = [req EXCEPT ![r] = Fresh]
    /\ UNCHANGED <<serverVars, cookie, auth, restore, login, isRefreshing,
                   failedQueue, faults, signs, late>>

(* Mutant: only the cookie is cleared, the session stays in Redis. *)
ServeLogoutOnly ==
    /\ pc["logout"] = "sent" /\ Accepted(req["logout"].tok)
    /\ pc' = [pc EXCEPT !["logout"] = "served"]
    /\ UNCHANGED <<serverVars, cookie, auth, restore, login, isRefreshing,
                   failedQueue, req, faults, signs, late>>

\* AuthService.logout revokes the session of the cookie ...
ServeLogout ==
    /\ pc["logout"] = "sent" /\ Accepted(req["logout"].tok)
    /\ store' = store \ {cookie}
    /\ pc' = [pc EXCEPT !["logout"] = "served"]
    /\ UNCHANGED <<gen, logins, cookie, auth, restore, login, isRefreshing,
                   failedQueue, req, faults, signs, late>>

\* ... and the answer clears the cookie.
ReceiveLogout ==
    /\ pc["logout"] = "served"
    /\ cookie' = NoSession
    /\ pc' = [pc EXCEPT !["logout"] = "ok"]
    /\ req' = [req EXCEPT !["logout"] = Fresh]
    /\ Conclude(auth)
    /\ UNCHANGED <<serverVars, restore, login, isRefreshing, failedQueue, faults, late>>

\* No answer, or a server error: a GET is tried again after a delay, twice.
Lose(r) ==
    /\ pc[r] \in {"sent", "served"} /\ faults < MaxFaults
    /\ faults' = faults + 1
    /\ IF r \in Gets /\ req[r].tries < MaxRetries
       THEN /\ pc' = [pc EXCEPT ![r] = "backoff"]
            /\ req' = [req EXCEPT ![r].tries = @ + 1]
       ELSE pc' = [pc EXCEPT ![r] = "failed"] /\ req' = [req EXCEPT ![r] = Fresh]
    /\ Conclude(auth)
    /\ UNCHANGED <<serverVars, cookie, restore, login, isRefreshing, failedQueue, late>>

Retry(r) ==
    /\ pc[r] = "backoff"
    /\ pc' = [pc EXCEPT ![r] = "sent"]
    /\ req' = [req EXCEPT ![r].tok = Header(@)]
    /\ UNCHANGED <<serverVars, cookie, auth, restore, login, isRefreshing,
                   failedQueue, faults, signs, late>>

\* 401: given up when the session is known to have expired or the request was
\* refreshed before; queued behind a refresh under way; else it refreshes.
Unauthorised(r) ==
    /\ pc[r] = "sent" /\ ~Accepted(req[r].tok)
    /\ \/ /\ auth.active \/ req[r].retried
          /\ pc' = [pc EXCEPT ![r] = "failed"]
          /\ req' = [req EXCEPT ![r] = Fresh]
          /\ UNCHANGED <<isRefreshing, failedQueue>>
       \/ /\ ~auth.active /\ ~req[r].retried /\ isRefreshing
          /\ pc' = [pc EXCEPT ![r] = "waiting"]
          /\ failedQueue' = failedQueue \cup {r}
          /\ UNCHANGED <<isRefreshing, req>>
       \/ /\ ~auth.active /\ ~req[r].retried /\ ~isRefreshing
          /\ pc' = [pc EXCEPT ![r] = "refreshing"]
          /\ req' = [req EXCEPT ![r].retried = TRUE, ![r].call = Sent]
          /\ isRefreshing' = TRUE
          /\ UNCHANGED failedQueue
    /\ Conclude(auth)
    /\ UNCHANGED <<serverVars, cookie, restore, login, faults, late>>

ServeRefresh(r) ==
    /\ pc[r] = "refreshing" /\ req[r].call.code = "sent"
    /\ \E o \in Outcomes(req[r].call) :
        req' = [req EXCEPT ![r].call = o] /\ Counted(o)
    /\ UNCHANGED <<serverVars, cookie, auth, restore, login, isRefreshing,
                   failedQueue, pc, signs, late>>

(* Mutant: the queue is not emptied after it was processed. *)
RefreshedAgain(r) ==
    LET t == req[r].call.tok
        resumed == failedQueue \cup {r}
    IN  /\ pc[r] = "refreshing" /\ req[r].call.code = "200"
        /\ auth' = [auth EXCEPT !.mem = t, !.header = t, !.active = FALSE]
        /\ pc' = [q \in Requests |-> IF q \in resumed THEN "sent" ELSE pc[q]]
        /\ req' = [q \in Requests |->
                     IF q \in resumed
                     THEN [req[q] EXCEPT !.tok = t, !.call = NoCall] ELSE req[q]]
        /\ isRefreshing' = FALSE
        /\ Note(req[r].call)
        /\ UNCHANGED <<serverVars, cookie, restore, login, failedQueue, faults, signs>>

\* The refresh succeeded: the token is stored, and the request and everyone
\* queued behind it are sent again with it.
Refreshed(r) ==
    LET t == req[r].call.tok
        resumed == failedQueue \cup {r}
    IN  /\ pc[r] = "refreshing" /\ req[r].call.code = "200"
        /\ auth' = [auth EXCEPT !.mem = t, !.header = t, !.active = FALSE]
        /\ pc' = [q \in Requests |-> IF q \in resumed THEN "sent" ELSE pc[q]]
        /\ req' = [q \in Requests |->
                     IF q \in resumed
                     THEN [req[q] EXCEPT !.tok = t, !.call = NoCall] ELSE req[q]]
        /\ failedQueue' = {}
        /\ isRefreshing' = FALSE
        /\ Note(req[r].call)
        /\ UNCHANGED <<serverVars, cookie, restore, login, faults, signs>>

(* Mutant: a failed refresh leaves the queue to the next one. *)
RefreshFailedAlone(r) ==
    /\ pc[r] = "refreshing" /\ req[r].call.code \in {"400", "401", "lost"}
    /\ pc' = [pc EXCEPT ![r] = "failed"]
    /\ req' = [req EXCEPT ![r] = Fresh]
    /\ isRefreshing' = FALSE
    /\ Conclude(GivenUp(auth))
    /\ Note(req[r].call)
    /\ UNCHANGED <<serverVars, cookie, restore, login, failedQueue, faults>>

\* The refresh failed: everyone queued fails with it.
RefreshFailed(r) ==
    LET rejected == failedQueue \cup {r}
    IN  /\ pc[r] = "refreshing" /\ req[r].call.code \in {"400", "401", "lost"}
        /\ pc' = [q \in Requests |-> IF q \in rejected THEN "failed" ELSE pc[q]]
        /\ req' = [q \in Requests |-> IF q \in rejected THEN Fresh ELSE req[q]]
        /\ failedQueue' = {}
        /\ isRefreshing' = FALSE
        /\ Conclude(GivenUp(auth))
        /\ Note(req[r].call)
        /\ UNCHANGED <<serverVars, cookie, restore, login, faults>>

-----------------------------------------------------------------------------
\* Fifteen minutes pass, or seven days, or the user is deactivated.
Lapse ==
    /\ gen < MaxGen
    /\ gen' = gen + 1
    /\ UNCHANGED <<store, logins, cookie, auth, restore, login, netVars, faults, signs, late>>

EndSession ==
    /\ \E s \in store : store' = store \ {s}
    /\ UNCHANGED <<gen, logins, cookie, auth, restore, login, netVars, faults, signs, late>>

Calls ==
    \/ ServeRestore \/ ReceiveRestore \/ ServeLogin \/ ReceiveLogin \/ Route
    \/ ServeLogout \/ ReceiveLogout
    \/ \E r \in Requests : \/ Succeed(r) \/ Retry(r) \/ Unauthorised(r)
                           \/ ServeRefresh(r) \/ Refreshed(r) \/ RefreshFailed(r)

Next ==
    \/ Calls
    \/ \E u \in Users : StartLogin(u)
    \/ FailLogin \/ StartLogout \/ LoginAgain \/ Lapse \/ EndSession
    \/ \E r \in Requests : Request(r) \/ Lose(r)

Spec == Init /\ [][Next]_vars

\* Every call is answered or times out after ten seconds, and the browser runs
\* its callbacks and timers; nobody has to click anything.
Fairness == WF_vars(Calls)
LiveSpec == Spec /\ Fairness

-----------------------------------------------------------------------------
(* client.js 38-61, 201-259: a request waits exactly while it is queued,   *)
(* and nobody is queued unless exactly one request is refreshing, so no    *)
(* waiter is ever forgotten and no two refreshes of the interceptor race.  *)
RefreshQueueSound ==
    /\ failedQueue = {r \in Requests : pc[r] = "waiting"}
    /\ isRefreshing <=> \E r \in Requests : pc[r] = "refreshing"
    /\ \A r, q \in Requests : pc[r] = "refreshing" /\ pc[q] = "refreshing" => r = q
    /\ failedQueue # {} => isRefreshing

(* AuthContext.jsx 88-169, client.js 230-242: the token the tab holds in    *)
(* memory, and the one its client sends by default, are the current user's *)
(* unless an answer to an earlier identity's refresh came late.            *)
TokenIsTheUsers ==
    /\ TypeOK
    /\ ~late /\ auth.user # NoUser =>
           \A t \in {auth.mem, auth.header} : t # NoToken => t.user = auth.user

(* authService.js 109-124 behind client.js 200-241: signing out without a  *)
(* fault ends the session of the cookie, whether the access token was still*)
(* good or had to be refreshed for it; only a token that lapses again      *)
(* between that refresh and the repeated call, or an answer to an earlier  *)
(* identity's refresh, can leave the session alive.                        *)
LogoutEndsSession ==
    [][/\ faults' = 0 /\ Over(pc'["logout"]) /\ ~Over(pc["logout"])
       /\ ~late' /\ ~(pc["logout"] = "sent" /\ req["logout"].retried)
       => cookie \notin store']_vars

(* client.js 145-263: however often tokens lapse or calls are lost while    *)
(* they wait, in the end every request has been answered or refused and    *)
(* the tab has stopped loading.                                            *)
EveryRequestSettles ==
    <>[](~auth.loading /\ \A r \in Requests : pc[r] = "idle" \/ Over(pc[r]))
=============================================================================
