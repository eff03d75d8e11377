---------------------------- MODULE HistoryPages ----------------------------
(***************************************************************************)
(* The three screens that page through a history: an account's ledger, the *)
(* user's transactions and the user's notifications.  Each asks its        *)
(* service for one page after a cursor, keeps the answers in the query     *)
(* cache under the question asked, and holds the cursors it has passed on  *)
(* a stack.  Rows are written, change status and are announced meanwhile.  *)
(*                                                                         *)
(* A row is its place in the order of creation, newest highest; cursor 0   *)
(* is the start of the history.  What the server is asked for (an account, *)
(* a direction, a status, dates, a reference) is a view; a row says in     *)
(* which views it is.  Id 0 is the entry a live event puts on a page       *)
(* before the server's own row for it arrives.                             *)
(***************************************************************************)
EXTENDS Naturals, Sequences, FiniteSets

CONSTANTS
    Screens,      \* which of the three screens the user opens
    Views,        \* what the server can be asked for
    Base,         \* the view left when a view's filters are cleared
    Home,         \* the view a screen opens with
    Shapes,       \* each screen's rows: the views they are in, and their kind
    Kinds,        \* what the ledger screen filters for itself
    Limit,        \* rows on a page
    FirstRows,    \* rows there are to begin with
    MaxRows,      \* rows there ever are
    MaxMoves      \* clicks of the user, failed requests, pages grown stale

ASSUME HistoryPagesAssumption ==
    /\ Screens \subseteq {"ledger", "transactions", "notifications"} /\ Screens # {}
    /\ Base \in [Views -> Views] /\ Home \in Views
    /\ Shapes \in [Screens -> SUBSET [in : SUBSET Views, kind : Kinds]]
    /\ Limit \in Nat \ {0}
    /\ FirstRows \in Nat /\ MaxRows \in Nat /\ MaxMoves \in Nat
    /\ FirstRows <= MaxRows

Live == 0
NoPage == [rows |-> {}, next |-> 0, unread |-> {}, there |-> FALSE]
Cursors == 0 .. MaxRows
Keys == Views \X Cursors
Pages == [rows : SUBSET Cursors, next : Cursors, unread : SUBSET Cursors, there : BOOLEAN]

VARIABLES
    screen,         \* the screen that is open
    rows,           \* the table behind it
    news,           \* live events on their way, by type
    view, local,    \* the filters chosen
    cursorHistory, currentPageIndex,
    cache,          \* the pages answered, by the question
    stale,          \* the questions whose page is old or invalidated
    asked,          \* the questions on their way to the server
    answer,         \* the answers on their way back
    failed,         \* the questions that ended in an error
    read, readAll,  \* notificationStorage: ids read, and the row up to which all are
    marking,        \* the notification whose own PATCH is under way, if any
    markingAll,     \* whether the PATCH of mark-all is
    moves           \* clicks, failures and half minutes so far

server == <<screen, rows, news>>
stack == <<view, local, cursorHistory, currentPageIndex>>
query == <<cache, stale, asked, answer, failed>>
storage == <<read, readAll, marking, markingAll>>
historyVars == <<server, stack, query, storage, moves>>

-----------------------------------------------------------------------------
(***************************************************************************)
(* The services.  A page is the newest Limit rows of the view below the    *)
(* cursor.  The server reads one more, takes it off again and answers its  *)
(* id as the next cursor; the next page starts at that row and skips one.  *)
(***************************************************************************)
InView(v) == {r \in 1 .. Len(rows) : v \in rows[r].in}
Above(S, r) == {s \in S : s > r}
FromCursor(v, c) == {r \in InView(v) : c = 0 \/ r <= c}
Skipped(S) == {r \in S : Above(S, r) # {}}
Found(v, c) == IF c = 0 THEN InView(v) ELSE Skipped(FromCursor(v, c))
Newest(S) == {r \in S : Cardinality(Above(S, r)) < Limit}
Extra(S) == {r \in S : Cardinality(Above(S, r)) = Limit}
CursorOf(S) == IF Extra(S) = {} THEN 0 ELSE CHOOSE r \in Extra(S) : TRUE

PageOfShifted(v, c) ==
    LET S == Found(v, c)
        T == Newest(S) \cup Extra(S)
    IN IF Extra(S) = {} THEN [rows |-> T, next |-> 0, unread |-> {}, there |-> TRUE]
       ELSE [rows |-> {r \in T : Above(T, r) # {}}, unread |-> {}, there |-> TRUE,
             next |-> CHOOSE r \in T : Above(T, r) = {}]

PageOf(v, c) ==
    LET S == Found(v, c)
    IN [rows |-> Newest(S), next |-> CursorOf(S), unread |-> {}, there |-> TRUE]

\* What a screen shows for a notification it has no record of as read.
Unread(R) == {r \in R : r \notin read /\ r > readAll}

-----------------------------------------------------------------------------
(* What the query cache and the screens make of it. *)

Cur == <<view, cursorHistory[currentPageIndex]>>
Page == cache[Cur]
Fetching(k) == k \in asked \/ answer[k].there
Loading == ~ Page.there /\ Fetching(Cur)

\* Client-side filters: the transaction type on the ledger screen, read or
\* unread on the notifications screen.  The transactions screen has none.
LedgerShown == {r \in Page.rows : local = "ALL" \/ rows[r].kind = local}
NotificationsShown ==
    {r \in Page.rows : /\ local = "UNREAD" => r \in Page.unread
                       /\ local = "READ" => r \notin Page.unread}
Shown == IF screen = "ledger" THEN LedgerShown
         ELSE IF screen = "notifications" THEN NotificationsShown ELSE Page.rows
LocalFilters == IF screen = "ledger" THEN Kinds
                ELSE IF screen = "notifications" THEN {"READ", "UNREAD"} ELSE {}

\* The buttons under the table; without a record the panel that says so has none.
CanNext == ~ Loading /\ Shown # {} /\ Page.next # 0 /\ ~ Fetching(Cur)
CanPrev == ~ Loading /\ Shown # {} /\ currentPageIndex > 1 /\ ~ Fetching(Cur)

Move == moves < MaxMoves /\ moves' = moves + 1

NewRow(s) == [in |-> s.in, was |-> s.in, kind |-> s.kind]

HistoryInit ==
    /\ screen \in Screens
    /\ rows \in [1 .. FirstRows -> {NewRow(s) : s \in Shapes[screen]}]
    /\ news = [payment |-> 0, notification |-> 0]
    /\ view = Home /\ local = "ALL"
    /\ cursorHistory = <<0>> /\ currentPageIndex = 1
    /\ cache = [k \in Keys |-> NoPage] /\ stale = {} /\ failed = {}
    /\ asked = {<<Home, 0>>} /\ answer = [k \in Keys |-> NoPage]
    /\ read = {} /\ readAll = 0 /\ marking = {} /\ markingAll = FALSE
    /\ moves = 0

-----------------------------------------------------------------------------
(***************************************************************************)
(* The tables.  A transaction changes status once; its event and the row   *)
(* of its notification follow.  Nothing else of a row ever changes.        *)
(***************************************************************************)
Announced(n) == [payment |-> n.payment + 1,
                 notification |-> IF screen = "notifications" THEN n.notification + 1
                                  ELSE n.notification]

Write ==
    /\ Len(rows) < MaxRows
    /\ \E s \in Shapes[screen] : rows' = Append(rows, NewRow(s))
    /\ news' = Announced(news)
    /\ UNCHANGED <<screen, stack, query, storage, moves>>

Settle(r) ==
    /\ screen = "transactions" /\ rows[r].in = rows[r].was
    /\ \E s \in Shapes[screen] : s.in # rows[r].in /\ rows' = [rows EXCEPT ![r].in = s.in]
    /\ news' = Announced(news)
    /\ UNCHANGED <<screen, stack, query, storage, moves>>

Served(k) ==
    /\ k \in asked
    /\ asked' = asked \ {k}
    /\ UNCHANGED <<screen, stack, cache, stale, failed, storage, moves>>

ServeLedger(k) ==
    /\ screen = "ledger" /\ Served(k)
    /\ answer' = [answer EXCEPT ![k] = PageOf(k[1], k[2])]
    /\ UNCHANGED <<rows, news>>

ServeTransactions(k) ==
    /\ screen = "transactions" /\ Served(k)
    /\ answer' = [answer EXCEPT ![k] = PageOf(k[1], k[2])]
    /\ UNCHANGED <<rows, news>>

\* The notification service first writes the rows it finds missing.
ServeNotifications(k) ==
    /\ screen = "notifications" /\ Served(k)
    /\ \/ UNCHANGED <<rows, news>>
       \/ /\ Len(rows) < MaxRows
          /\ \E s \in Shapes[screen] : rows' = Append(rows, NewRow(s))
          /\ news' = Announced(news)
    /\ answer' = [answer EXCEPT ![k] = PageOf(k[1], k[2])']

-----------------------------------------------------------------------------
(* The query cache. *)

Stored(k, page) ==
    /\ cache' = [cache EXCEPT ![k] = page]
    /\ stale' = stale \ {k} /\ failed' = failed \ {k}
    /\ asked' = asked \ {k} /\ answer' = [answer EXCEPT ![k] = NoPage]

\* Rows are formatted as they arrive; only the browser knows what was read.
FormattedByServer(page) ==
    IF screen = "notifications" THEN [page EXCEPT !.unread = page.rows] ELSE page

Formatted(page) ==
    IF screen = "notifications" THEN [page EXCEPT !.unread = Unread(page.rows)] ELSE page

Receive(k) ==
    /\ answer[k].there
    /\ Stored(k, Formatted(answer[k]))
    /\ UNCHANGED <<server, stack, storage, moves>>

\* After one retry a request has failed; the notification api answers an
\* empty page in its stead.
Fail(k) ==
    /\ Fetching(k) /\ Move
    /\ IF screen = "notifications" THEN Stored(k, [NoPage EXCEPT !.there = TRUE])
       ELSE /\ failed' = failed \cup {k}
            /\ asked' = asked \ {k} /\ answer' = [answer EXCEPT ![k] = NoPage]
            /\ UNCHANGED <<cache, stale>>
    /\ UNCHANGED <<server, stack, storage>>

\* A screen that turns to question k asks it unless a fresh page is there.
Observe(k) ==
    /\ asked' = IF (cache[k].there /\ k \notin stale) \/ Fetching(k) THEN asked
                ELSE asked \cup {k}
    /\ UNCHANGED <<cache, stale, answer, failed>>

\* A refetch drops an answer under way, but not the answer to a first load.
Refetched ==
    IF Page.there THEN /\ asked' = asked \cup {Cur}
                       /\ answer' = [answer EXCEPT ![Cur] = NoPage]
    ELSE /\ asked' = IF Fetching(Cur) THEN asked ELSE asked \cup {Cur}
         /\ UNCHANGED answer

Invalidated(pages) ==
    /\ cache' = pages
    /\ stale' = {k \in Keys : cache[k].there}
    /\ Refetched
    /\ UNCHANGED failed

\* Thirty seconds pass: what is cached is asked again when it is next shown.
Age ==
    /\ Move
    /\ stale' = {k \in Keys : cache[k].there}
    /\ UNCHANGED <<server, stack, cache, asked, answer, failed, storage>>

\* payment.completed and payment.failed
PaymentEvent ==
    /\ news.payment > 0
    /\ news' = [news EXCEPT !.payment = @ - 1]
    /\ Invalidated(cache)
    /\ UNCHANGED <<screen, rows, stack, storage, moves>>

\* notification.created: the entry goes on top of every page in the cache.  A
\* bound: the next one waits until no page and no PATCH is about the last one.
NotificationEvent ==
    /\ news.notification > 0
    /\ Live \notin marking /\ \A k \in Keys : Live \notin cache[k].rows
    /\ news' = [news EXCEPT !.notification = @ - 1]
    /\ cache' = [k \in Keys |->
                   IF cache[k].there
                   THEN [cache[k] EXCEPT !.rows = @ \cup {Live}, !.unread = @ \cup {Live}]
                   ELSE NoPage]
    /\ read' = read \ {Live}
    /\ UNCHANGED <<screen, rows, stack, stale, asked, answer, failed, readAll, marking,
                   markingAll, moves>>

-----------------------------------------------------------------------------
(* The user. *)

StartOverInPlace(v, f) ==
    /\ view' = v /\ local' = f
    /\ UNCHANGED <<cursorHistory, currentPageIndex>>
    /\ Observe(<<v, cursorHistory[currentPageIndex]>>)

StartOver(v, f) ==
    /\ view' = v /\ local' = f
    /\ cursorHistory' = <<0>> /\ currentPageIndex' = 1
    /\ Observe(<<v, 0>>)

\* handleAccountChange of the ledger screen keeps the filters.
ChangeAccount(v) ==
    /\ screen = "ledger" /\ Base[v] # Base[view] /\ (v = Base[v]) = (view = Base[view])
    /\ Move /\ StartOver(v, local)
    /\ UNCHANGED <<server, storage>>

\* A filter the server applies: direction, status, channel, dates, reference.
ChangeFilter(v) ==
    /\ v # view /\ \E s \in Shapes[screen] : v \in s.in /\ Base[v] = Base[view]
    /\ Move /\ StartOver(v, local)
    /\ UNCHANGED <<server, storage>>

\* A filter the screen applies to the page it has.
ChangeLocalFilter(f) ==
    /\ f \in LocalFilters \cup {"ALL"} /\ f # local
    /\ Move /\ StartOver(view, f)
    /\ UNCHANGED <<server, storage>>

ResetFilters ==
    /\ view # Base[view] \/ (screen = "ledger" /\ local # "ALL")
    /\ Move /\ StartOver(Base[view], "ALL")
    /\ UNCHANGED <<server, storage>>

NextPage ==
    /\ CanNext /\ Move
    /\ cursorHistory' = Append(SubSeq(cursorHistory, 1, currentPageIndex), Page.next)
    /\ currentPageIndex' = currentPageIndex + 1
    /\ Observe(<<view, Page.next>>)
    /\ UNCHANGED <<server, view, local, storage>>

PrevPage ==
    /\ CanPrev /\ Move
    /\ currentPageIndex' = currentPageIndex - 1
    /\ Observe(<<view, cursorHistory[currentPageIndex - 1]>>)
    /\ UNCHANGED <<server, view, local, cursorHistory, storage>>

\* Sync, Refresh, and Retry under an error.
Refresh ==
    /\ ~ Fetching(Cur) /\ Move
    /\ Refetched /\ UNCHANGED <<cache, stale, failed>>
    /\ UNCHANGED <<server, stack, storage>>

(***************************************************************************)
(* Marks.  The browser's storage is written before the PATCH goes out and  *)
(* again when it has ended, well or not; then the pages are patched and    *)
(* asked again.  A single mark and mark-all are two mutations: each button *)
(* waits for the end of its own only.                                      *)
(***************************************************************************)
MarkRead(r) ==
    /\ screen = "notifications" /\ ~ Loading /\ marking = {}
    /\ r \in Shown \cap Page.unread /\ Move
    /\ read' = read \cup {r} /\ marking' = {r}
    /\ UNCHANGED <<server, stack, query, readAll, markingAll>>

Marked ==
    /\ marking # {}
    /\ read' = read \cup marking /\ marking' = {}
    /\ Invalidated([k \in Keys |-> [cache[k] EXCEPT !.unread = @ \ marking]])
    /\ UNCHANGED <<server, stack, readAll, markingAll, moves>>

\* All that is older than one second from now counts as read, as does all
\* that did before.
ReadAllNow == readAll' \in {n \in {Len(rows), Len(rows) + 1} : n >= readAll}

MarkAllRead ==
    /\ screen = "notifications" /\ Page.unread # {} /\ ~ markingAll /\ Move
    /\ read' = read \cup Page.unread /\ ReadAllNow
    /\ markingAll' = TRUE
    /\ UNCHANGED <<server, stack, query, marking>>

\* The ids are in the storage already; the time is that of the end.
MarkedAll ==
    /\ markingAll
    /\ ReadAllNow /\ markingAll' = FALSE
    /\ Invalidated([k \in Keys |-> [cache[k] EXCEPT !.unread = {}]])
    /\ UNCHANGED <<server, stack, read, marking, moves>>

HistoryNext ==
    \/ Write \/ \E r \in 1 .. Len(rows) : Settle(r)
    \/ \E k \in Keys : \/ ServeLedger(k) \/ ServeTransactions(k) \/ ServeNotifications(k)
                       \/ Receive(k) \/ Fail(k)
    \/ Age \/ PaymentEvent \/ NotificationEvent
    \/ \E v \in Views : ChangeAccount(v) \/ ChangeFilter(v)
    \/ \E f \in Kinds \cup {"ALL", "READ", "UNREAD"} : ChangeLocalFilter(f)
    \/ ResetFilters \/ NextPage \/ PrevPage \/ Refresh
    \/ \E r \in Cursors : MarkRead(r)
    \/ Marked \/ MarkAllRead \/ MarkedAll

HistorySpec == HistoryInit /\ [][HistoryNext]_historyVars

-----------------------------------------------------------------------------
(* The types of the variables. *)
HistoryTypeOK ==
    /\ screen \in Screens
    /\ Len(rows) <= MaxRows
    /\ \A r \in 1 .. Len(rows) : rows[r] \in [in : SUBSET Views, was : SUBSET Views, kind : Kinds]
    /\ news \in [payment : Nat, notification : Nat]
    /\ view \in Views /\ local \in Kinds \cup {"ALL", "READ", "UNREAD"}
    /\ currentPageIndex \in 1 .. Len(cursorHistory)
    /\ cursorHistory[1] = 0
    /\ \A i \in 2 .. Len(cursorHistory) : cursorHistory[i] \in 1 .. Len(rows)
    /\ cache \in [Keys -> Pages] /\ answer \in [Keys -> Pages]
    /\ stale \subseteq Keys /\ asked \subseteq Keys /\ failed \subseteq Keys
    /\ read \subseteq Cursors /\ readAll \in Nat
    /\ marking \subseteq Cursors /\ markingAll \in BOOLEAN

(***************************************************************************)
(* A walk through a history only goes back in time: whatever is written,   *)
(* settled, invalidated and fetched again on the way, the stacked cursors  *)
(* descend, and a page lies between its own cursor and the next one it was *)
(* answered with; so a walk ends.  It may still show a record twice: a     *)
(* page that is fetched again takes in rows of the page after it.          *)
(***************************************************************************)
PageInPlace(c, p) ==
    /\ \A r \in p.rows \ {Live} : (c # 0 => r <= c) /\ r > p.next
    /\ c # 0 => p.next < c

PagesDescend ==
    /\ HistoryTypeOK
    /\ \A i, j \in 2 .. Len(cursorHistory) : i < j => cursorHistory[j] < cursorHistory[i]
    /\ \A k \in Keys : PageInPlace(k[2], cache[k]) /\ PageInPlace(k[2], answer[k])

(***************************************************************************)
(* A cursor the user has passed is a row of the account and the filters    *)
(* selected, or was when its page was served: a cursor of another account  *)
(* or filter would cut the walk at a place that means nothing in this one. *)
(***************************************************************************)
CursorsAreOfThisView ==
    \A i \in 2 .. currentPageIndex :
        view \in rows[cursorHistory[i]].in \cup rows[cursorHistory[i]].was

(***************************************************************************)
(* A notification that counts as read, by its own mark or by mark-all, is  *)
(* never shown as unread again, on any page, once the PATCH has ended, and *)
(* however the two overlap: the server keeps no such mark, so every answer *)
(* still under way and every refetch must honour the browser's.            *)
(***************************************************************************)
ReadStaysRead ==
    \A k \in Keys : \A r \in cache[k].unread \ {Live} :
        Unread({r}) = {} => markingAll \/ r \in marking

(***************************************************************************)
(* The extra row is read only to see whether there is a next page, so the  *)
(* page that starts at its cursor shows it.                                *)
(***************************************************************************)
NoRowSkipped ==
    LET c == cursorHistory[currentPageIndex]
    IN currentPageIndex > 1 /\ Page.there /\ view \in rows[c].in \cap rows[c].was
         => c \in Page.rows
=============================================================================
