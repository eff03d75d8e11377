# VaultCore, verified

A TLA+ development of VaultCore, a banking system of JavaScript microservices and a
React front end: modules that model its money movement, its resilience machinery and
the protocols of its browser client, TLC runs that check them on small instances, and
TLAPS proofs of what matters most for every instance. Paths are relative to the
repository; `frontend` stands for `frontend/src`.

## 1. The system

| Component | State | Operations | Talks to |
|---|---|---|---|
| **payment-service** saga (`paymentService.js`, `paymentRepository.js`, `ledgerClient.js`) | `Transaction` rows, Redis idempotency records and account locks, in-flight HTTP requests | `processTransfer`, `processDeposit`, `processWithdrawal`, read-only queries | ledger-service (HTTP), PostgreSQL, Redis |
| **ledger-service** (`ledgerRepository.js`) | `Account` balance and version, `LedgerEntry` rows, `Transaction` rows of cash operations | `executeDoubleEntryTransfer`, `executeDeposit`, `executeWithdrawal`, history query | PostgreSQL |
| **distributed locks** (`shared/src/lock/lockService.js`) | one Redis key per account with a random id and a TTL | acquire in sorted order, roll back, compare-and-delete, idempotency records | Redis |
| **outbox publisher** (`outboxWorker.js`, `outboxRepository.js`, `outboxPublisher.js`, `queue/rabbitmq.js`) | `OutboxEvent` rows, a batch of snapshots per replica | poll, publish, mark, retry with backoff, give up | PostgreSQL, RabbitMQ |
| **circuit breaker** (`shared/src/resilience/circuitBreaker.js`) | state, two counters, a timer | `execute`, `reset`, `forceState` | wraps the ledger client and the publisher; the gateway's proxies use its fields |
| **account-service and cache** (`accountService.js`, `cache/accountCache.js`) | cached balances and details with TTLs | cache-aside reads, invalidation, account creation | PostgreSQL, Redis |
| **notification-service** (`notificationConsumer.js`, `notificationRepository.js`) | audit rows, retry counts in message headers | consume, deliver, retry, dead-letter, history query | RabbitMQ, PostgreSQL |
| **auth-service** (`authService.js`, `tokenStore.js`, `token.js`) | users, refresh sessions | sign up, log in, refresh, log out | PostgreSQL, Redis |
| **gateway** (`proxyFactory.js`, `rateLimiter.js`, `gatewayAuth.js`, `gatewayEventConsumer.js`, the event hub in `app.js`) | a breaker per target, sliding windows, processed ids, a ring buffer of events | proxy, limit, broadcast, replay | everything, browsers |
| **frontend session** (`api/client.js`, `AuthContext.jsx`, `SessionExpiredModal.jsx`) | token in memory, queue of requests waiting for a refresh, modal | sign in, call, refresh, log out | gateway |
| **frontend live events** (`eventsApi.js`, `RealtimeContext.jsx`) | connection, attempts, last event id, remembered keys | connect, receive, watch, reconnect | gateway |
| **frontend pages** (ledger, transactions, notifications, payment form) | filters, cursor stacks, query cache, read marks, form and receipt | page, filter, refresh, mark as read, pay | gateway |

How they interact. A payment takes the Redis locks of its accounts, creates a
PENDING row, asks the ledger over HTTP to move the money, and closes the row in one
transaction with an outbox event. The outbox worker publishes the event; the
notification service and the gateway consume it, the gateway a second time over
Redis, and passes it to the open tabs, which fetch again what they show. Three stores
hold the truth about one payment (ledger tables, transaction row with its event, Redis
record), and no transaction spans them.

### What is hard, and what makes each component correct

* **Ledger.** Concurrent postings under READ COMMITTED, version checks instead of row
  locks on read, opposite transfers that update their rows in opposite order,
  duplicates of one request. Correct: no overdraft, no lost update, all or nothing, cash
  posted once, every attempt ends.
* **Saga.** Ledger requests that time out and are still served, retries, crashes
  between any two writes, unacknowledged commits, locks that expire under a slow
  call. Correct: COMPLETED means posted, an event means money, FAILED means not
  posted, at most one posting per key, nothing stays PENDING.
* **Locks.** Partial acquisition, replies lost after the SET took effect, late
  releases, dead owners. Correct: mutual exclusion, all or nothing, every key freed.
* **Outbox.** Several replicas on unlocked snapshots, a publish that succeeds and is
  reported as failed, a channel that confirms nothing. Correct: PUBLISHED means written to
  the channel, and at the exchange or on its way while connections last; FAILED means given
  up after all retries; every event settled.
* **Breaker, proxy, limiter.** Results that arrive in a state other than that of their
  admission, unlimited concurrent probes, second sends that ask nobody, clocks that
  differ. Correct: documented thresholds, recovery, the quota.
* **Account cache.** An entry filled from a read that a payment has overtaken, and
  entries filled from each other. Correct: stale entries die, only owners are told.
* **Notifications.** Copies, retries and the live twin of one event race. Correct:
  nothing vanishes, records tell the truth, retries bounded.
* **Session.** Answers that arrive after the user has changed, requests queued behind
  a refresh, a logout that needs one itself. Correct: the token is the user's, each
  waiter is resumed or refused once, a logout ends the session.
* **Live events.** Two buses, bounded memories, connections that die silently. Correct:
  nothing lost within the ring, nothing handled twice, the tab catches up or says so.
* **Pages.** Lists that change under the reader, answers of an older filter, marks the
  server does not know, answers to a form that has moved on. Correct: a walk goes back in
  time and ends, cursors stay with their view, read marks last, a receipt is of a payment
  made.

Each stands at its line under `hazards` in `PROJECT.json`.

## 2. The plan

| Stage | Module | Content | State |
|---|---|---|---|
| 1 | `LedgerRequests` | accounts, keys, requests, entries, sound statements | done |
| 1 | `AtomicLedger` | abstract: a posting is one step | done |
| 1 | `VaultLedger`, `VaultLedger_proofs` | the database transactions; refines `AtomicLedger` | done, proved |
| 1 | `AtomicLocks`, `LockService`, `LockService_proofs` | all-or-nothing locks, and the Redis protocol that refines them | done, proved |
| 1 | `PaymentService`, `PaymentService_proofs` | the saga, composed with `AtomicLedger` and all-or-nothing locks | done, proved |
| 1 | `OutboxWorker`, `OutboxWorker_proofs` | replicas, broker, retries | done, proved |
| 1 | `CircuitBreaker` | concurrent protected actions | done, proved with its users |
| 1 | `NotificationConsumer`, `NotificationConsumer_proofs` | duplicate delivery, retry fan-out, audit rows, lost connections; consumes what `OutboxWorker` sends | done, proved |
| 2 | `GatewayProxy`, `RateLimiter`, `Gateway_proofs` | the breaker's two users; the sliding window of several gateways | done, proved |
| 2 | `Session`, `Frontend_proofs` | sign-in, refresh queue, logout of one tab, with auth-service | done, proved |
| 2 | `LiveEvents`, `Gateway_proofs` | from the two buses over the gateways to the tab | done, proved |
| 2 | `HistoryPages`, `Frontend_proofs` | cursors, query cache and read marks of three screens, with the queries that serve them | done, proved |
| 2 | `AccountCache`, `TransferForm`, `Account_proofs` | the cache-aside reads; the payment form that shows and uses their answers | done, proved |
| 3 | proofs | every safety property of the passing runs | done |
| 4 | `LedgerRounding` | amounts with more decimals than the columns keep | planned |

## 3. The modules and the code

### Money

**`LedgerRequests`** is the vocabulary. A client draws one UUID per intended
movement, so an idempotency key names one request; `WellFormed` is what the
validators let through. Amounts are integers in minor units. `SoundStatement` says
that the `balanceAfter` of each ledger entry is the previous one moved by the entry,
and that the last one is the balance in the account row.

**`AtomicLedger`** is what ledger-service promises: `Post` moves the money, appends
the entries and creates the row if there is none, in one step. It is as weak as the
code: a transfer can be posted again under an existing row, since the ledger calls a
key a duplicate only if its row is COMPLETED and has entries.

**`VaultLedger`** is the code of `ledgerRepository.js`: an attempt is one request,
with one action for each statement of its interactive transaction.

| Action | Code |
|---|---|
| `Lookup` | the idempotency check; `found` remembers the row it saw |
| `ReadSource`, `ReadTarget` | `findUnique` and the status and funds checks |
| `UpdateSource`, `UpdateTarget` | `updateMany ... where version`: not counted if the committed version moved, else takes the row lock, waiting for its holder |
| `Record` | row insert or reuse, entry inserts, commit |
| `Abort` | process death, transaction timeout, deadlock victim |
| `OpenTransfer`, `CloseTransfer` | payment-service's writes to `Transaction.status` |

Committed tables are shared state; uncommitted writes are in nobody's view. The row
locks are modelled as PostgreSQL keeps them, so that opposite transfers do deadlock.

**`AtomicLocks`** grants all accounts an operation wants at once. **`LockService`** is
`acquireAccountLocks`: one `SET NX PX` per account in sorted order, roll-back on the
first denial, compare-and-delete on release, Redis errors that hide whether the
command ran, crashes and expiry. `Slow` is the set of operations that may exceed the
TTL. A lock id is random and unique, and identifies its operation.

**`PaymentService`** extends `AtomicLedger` and adds the saga: one label per step of
the three `process*` methods, with all early returns and catch and finally blocks.
`inflight` is the set of ledger requests that were sent and are not yet served; a
timed-out one stays in it, and may be served at any later moment. `raced` marks
requests whose account versions another posting has moved, which the ledger may
answer with 409. `faults`, chosen at the start of a behaviour from `Scenarios`, says
which kinds of trouble may occur in it:

| Fault | Meaning |
|---|---|
| timeout | a ledger request times out or its reply is lost |
| expiry | a call outlasts the TTL of its locks |
| crash | the process dies between two steps |
| redis | Redis commands fail, records are evicted |
| db | statements fail, or are not acknowledged |
| ledger | the ledger answers 5xx without posting, or the breaker refuses |

**`OutboxWorker`** models `processBatch` of any number of replicas: a batch is a
sequence of snapshots, `incrementRetry` and `markEventFailed` write the snapshot's
count. `running` is the set of replicas deployed. `publish()` on a channel without
publisher confirms says no more than that the message was written: `Written` puts it on the
replica's `channel`, from where `Deliver` takes it to the exchange, at any later time, or
`Disconnect` and `Crash` lose it, while its row may have been marked already. Nothing sends
such a message again, and nobody is told. `arrived`, `sent` and `failures` are history
variables.

**`NotificationConsumer`** holds messages and handlers in one bag, `msgs`: a message
keeps its event, its queue (or the live stream), its `retryAttempt` header and the
stage its handler has reached. `Check`, `Deliver`, `WriteAudit` and `GiveUp` are the
awaits of `consumeQueue` and `processIncomingEvent`; `Failure` is the catch block,
whose `Retry` goes through the exchange to every bound queue. `Drop` is a connection lost
under running handlers, whose messages are queued again; such a handler goes on and
acknowledges with its old tag on the next channel (`WrongTag`), or finds none, which ends
the process (`Dies`). `Publish` is what
`OutboxWorker` does, with the outbox's own retry count in the header; `SyncHistory` is
the auto-sync of a history query. A crash requeues what is not acknowledged and loses
what came over Redis. `delivered` and `robbed` are history variables.

**`AccountCache`** has one account, since accounts share no entries: its row with its
version, the details entry and the balance entry, and requests in the steps between
the awaits of `getAccountBalance` and `getAccountDetails`. A balance that is not
cached is taken from the details, cached or read, and stored again: `SetDetails` and
`SetBalance` store what was read some steps earlier, which `InvalidateAccounts` of a
payment may have overtaken. Who asks is the owner, a stranger or staff. Expiry drops an
entry at any time.

### The gateway

**`CircuitBreaker`** models `execute` with concurrent actions. An action may send
several requests (the ledger client's retry loop) although the breaker is asked once.
`width` is the number of actions its caller has in flight at a time. `probes` and
`proven` are history variables. **`GatewayProxy`** adds the second user of a breaker:
`proxyFactory.js` reads and writes its fields without `execute`, counts an error of the
connection as a failure, an answer below 500 as a success and a 5xx as neither, and
sends a GET once more after an error or a 503.

**`RateLimiter`** is the Lua script over one sorted set, called by several gateways
with their own clocks. Times are relative to the present, so that it runs for ever in a
finite state space. `Skew` bounds how far clocks differ, `Delay` how long a call waits
for Redis. Calls, members of the set and requests that look alike are told apart by a
number (`With`), as the code's members are by random letters. `admitted` is a history
variable.

**`MCGateway`** checks the two in one run; they share no state, and a behaviour follows
one of them.

**`LiveEvents`** follows events from `liveEventBus.publish` (Redis) and the outbox
(RabbitMQ) through the gateways' processed ids (`Pushed`, a bounded list that drops its
oldest), the ring buffer and the open connection to the tab, which keeps the id of the
last event (`Heard`), its own bounded list of keys (`seen`), the attempts made and a
timer. A message of the stream itself has no id (`NoId`). Gateways crash and restart empty. The user signs in and out, hides and shows the
tab and forces a reconnection. `due`, `done`, `since` and `gapped` are history variables:
what the tab should still get since it first received something.

### The browser

**`Session`** is one tab: the token in memory and the default header of the client,
the user of the context, `isSessionExpiredActive` and the modal, `isRefreshing` and
`failedQueue`, and every request with its header and retries. Servers are the store of
refresh sessions and the token period `gen`: a token is its user and the period in which
it was signed. Calls that change who is signed in take two steps, one at the server and
one when the answer arrives. `late` marks a behaviour in which an answer came that was
asked for before somebody signed in or out.

**`HistoryPages`** is a history screen: the rows of the table, the account and filters
(`view`), the filter applied in the browser (`local`), the stack of cursors and the
position in it, React Query's cache by view and cursor, with what is stale, being asked
and answered, and the read marks in `localStorage`. `PageOf` is the query of the three
services, `Stored`, `Refetched` and `Invalidated` are what React Query does when the
hooks ask it to, `PaymentEvent` and `NotificationEvent` what `RealtimeContext` does with a
live event. `screen` chooses the page whose differences apply. Marking one
notification and marking all are two mutations, `marking` and `markingAll`, which may
overlap: each writes the storage when it begins and again when it succeeds (its API call
never fails), and then patches every cached page. So mark-all moves its time to the end
of its PATCH (`ReadAllNow`), and covers what has arrived meanwhile.

**`TransferForm`** is the payment form: tab, amount, receipt and error, the balance query
and the list of accounts, and the payments sent, each with what the server made of it
and what the browser has heard. The account service may answer any balance the account
has had, which is what `AccountCache` leaves of its promise; the payment service refuses a
payment or posts it, a transfer possibly again (`Again`), which `MCPaymentTwice` is about
and the form cannot tell. `current` is the call each of the three mutations observes:
callbacks of `mutate` run only for the call that is still observed by a mounted form.
**`MCAccount`** checks `AccountCache` and `TransferForm` in one run, one moving per behaviour.


## 4. The runs

| Run | Question | Instance |
|---|---|---|
| `MCLedger` | Can interleaved transactions overdraw, lose an update, post half a request or cash twice? Do they implement `AtomicLedger`, and does every begun attempt end? | 2 attempts over opposite transfers, a deposit, a withdrawal, an inactive account |
| `MCLocks` | Do operations exclude each other, end, and free every key, though one outlasts its TTL? Can they all turn each other away, or a late release take the next holder's lock? Do they implement `AtomicLocks`? | 4 operations, 3 accounts, errors and crashes |
| `MCPayment` | What does the saga guarantee under every fault, and what as long as a kind of fault stays away? Without crashes, does every call end and no transfer stay PENDING? | 2 calls, 3 keys, 3 ledger requests each, six combinations of faults |
| `MCOutbox` | What do PUBLISHED and FAILED tell of an event? Is a PUBLISHED one at the exchange or on its way as long as no connection and no replica is lost? Is an undisturbed single replica free of duplicates? Is every event settled, though the broker rejects, connections break and replicas overwrite each other? | 2 events, 3 retries; one replica with three combinations of faults, all of them included, and two with two |
| `MCNotify` | Does an event survive every fault? Do dead letters and SENT rows tell the truth, do retries multiply deliveries, is every event audited? | 1 event, 2 queues and the live stream, 2 copies, 1 retry, 2 crashes or lost connections, nine combinations of faults |
| `MCGateway` | Are the thresholds kept, does the breaker recover, what do the proxies do to it? Can a user get more than the quota? | 1 to 3 actions at a time, the code's thresholds 5 and 3; 2 gateways, a window of 4 ticks, clocks 1 apart |
| `MCSession` | Is the token always that of the user shown? Is every request that waits for a refresh resumed or refused exactly once? Does signing out end what it should, and does everything settle? | 2 users, 2 data requests and a logout, 2 token periods |
| `MCLive` | Does an event of either bus reach the tab once, in what order, and what is lost by a reconnection? | 1 or 2 gateways, 2 events, memories of 2 |
| `MCHistory` | Does a walk through the pages go back in time, each page between its cursor and the next, whatever is written and fetched again meanwhile? Does a cursor stay with its filter? Do read marks last? | 3 screens, 3 views, pages of one row, 3 moves |
| `MCAccount` | Who is told a balance, and how long may it be old? Does the form show a receipt only of a payment that was made? | 2 readers, 2 postings, a Redis error; 3 tabs, 2 payments |
| `MCPaymentTwice` | counterexample: one payment is posted twice | 1 call that times out |
| `MCHistorySkips` | counterexample: paging down skips the first row of each further page | pages of one row |

What each run checks:

* `MCLedger`: `NoOverdraft`, `SoundStatements`, `PostedMeansRecorded` (one entry
  on each side for each attempt that ended as posted),
  `CashPostedOnce`, `ImplementsAtomicLedger`, `EveryAttemptEnds`.
* `MCLocks`: `MutualExclusion`, `NoRingOfRefusals`, `OnlyTtlTakesLocks`,
  `ImplementsAtomicLocks`, `NothingHangs`.
* `MCPayment`: `NothingClaimedFalsely` (COMPLETED rows, events and answers speak of money
  that has moved),
  `PostingsBounded`, `LocksSerialise`, `RecordsMatchMoney`, `KeepsLedgerPromise` (a step
  of the saga is a step or a stutter of `AtomicLedger`), `EverythingEnds`.
* `MCOutbox`: `RowsTellTruth`, `EveryEventSettled`.
* `MCNotify`: `NothingVanishes`, `RecordsTellTruth`, `RetriesBounded`, `EveryEventAudited`.
* `MCGateway`: `QuotaHolds` (limiter); `SerialCallersAreSafe`, `Recovers` (breaker);
  `EveryVisitEnds` (proxy).
* `MCSession`: `TokenIsTheUsers`, `RefreshQueueSound`, `LogoutEndsSession`,
  `EveryRequestSettles`.
* `MCLive`: `NothingOutOfReach`, `HandledOnce`, `CatchesUp`.
* `MCHistory`: `PagesDescend`, `CursorsAreOfThisView`, `ReadStaysRead`.
* `MCAccount`: `OwnersOnly`, `StaleEntriesDie` (cache); `ReceiptTells` (form).
* `MCPaymentTwice`: `AtMostOnePosting`. `MCHistorySkips`: `NoRowSkipped`.

Where a property holds only as long as some trouble stays away, the property says so
(`Without({...}) => ...`, `Undisturbed => ...`, `BuffersSurvive => ...`, `width = 1 => ...`, `Smooth`, `late`) and
the run includes behaviours that satisfy the condition and behaviours that do not.

**The bounds and why they are enough.** Two attempts give every race of the ledger that
two transactions can have (each conflict in it is between two); what three or more
do to each other is covered by the proofs. Balances are so small that two debits cannot both
be paid. Four lock operations on three accounts include a ring of three and a single one.
In `PaymentService` two calls are a duplicate pair or two movements on a shared account;
`MaxAttempts` is the code's 3, and two calls that differ in name only are left out once
(`Ordered`), since liveness forbids TLC's symmetry reduction. The outbox has the code's shape
with 3 retries instead of 5, which keeps first, middle and last try apart, and batches of
two, so that one event's failure meets the snapshot of the next. A channel keeps one
message of an event, since a second copy changes nothing of where the event gets. One
replica is checked under all faults together, two while connections break and while buffers
are full; `RowsAlwaysTellTruth` covers any number under any faults. Events meet in the
notification service only when one's handler acknowledges another's message; a message of
the other queue stands for that, and the proofs cover any number of events. There, two
queues and one retry already give the race of copies and the fan-out of retries (4
dead letters of one message; the code's 3 retries make 16, `Ways` in general). The limiter's limits 1 and
2 with a window of 4 have stamps at both ends of the window and a clock that is behind
by one. In `Session` one more user, request or sign-in than one of each is needed for
an answer to find somebody else signed in; two token periods make a token expire once.
The memories of `LiveEvents` hold 2 where the code keeps 50 to 1000: forgetting starts
with the third id of the ring and of the tab's memory, and the reconnections come before
and after it. There are two events but three ids, and the gateways' processed ids are of
events, so that in the run they are never dropped; the proofs cover memories of any size,
and `HandledOnce` is claimed only for gateways that can remember every event. A page of one row
turns every insertion into a shift of the page.
`MaxRestarts`, `Copies`, `Window`, `MaxAttempts`, the numbers of faults, clicks, moves,
sign-ins and outages are bounds of the model; each is a constant or a named definition.
Histories are capped at what the properties tell apart (`sent` at 2, `failures` at
`MaxRetries`). Deadlock checking is off: every finite instance ends, when all calls
have ended or all events are settled.

**Fairness.** `VaultLedger`: Node goes on with a begun transaction's callback (weak
fairness of its next statement), and PostgreSQL aborts a member of a cycle of row-lock
waits (`deadlock_timeout`); no other abort is owed. `LockService`: running operations go
on, and Redis expires keys. `PaymentService`: a call that can take a step does, and the
request it is waiting for is served; a request nobody awaits may never be.
`OutboxWorker`: `setInterval` polls for ever; and an event that keeps coming up in the
batches of the replicas is due in one of them in the end, since backoff is at most 30 s
(strong fairness of publishing it; the broker may reject every time). `NotificationConsumer`: while there are
messages or handlers, one of them goes on, and the reconnect timer ends in a connection. `CircuitBreaker` and `GatewayProxy`: the clock runs, requests keep
arriving, and a healthy service does not refuse all of them. `Session`: every request is
answered or fails, and the interceptors go on; no user owes a click. `LiveEvents`: timers
fire, what is on the wire arrives, an opened connection is accepted or refused, a gateway
that died is restarted. `AccountCache`: readers go on, TTLs
end; no invalidation is owed, since a transfer that timed out and posts later has none
(`paymentService.js:229`).
`EverythingEnds` is claimed for behaviours without crashes only.

## 5. Where the code and its documentation disagree

Two runs end in a counterexample, each to a sentence of the repository.

* `MCPaymentTwice`: a transfer request that times out and the retry sent for it are both
  posted, because the ledger does not recognise a key whose row is PENDING
  (`ledgerRepository.js:34`); README.md:11 promises idempotent transfers.
* `MCHistorySkips`: the history queries fetch one row more than a page holds, take it off
  the page and answer its id as the cursor of the next page (`ledgerRepository.js:196`);
  the next query starts at that cursor with `skip: 1` (`ledgerRepository.js:201`), so that
  row is on neither page. The same code serves transactions (`paymentRepository.js:369`)
  and notifications (`notificationRepository.js:158`). `MCHistory` checks what remains:
  each page lies between its own cursor and the next. It does not say that a walk shows a
  row once: a first page that is fetched again after rows have settled out of its filter takes
  in rows of the second, and one that is fetched after an insertion pushes what was shown
  to the second.

What else differs from what a comment, a test or a reader would expect, met while
modelling; the properties are worded so that they are true of the code as it is.

*Money and events.* After three timeouts a row is marked FAILED
(`paymentService.js:240`) although a request posted; the comment at line 230 speaks of a
failed posting. Two replicas of the outbox publish one event twice without any fault
(`outboxRepository.js:9`); `scratch/test-outbox-worker.js:174` tests with one that this
does not happen. The outbox uses a plain channel (`createChannel`, `rabbitmq.js:20`), whose
`publish()` reports only whether its buffer has room (`rabbitmq.js:93`), and marks the row
PUBLISHED (`outboxWorker.js:146`); if the connection breaks before the broker has the message,
it is gone with the channel (`rabbitmq.js:24`), and no poll looks at the row again:
docs/performance-report.md:91 reports "Zero Event Loss", which `RowsTellTruth` can say only
of what connections and replicas survive (`BuffersSurvive`). A history query inserts a SENT row for an event whose message is still on
its way (`notificationRepository.js:92`); the consumer then takes the event for one that
"was already processed" (`notificationConsumer.js:318`), and nobody is notified. A handler
that outlives its connection acknowledges on the channel there is now
(`notificationConsumer.js:385`), where its tag may be that of another event: if that one's
handler then dies, its notification is lost. Without a channel the catch block throws as
well, and the process ends.

*Gateway.* Payments and other requests are counted under one key, so that 25 requests
of any kind keep a user from paying; `Retry-After` waits for the oldest stamp only. The
second GET after a 503 cannot help the client, who has been answered with the first.
An answer of 5xx neither trips nor closes the breaker, so it may stay HALF_OPEN. The
proxies take 4xx for a success, `execute` does not. The second GET is sent even while
the breaker is OPEN. With clocks apart, the quota holds for a span shorter than the
window, and no longer one (`Span`).

*Session.* The restoration at start-up may end after a sign-in and replace its token; after
a restoration that failed, a request can still refresh in the background while the modal is
open. "Login Again" leaves the default header of the client. A logout whose answer is lost
leaves refresh session and cookie alive. Signing out clears the read marks.

*Live events.* The keep-alive comments of the stream never reach `onmessage`, whatever the
comment at `eventsApi.js:29` expects, so that a quiet stream is opened anew every 45 to 50
seconds. Hiding the tab forgets the last event id; what was sent before the first id the
tab has heard cannot be asked for. Behind several gateways a reconnection may skip or
repeat events. Nothing publishes `account.balance.updated` or `ledger.entry.created`.

*Pages.* An invalidation during the first load of a query is swallowed. A failed fetch of
notifications shows an empty list. A live notification is put on every cached page, with an
id the server does not know; "mark all" also covers what arrives until its PATCH has ended,
and in the second after that (`useNotifications.js:228`, `storage.js:44`), seen or not. The
panel that says that no records match (`LedgerPage.jsx:373`, `NotificationsPage.jsx:435`) can
show though a later page matches, and it takes the place of the buttons that lead there.

*Form.* A retry after a lost answer, or a double click, draws a new UUID and pays twice, while
`TransferPage.jsx:107` promises idempotency keys against it. The balance shown may be the old
one after the payment's own refetch. A late answer to `CreateAccountModal` closes the modal
that was opened since, and creating an account has no key at all.

## 6. What is proved

TLAPS checks the following for every value of the constants.

**`VaultLedger_proofs`**, from `LedgerAssumption` (requests are well formed, opening
balances are natural numbers) and `AttemptAssumption` (the mark of a free lock is no
attempt). The properties are not inductive: why may a row updated now have the
balance that was read a while ago? The invariant `LockInv` answers it. A row version
identifies a balance (`SnapshotsAge`); an attempt's position tells which locks it
holds (`LocksFollowPc`); and a row that is locked is still the row that was read
(`LockedRowsFresh`), since only its holder can commit to it. With `MoneyInv`:

* `TypeCorrect`: every step keeps the types.
* `NeverOverdrawn`: no interleaving overdraws an account.
* `StatementsAlwaysSound`: no update is lost.
* `CashAlwaysPostedOnce`: with `CashInv` (a cash row exists only as COMPLETED with its
  entries, and an attempt past its lookup has seen none), duplicates post once.
* `PostedAlwaysRecorded`: an account has as many entries under a key as attempts were
  answered as posted. Only `Record` changes either count, each by one; there may be
  infinitely many attempts, of which finitely many have posted (`PostedFinite`).
* `LedgerImplementsAtomic`: the transactions refine `AtomicLedger`; every statement but
  `Record` is a stutter, `Record` is `Post`.

**`LockService_proofs`**, from `LockAssumption` (finitely many accounts, compared as the
sorted ids are; any operations). The invariant ties `acquired` to
`redis`: what an acquiring or working operation remembers is what Redis holds, unless
it is slow; and it has acquired the first accounts of those it wants.

* `TypeCorrect`.
* `LocksExclude`: working operations that do not outlast their TTL share no account.
* `BlockersAreAhead`: an acquiring operation is only in the way of operations behind it in
  the sorted order; hence `RingsNeverForm`: of however many acquiring
  operations, none refuses the one whose next account is the greatest.
* `LocksStay`: a key that an operation relies on is lost to its TTL only, never to the late
  release of another; an action property, from the same invariant.
* `LocksImplementAtomic`: key-by-key locking refines all-or-nothing locking, whatever
  expires or dies. This is what allows `PaymentService` to take its locks in one step.

**`PaymentService_proofs`**, from `LedgerAssumption` and `PaymentAssumption`, for any calls,
keys and faults. The invariant is built in three layers, of which the later ones hold only
while certain faults stay away.

* `TypeCorrect`, `ClaimsAreTrue` and `SagaKeepsPromise`, under every fault, from `ClaimInv`.
  Its core is `OneDriver`: the unique row of a transfer is inserted by one call, which is
  the only one that ever works on it or has requests under way for it, also after it died.
  So the row is still PENDING when this call closes it, and whatever is written down as
  done (row, event, Redis record, answer) has entries behind it (`EntriesBehind`).
* `LocksDoSerialise`, with `LockRules` (who holds accounts holds them alone, and what it has
  read of its key is still so; while no lock expires) and `RequestsAwaited` (what is under
  way is awaited by its call; while none times out).
* `RecordsDoMatch`, with `MatchRules`: a transfer that may yet be marked FAILED has no
  entries, and money without an event has a call that is about to write it.
* `PostingsAreBounded`, under every fault, with `CountInv`: what a key has been posted and
  what its requests under way may still post is together no more than what its calls have
  sent (`PostingsCounted`); and as long as no request is given up, a call has
  one at a time, and nobody sends or awaits one for a key that has entries (`PostsOnce`).

**`OutboxWorker_proofs`**, from `OutboxAssumption`, for any number of replicas, events and
retries and any batch size. `RowsAlwaysTellTruth`: replicas overwrite each other with the
counts of old snapshots, but never run ahead of the failures there were (`CountsBehind`),
and who marks an event has written it (`InHand`), so that it is at the exchange or on its
way for as long as no connection and no replica is lost (`ReachInv`). For one replica with a broker that does not
hide what it took, `Solo` says that its batch is pending, each event in it once, and that
what is written is marked, or the next thing to be marked, whether its connection lasts or not.

**`NotificationConsumer_proofs`**, from `NotificationAssumption`. `NothingEverVanishes` and
`RecordsAlwaysTellTruth`: a step either keeps what RabbitMQ holds of an event, perhaps in
another shape (`From`), or leaves it audited, dead-lettered or `robbed` (`Adds`); and in calm
a message is retried only after another one was audited, so that no retry gets as far as
the dead letter queue (`MessageRule`).

`RetriesStayBounded` counts instead. While nothing dies, every message that may still fail
is given as many tokens as there are ways for it from queue to queue (`WaysLeft`), and
every one that may still be delivered gets one. `LineInv` says that an event's tokens and
its dead letters, or its deliveries, stay within what its publications allow: a retry gives
back one message's tokens and hands out no more (`WaysSplit`), a dead letter and a
delivery give back one at least. Bags of messages are weighed by the cardinality of the
set of their tokens, so that the finite-set theorems apply (`TokenPut`, `TokenTake`,
`TokensRouted`).

**`Account_proofs`** has two parts. From `AccountCacheAssumption`, `OnlyOwnersAreTold`: a
request that holds a row, cached or read, has been allowed to see it (`HoldersAllowed`),
whoever put it into the cache. With no assumption, `ReceiptsAreTrue`: a payment that has
been made and heard of stays so (`DoneStays`), and a receipt copies the payment, not the
fields of the form.

**`Gateway_proofs`** is about the breaker with its users, the limiter and the live events.

* `SerialCallers`, from `BreakerAssumption` and `ProxyAssumption`, for any thresholds. Of a
  caller with one action at a time `UseInv` says that at most one request is in flight, that
  a HALF_OPEN breaker has counted the successes of its probes and no others, and that what is
  in flight while it is OPEN is a proxy's second send; for every caller the counters stay
  below their thresholds.
* `QuotaAlwaysHolds`, from `LimiterAssumption` (the window is longer than skew and delay
  together, and the limit of payments is the smaller one). A request remembered was either
  let through in an outage or has a member in the sorted set that every later call of the
  span still counts; different requests have different members (`Backed`). So the script's
  count bounds what the span let through (`QuotaInv`).
* `EventsStayInReach`, from `LiveEventsAssumption` (finitely many events and gateways). As
  long as one gateway keeps its memory and fewer than a ring are missed, the id the tab will
  ask for stands `since` places before the ring's end, and what is due comes after it
  (`Placed`); and an open wire ends as the ring does and holds what is due (`Aligned`).
* `NeverTwice`, an action property, with `OnceInv`: nothing that the tab has handled comes
  after its place in the ring (`Ordered`), and a gateway that can remember every event puts
  none into the ring twice.

**`Frontend_proofs`** is about the session and the history screens.

* `SessionQueueSound`, with no assumption on the numbers of users, requests and periods:
  the queue of the refresh holds exactly the requests that wait for
  it, each once, and it is empty unless a refresh is under way, so that no request waits
  for a refresh that nobody makes. Few actions touch the queue; `PlainMove` deals with every step
  that moves one request which is not in it, and `QueueSettled` with the two ends of a
  refresh, which move all waiters at once.
* `TokensAreTheUsers` and `LogoutDoesEndSession`, from `SessionAssumption`. `SInv` has a part
  for the restoration at start-up, one for the calls under way, one for the tab and one for
  the session of the cookie; each says whose token or session it is, in behaviours in which
  no late answer has come.
* `WalksDescend`, `CursorsKeepTheirView` and `MarksStayTaken`, from `HistoryPagesAssumption`,
  for a history of any length, any views and page sizes. A page that is shown, cached or on
  its way lies between its cursor and the next (`PagesInv`), the stack descends and its
  cursors are rows of the selected view, or were (`StackInv`). What a page still shows as
  unread has no mark, or the mutation that will patch the page is under way: its own, or
  the one that marks all.

**Model-checked only.** Liveness, which the prover does not reach: `EveryAttemptEnds`,
`NothingHangs`, `EverythingEnds`, `EveryEventSettled`, `EveryEventAudited`, `Recovers`,
`EveryVisitEnds`, `EveryRequestSettles`, `CatchesUp`, `StaleEntriesDie`. Every safety
property of the passing runs is a theorem.

## 7. What is not modelled

* Ownership (403) checks of payment-service are taken as satisfied; they come before any
  state changes.
* Amounts are whole minor units. The validators accept more decimals than the
  `Decimal(18,2)` columns keep; rounding is in the plan.
* A cash request to the ledger has no client timeout; its lost reply is the `timeout`
  fault, after which nothing retries.
* `forceState` of the breaker is an administrative override used by tests.
* `infrastructure/k8s/09-payment-deployment.yaml:68` starts a separate outbox container
  from a file that the repository does not have; the worker modelled is the one
  `server.js` starts in every replica.
* With concurrent actions the breaker does not keep what is checked for `width = 1`: a late
  success from before an outage counts as a probe, and retries inside an admitted action
  go out while it is OPEN.
* An event published at the outbox's third retry or later reaches the consumer with no
  tries left, since both use one header. The race of its two queues may then dead-letter
  a copy of what was delivered, which `RecordsTellTruth` allows for such events only.
* Notification messages that are not JSON or lack an event id are not modelled: the outbox
  always sends one.
* Sign-up: two with one e-mail both pass the check, and the unique index of the table turns
  the second into a server error; profiles are single writes. Which address and which routes
  the limiter takes (`getClientIp`, its exclusions) is not modelled, nor are the
  gateway's broadcast endpoint and the health checks.
* The dashboard, the accounts and the administration page, `CreateAccountModal`, customer
  search and the summaries compute what they show from the queries that are modelled, or
  send single requests.
* Styling, metrics, logging, monitoring, load tests, scratch tests and deployment files
  hold no protocol.
