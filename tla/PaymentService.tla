--------------------------- MODULE PaymentService ---------------------------
(***************************************************************************)
(* payment-service's processTransfer, processDeposit and processWithdrawal *)
(* against the ledger's promise (AtomicLedger) and the lock service's      *)
(* (AtomicLocks: all accounts at once or none).                            *)
(*                                                                         *)
(* A call is one HTTP request.  A client that retries makes another call   *)
(* with the same key.  A call ends up owning a money movement in three     *)
(* stores that no transaction spans: the ledger, the transaction row with  *)
(* its outbox event, and the Redis idempotency record.                     *)
(***************************************************************************)
EXTENDS AtomicLedger, FiniteSets

CONSTANTS
    Calls,
    MaxAttempts,  \* 1 + maxRetries, the ledger requests of one transfer
    Scenarios,    \* the sets of faults, see below, that may occur together
    Free          \* the holder of an account nobody has locked

FaultKinds ==
    {"timeout",  \* a ledger request times out or its reply is lost
     "expiry",   \* an operation outlasts the TTL of its account locks
     "crash",    \* payment-service dies in the middle of a call
     "redis",    \* a Redis command fails, a record is evicted
     "db",       \* a statement of payment-service fails or is not acknowledged
     "ledger"}   \* the ledger answers 5xx without posting, the breaker opens

ASSUME PaymentAssumption ==
    /\ Free \notin Calls
    /\ MaxAttempts \in Nat \ {0}
    /\ Scenarios \subseteq SUBSET FaultKinds

VARIABLES
    holder,    \* the call that holds the lock of an account
    l1,        \* the status in a key's Redis idempotency record
    outbox,    \* how many PAYMENT_COMPLETED outbox events a key has
    pc,        \* what each call does next
    key,       \* the request each call makes
    tries,     \* ledger requests each call has sent
    inflight,  \* ledger requests sent and not yet served
    raced,     \* those whose accounts another posting has changed since
    answer,    \* the status each call returns; "error" if it throws
    faults     \* the faults of this behaviour, the same throughout

callVars == << pc, key, tries, answer >>
sagaVars == << ledgerVars, holder, l1, outbox, inflight, raced, callVars >>
vars == << sagaVars, faults >>

Ended == {"done", "crashed"}

Labels == {"new", "lock", "check", "validate", "open", "send", "await", "finalize",
           "event", "fail", "cache", "release"} \cup Ended

TypeOK ==
    /\ LedgerTypeOK
    /\ holder \in [Accounts -> Calls \cup {Free}]
    /\ l1 \in [Keys -> TxStatus]
    /\ outbox \in [Keys -> Nat]
    /\ pc \in [Calls -> Labels]
    /\ key \in [Calls -> Keys]
    /\ tries \in [Calls -> 0..MaxAttempts]
    /\ inflight \subseteq Calls \X (1..MaxAttempts)
    /\ raced \subseteq inflight
    /\ answer \in [Calls -> (TxStatus \ {"NONE"}) \cup {"error"}]
    /\ faults \in Scenarios

Init ==
    /\ LedgerInit
    /\ holder = [a \in Accounts |-> Free]
    /\ l1 = [k \in Keys |-> "NONE"]
    /\ outbox = [k \in Keys |-> 0]
    /\ pc = [c \in Calls |-> "new"]
    /\ key \in [Calls -> Keys]
    /\ tries = [c \in Calls |-> 0]
    /\ inflight = {}
    /\ raced = {}
    /\ answer = [c \in Calls |-> "error"]
    /\ faults \in Scenarios

Goto(c, label) == pc' = [pc EXCEPT ![c] = label]

(* Every exception leads through the finally block that releases. *)
Throw(c) == Goto(c, "release") /\ UNCHANGED answer

Answer(c, txStatus) == answer' = [answer EXCEPT ![c] = txStatus]

-----------------------------------------------------------------------------
(* 1. Layer 1: the Redis record answers at once; an error is a miss. *)
LookupL1(c) ==
    /\ pc[c] = "new"
    /\ \/ /\ l1[key[c]] # "NONE"
          /\ Answer(c, l1[key[c]])
          /\ Goto(c, "done")
       \/ /\ l1[key[c]] = "NONE" \/ "redis" \in faults
          /\ Goto(c, "lock")
          /\ UNCHANGED answer
    /\ UNCHANGED << ledgerVars, holder, l1, outbox, inflight, raced, key, tries >>

(* Mutant: a denied lock is ignored. *)
LegsTaken(k) == TRUE

LegsFree(k) == \A a \in Legs(k) : holder[a] = Free

(* 2. All account locks, or 409. *)
AcquireLocks(c) ==
    /\ pc[c] = "lock"
    /\ \/ /\ LegsFree(key[c])
          /\ holder' = [a \in Accounts |-> IF a \in Legs(key[c]) THEN c ELSE holder[a]]
          /\ Goto(c, "check")
       \/ /\ "redis" \in faults \/ ~LegsFree(key[c])
          /\ Goto(c, "done")
          /\ UNCHANGED holder
    /\ UNCHANGED << ledgerVars, l1, outbox, inflight, raced, key, tries, answer >>

(* 3. Layer 2: a transaction row, in whatever status, is the answer. *)
FindExisting(c) ==
    /\ pc[c] = "check"
    /\ \/ /\ status[key[c]] # "NONE"
          /\ Answer(c, status[key[c]])
          /\ Goto(c, "cache")
       \/ /\ status[key[c]] = "NONE"
          /\ Goto(c, "validate")
          /\ UNCHANGED answer
       \/ /\ "db" \in faults
          /\ Throw(c)
    /\ UNCHANGED << ledgerVars, holder, l1, outbox, inflight, raced, key, tries >>

(* 4. to 6. Account and balance checks, outside any transaction. *)
Validate(c) ==
    /\ pc[c] = "validate"
    /\ \/ /\ Affordable(key[c])
          /\ Goto(c, IF key[c] \in TransferKeys THEN "open" ELSE "send")
       \/ /\ ~Affordable(key[c]) \/ "db" \in faults
          /\ Goto(c, "release")
    /\ UNCHANGED << ledgerVars, holder, l1, outbox, inflight, raced, key, tries, answer >>

(* 8. createPendingTransaction; the unique key refuses a second row. *)
OpenRow(c) ==
    /\ pc[c] = "open"
    /\ \/ OpenTransfer(key[c]) /\ Goto(c, "send")
       \/ status[key[c]] # "NONE" /\ Goto(c, "release") /\ UNCHANGED ledgerVars
       \/ /\ "db" \in faults
          /\ OpenTransfer(key[c]) \/ UNCHANGED ledgerVars
          /\ Goto(c, "release")
    /\ UNCHANGED << holder, l1, outbox, inflight, raced, key, tries, answer >>

(* Mutants: a cash operation marks a row too; a transfer leaves its row     *)
(* alone.                                                                  *)
FailureMarked(c) == "fail"
FailureThrown(c) == "release"

(* A ledger failure: a transfer marks its row, a cash operation throws. *)
FailureLabel(c) == IF key[c] \in TransferKeys THEN "fail" ELSE "release"

(* 9. One request to the ledger, unless the breaker refuses the first. *)
SendToLedger(c) ==
    /\ pc[c] = "send"
    /\ \/ /\ tries' = [tries EXCEPT ![c] = @ + 1]
          /\ inflight' = inflight \cup {<< c, tries[c] + 1 >>}
          /\ Goto(c, "await")
       \/ /\ "ledger" \in faults /\ tries[c] = 0
          /\ Goto(c, FailureLabel(c))
          /\ UNCHANGED << tries, inflight >>
    /\ UNCHANGED << ledgerVars, holder, l1, outbox, raced, key, answer >>

(* Mutant: success is assumed once the tries are used up. *)
NextTryOptimistic(c) ==
    IF key[c] \in TransferKeys /\ tries[c] < MaxAttempts THEN "send" ELSE "finalize"

(* What follows a request that was lost or answered 5xx: only transfers    *)
(* retry.                                                                  *)
NextTry(c) ==
    IF key[c] \in TransferKeys /\ tries[c] < MaxAttempts THEN "send" ELSE FailureLabel(c)

(* The call awaits this very request; an abandoned one has no listener. *)
Awaited(x) == pc[x[1]] = "await" /\ tries[x[1]] = x[2]

Reply(x, label) ==
    IF Awaited(x) THEN Goto(x[1], label) ELSE UNCHANGED pc

(***************************************************************************)
(* The ledger serves a request whenever it gets to it, also long after the *)
(* caller has given up: it posts, recognises a duplicate, refuses (4xx) a  *)
(* request it cannot afford or one whose account versions moved, or fails. *)
(***************************************************************************)
IsDuplicate(k) == status[k] = "COMPLETED" /\ HasEntries(entries, k)

(* Mutant: the retry loop goes on after a success. *)
AcceptedRetries(x) == Reply(x, NextTry(x[1]))

Accepted(x) == Reply(x, IF key[x[1]] \in TransferKeys THEN "finalize" ELSE "event")

LedgerPosts(x) ==
    /\ Post(key[x[1]])
    /\ raced' = (raced \ {x}) \cup
                {y \in inflight \ {x} : Legs(key[y[1]]) \cap Legs(key[x[1]]) # {}}
    /\ Accepted(x)

LedgerRecognises(x) ==
    /\ IsDuplicate(key[x[1]])
    /\ raced' = raced \ {x}
    /\ Accepted(x)
    /\ UNCHANGED ledgerVars

LedgerRefuses(x) ==
    /\ ~Affordable(key[x[1]]) \/ x \in raced
    /\ raced' = raced \ {x}
    /\ Reply(x, FailureLabel(x[1]))
    /\ UNCHANGED ledgerVars

LedgerFails(x) ==
    /\ "ledger" \in faults
    /\ raced' = raced \ {x}
    /\ Reply(x, NextTry(x[1]))
    /\ UNCHANGED ledgerVars

Serve(x) ==
    /\ x \in inflight
    /\ inflight' = inflight \ {x}
    /\ LedgerPosts(x) \/ LedgerRecognises(x) \/ LedgerRefuses(x) \/ LedgerFails(x)
    /\ UNCHANGED << holder, l1, outbox, key, tries, answer >>

(* The 5 s timer of a transfer, or a connection that breaks. *)
Timeout(c) ==
    /\ "timeout" \in faults
    /\ pc[c] = "await"
    /\ Goto(c, NextTry(c))
    /\ UNCHANGED << ledgerVars, holder, l1, outbox, inflight, raced, key, tries, answer >>

-----------------------------------------------------------------------------
(* Mutant: the outbox event is left out of the transaction. *)
CompleteSilently(c) ==
    /\ status' = [status EXCEPT ![key[c]] = "COMPLETED"]
    /\ UNCHANGED << balance, entries, outbox >>

(* 10. finalizeSuccessfulTransaction: status and outbox event together.    *)
Complete(c) ==
    /\ status' = [status EXCEPT ![key[c]] = "COMPLETED"]
    /\ outbox' = [outbox EXCEPT ![key[c]] = @ + 1]
    /\ UNCHANGED << balance, entries >>

Finalize(c) ==
    /\ pc[c] = "finalize"
    /\ \/ Complete(c) /\ Answer(c, "COMPLETED") /\ Goto(c, "cache")
       \/ /\ "db" \in faults
          /\ Complete(c) \/ UNCHANGED << ledgerVars, outbox >>
          /\ Goto(c, "fail")
          /\ UNCHANGED answer
    /\ UNCHANGED << holder, l1, inflight, raced, key, tries >>

(* 7. of a cash operation: an outbox write whose failure is swallowed.     *)
RecordEvent(c) ==
    /\ pc[c] = "event"
    /\ \/ outbox' = [outbox EXCEPT ![key[c]] = @ + 1]
       \/ "db" \in faults /\ UNCHANGED outbox
    /\ Answer(c, "COMPLETED")
    /\ Goto(c, "cache")
    /\ UNCHANGED << ledgerVars, holder, l1, inflight, raced, key, tries >>

(* 11. markTransactionFailed, whatever the row's status and the cause.     *)
MarkFailed(c) ==
    /\ pc[c] = "fail"
    /\ \/ status' = [status EXCEPT ![key[c]] = "FAILED"]
       \/ "db" \in faults /\ UNCHANGED status
    /\ Throw(c)
    /\ UNCHANGED << balance, entries, holder, l1, outbox, inflight, raced, key, tries >>

(* setIdempotencyRecord; an error is swallowed. *)
CacheAnswer(c) ==
    /\ pc[c] = "cache"
    /\ \/ l1' = [l1 EXCEPT ![key[c]] = answer[c]]
       \/ "redis" \in faults /\ UNCHANGED l1
    /\ Goto(c, "release")
    /\ UNCHANGED << ledgerVars, holder, outbox, inflight, raced, key, tries, answer >>

(* 12. releaseAccountLocks frees what is still this call's. *)
ReleaseLocks(c) ==
    /\ pc[c] = "release"
    /\ \/ holder' = [a \in Accounts |-> IF holder[a] = c THEN Free ELSE holder[a]]
       \/ "redis" \in faults /\ UNCHANGED holder
    /\ Goto(c, "done")
    /\ UNCHANGED << ledgerVars, l1, outbox, inflight, raced, key, tries, answer >>

-----------------------------------------------------------------------------
Crash(c) ==
    /\ "crash" \in faults
    /\ pc[c] \notin Ended
    /\ Goto(c, "crashed")
    /\ UNCHANGED << ledgerVars, holder, l1, outbox, inflight, raced, key, tries, answer >>

(* The TTL of an account lock. *)
Expire(a) ==
    /\ holder[a] # Free
    /\ "expiry" \in faults \/ pc[holder[a]] \in Ended
    /\ holder' = [holder EXCEPT ![a] = Free]
    /\ UNCHANGED << ledgerVars, l1, outbox, inflight, raced, callVars >>

(* The end of an idempotency record: its 24 h TTL, or eviction. *)
Forget(k) ==
    /\ "redis" \in faults
    /\ l1[k] # "NONE"
    /\ l1' = [l1 EXCEPT ![k] = "NONE"]
    /\ UNCHANGED << ledgerVars, holder, outbox, inflight, raced, callVars >>

Step(c) ==
    \/ LookupL1(c) \/ AcquireLocks(c) \/ FindExisting(c) \/ Validate(c)
    \/ OpenRow(c) \/ SendToLedger(c) \/ Finalize(c) \/ RecordEvent(c)
    \/ MarkFailed(c) \/ CacheAnswer(c) \/ ReleaseLocks(c)

Next ==
    /\ \/ \E c \in Calls : Step(c) \/ Timeout(c) \/ Crash(c)
       \/ \E x \in inflight : Serve(x)
       \/ \E a \in Accounts : Expire(a)
       \/ \E k \in Keys : Forget(k)
    /\ UNCHANGED faults

Spec == Init /\ [][Next]_vars

(* A call that can go on does, and a request that is awaited is served. *)
ServeAwaited(c) == \E x \in inflight : x[1] = c /\ Awaited(x) /\ Serve(x)

SagaFairness ==
    \A c \in Calls : WF_sagaVars(Step(c)) /\ WF_sagaVars(ServeAwaited(c))

-----------------------------------------------------------------------------
Postings(k, a) == Cardinality({i \in DOMAIN entries[a] : entries[a][i].key = k})

(* payment-service keeps to the part it plays in the ledger's promise: it  *)
(* opens a row once, and completes it only after the money has moved.      *)
KeepsLedgerPromise == LedgerSpec

(* Under every fault: a COMPLETED transfer has moved money and left exactly*)
(* one outbox event.                                                       *)
CompletedMeansPosted ==
    \A k \in TransferKeys :
        status[k] = "COMPLETED" => HasEntries(entries, k) /\ outbox[k] = 1

(* Under every fault: no event announces money that did not move.          *)
EventMeansMoney == \A k \in Keys : outbox[k] > 0 => HasEntries(entries, k)

(* Under every fault: a client told COMPLETED has its money moved, whether *)
(* Redis, the transaction row or the ledger gave the answer.               *)
HonestAnswer ==
    \A c \in Calls :
        pc[c] = "done" /\ answer[c] = "COMPLETED" => HasEntries(entries, key[c])

(* Whoever says that a payment is done, its row, its event or the answer   *)
(* to its client, is right.                                                *)
NothingClaimedFalsely == CompletedMeansPosted /\ EventMeansMoney /\ HonestAnswer

(* Which faults a behaviour is free of.                                    *)
Without(kinds) == faults \cap kinds = {}

(* A key moves money at most once.                                         *)
AtMostOnePosting == \A k \in Keys : \A a \in Accounts : Postings(k, a) <= 1

(* It does so if no ledger request is given up; retries, duplicates and    *)
(* abandoned requests together post a transfer at most MaxAttempts times,  *)
(* and cash once, under every fault.                                       *)
PostingsBounded ==
    /\ TypeOK
    /\ \A k \in Keys : \A a \in Accounts :
          Postings(k, a) <= IF k \in TransferKeys /\ ~Without({"timeout"})
                             THEN MaxAttempts ELSE 1

(* The locks serialise: if no lock expires under its holder, concurrent     *)
(* duplicates leave one event for a key, and the Redis record of the key,  *)
(* which answers its retries for a day, says what its transaction row says;*)
(* and if no call gives its requests or its locks up either, an account has*)
(* one ledger request at a time.                                           *)
LocksSerialise ==
    /\ Without({"expiry"}) =>
          \A k \in Keys : outbox[k] <= 1 /\ (l1[k] # "NONE" => l1[k] = status[k])
    /\ Without({"timeout", "expiry", "crash"}) =>
          \A x, y \in inflight : x # y => Legs(key[x[1]]) \cap Legs(key[y[1]]) = {}

(* A FAILED transfer has moved no money, if no request is given up and no  *)
(* statement of payment-service is lost.                                   *)
FailedMeansUnposted ==
    \A k \in TransferKeys : status[k] = "FAILED" => ~HasEntries(entries, k)

(* Once nobody works on a key, its money has moved if and only if its event*)
(* is there.                                                               *)
MoneyIsAnnounced ==
    \A k \in Keys :
        (\A c \in Calls : key[c] = k => pc[c] \in {"new", "done"})
            => (HasEntries(entries, k) <=> outbox[k] = 1)

(* The records match the money: the first if no request is given up and no *)
(* statement of payment-service is lost, the second if moreover no lock    *)
(* expires and no process dies.                                            *)
RecordsMatchMoney ==
    /\ Without({"timeout", "db"}) => FailedMeansUnposted
    /\ Without({"timeout", "expiry", "crash", "db"}) => MoneyIsAnnounced

(* Every call comes to an end, whatever fails, if its process survives; and*)
(* no transfer stays PENDING, if neither its process nor a statement of it *)
(* is lost.                                                                *)
EverythingEnds ==
    /\ \A c \in Calls : <>(pc[c] \in Ended)
    /\ Without({"crash", "db"}) =>
          \A k \in TransferKeys :
              status[k] = "PENDING" ~> status[k] \in {"COMPLETED", "FAILED"}
=============================================================================
