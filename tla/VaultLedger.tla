---------------------------- MODULE VaultLedger -----------------------------
(***************************************************************************)
(* ledger-service's LedgerRepository: the interactive PostgreSQL           *)
(* transactions behind POST /ledger/transfer, /deposit and /withdraw.      *)
(*                                                                         *)
(* Each attempt is one HTTP request to the service, served by one database *)
(* transaction at READ COMMITTED, the default nobody overrides: every      *)
(* statement sees what is committed when it runs, an UPDATE takes the row  *)
(* lock until the end of the transaction, and waits for a lock another     *)
(* attempt holds.  Writes become visible at the commit, all at once.       *)
(*                                                                         *)
(* payment-service shares the transaction table: OpenTransfer and          *)
(* CloseTransfer are its writes to Transaction.status.                     *)
(***************************************************************************)
EXTENDS LedgerRequests, FiniteSets

CONSTANTS
    Attempts,   \* requests to the ledger: first tries, retries, duplicates
    NoAttempt   \* the owner of a row lock nobody holds

ASSUME AttemptAssumption == NoAttempt \notin Attempts

VARIABLES
    account,  \* committed Account rows: balance and version
    status,   \* committed Transaction.status per idempotency key
    entries,  \* committed LedgerEntry rows per account, in commit order
    rowLock,  \* the attempt that holds the row lock of an account
    pc,       \* the statement each attempt runs next
    key,      \* the request each attempt carries
    found,    \* the status of the row its idempotency check saw
    read      \* the account rows it read, held in memory

dbVars      == << account, status, entries, rowLock >>
attemptVars == << pc, key, found, read >>
vars        == << account, status, entries, rowLock, pc, key, found, read >>

AccountRow == [balance : Int, version : Nat]

Working == {"lookup", "readSource", "readTarget", "updateSource",
            "updateTarget", "record"}
Ended   == {"posted", "duplicate", "rejected", "conflict", "aborted"}

TypeOK ==
    /\ account \in [Accounts -> AccountRow]
    /\ status  \in [Keys -> TxStatus]
    /\ entries \in [Accounts -> Seq(Entry)]
    /\ rowLock \in [Accounts -> Attempts \cup {NoAttempt}]
    /\ pc      \in [Attempts -> {"new"} \cup Working \cup Ended]
    /\ key     \in [Attempts -> Keys]
    /\ found   \in [Attempts -> TxStatus]
    /\ read    \in [Attempts -> [Accounts -> AccountRow]]

InitialAccount == [a \in Accounts |-> [balance |-> InitialBalance[a], version |-> 0]]

Init ==
    /\ account = InitialAccount
    /\ status  = [k \in Keys |-> "NONE"]
    /\ entries = [a \in Accounts |-> << >>]
    /\ rowLock = [a \in Accounts |-> NoAttempt]
    /\ pc      = [t \in Attempts |-> "new"]
    /\ key     \in [Attempts -> Keys]
    /\ found   = [t \in Attempts |-> "NONE"]
    /\ read    = [t \in Attempts |-> InitialAccount]

-----------------------------------------------------------------------------
(* The statements of one attempt. *)

Source(t) == Request[key[t]].source
Target(t) == Request[key[t]].target

Goto(t, label) == pc' = [pc EXCEPT ![t] = label]

(* Mutant: a connection goes back to the pool with its transaction open.   *)
UnlockedNever(t) == rowLock

(* The transaction ends: its row locks go back, its own writes with them.  *)
Unlocked(t) == [a \in Accounts |-> IF rowLock[a] = t THEN NoAttempt ELSE rowLock[a]]

(* Mutant: the conflict error is swallowed and the attempt reports success.*)
RollbackQuietly(t, outcome) ==
    /\ Goto(t, IF outcome = "conflict" THEN "posted" ELSE outcome)
    /\ rowLock' = Unlocked(t)
    /\ UNCHANGED << account, status, entries, key, found, read >>

(* The callback throws, and Prisma rolls the transaction back. *)
RollbackWith(t, outcome) ==
    /\ Goto(t, outcome)
    /\ rowLock' = Unlocked(t)
    /\ UNCHANGED << account, status, entries, key, found, read >>

(* The request reaches the service and its transaction begins. *)
Begin(t) ==
    /\ pc[t] = "new"
    /\ Goto(t, "lookup")
    /\ UNCHANGED << dbVars, key, found, read >>

(***************************************************************************)
(* Step 1, the idempotency check.  Only a COMPLETED row with entries is a  *)
(* duplicate; anything else is remembered in found and posted under.       *)
(***************************************************************************)
IsDuplicate(k) == status[k] = "COMPLETED" /\ HasEntries(entries, k)

Lookup(t) ==
    /\ pc[t] = "lookup"
    /\ found' = [found EXCEPT ![t] = status[key[t]]]
    /\ \/ /\ IsDuplicate(key[t])
          /\ Goto(t, "duplicate")
       \/ /\ ~IsDuplicate(key[t])
          /\ Goto(t, IF Source(t) # NoAccount THEN "readSource" ELSE "readTarget")
    /\ UNCHANGED << dbVars, key, read >>

(***************************************************************************)
(* Steps 2 and 3: read and validate each account.  The funds check uses    *)
(* the source row just read; a transfer makes it after reading the target, *)
(* which changes the error text only.                                      *)
(***************************************************************************)
(* Mutant: the funds check is left to payment-service. *)
ReadSourceUnfunded(t) ==
    /\ pc[t] = "readSource"
    /\ read' = [read EXCEPT ![t][Source(t)] = account[Source(t)]]
    /\ Goto(t, IF Target(t) # NoAccount THEN "readTarget" ELSE "updateSource")
    /\ UNCHANGED << dbVars, key, found >>

ReadSource(t) ==
    /\ pc[t] = "readSource"
    /\ \/ /\ Source(t) \in ActiveAccounts
          /\ account[Source(t)].balance >= Request[key[t]].amount
          /\ read' = [read EXCEPT ![t][Source(t)] = account[Source(t)]]
          /\ Goto(t, IF Target(t) # NoAccount THEN "readTarget" ELSE "updateSource")
          /\ UNCHANGED << dbVars, key, found >>
       \/ /\ \/ Source(t) \notin ActiveAccounts
             \/ account[Source(t)].balance < Request[key[t]].amount
          /\ RollbackWith(t, "rejected")

ReadTarget(t) ==
    /\ pc[t] = "readTarget"
    /\ \/ /\ Target(t) \in ActiveAccounts
          /\ read' = [read EXCEPT ![t][Target(t)] = account[Target(t)]]
          /\ Goto(t, IF Source(t) # NoAccount THEN "updateSource" ELSE "updateTarget")
          /\ UNCHANGED << dbVars, key, found >>
       \/ /\ Target(t) \notin ActiveAccounts
          /\ RollbackWith(t, "rejected")

(***************************************************************************)
(* Step 5: UPDATE ... WHERE version = the version read.  A row whose       *)
(* committed version moved is not counted and the callback throws; a row   *)
(* that still matches is locked, once its present holder ends.             *)
(***************************************************************************)
(* Mutant: the version predicate accepts any later version. *)
UnchangedOrLater(t, a) == account[a].version >= read[t][a].version

Unchanged(t, a) == account[a].version = read[t][a].version

LockRow(t, a, next) ==
    \/ /\ Unchanged(t, a)
       /\ rowLock[a] = NoAttempt
       /\ rowLock' = [rowLock EXCEPT ![a] = t]
       /\ Goto(t, next)
       /\ UNCHANGED << account, status, entries, key, found, read >>
    \/ /\ ~Unchanged(t, a)
       /\ RollbackWith(t, "conflict")

UpdateSource(t) ==
    /\ pc[t] = "updateSource"
    /\ LockRow(t, Source(t), IF Target(t) # NoAccount THEN "updateTarget" ELSE "record")

UpdateTarget(t) ==
    /\ pc[t] = "updateTarget"
    /\ LockRow(t, Target(t), "record")

(***************************************************************************)
(* Steps 6 and 7 and the commit.  A row that the lookup saw is reused as   *)
(* it is; otherwise one is inserted, which the unique index on the         *)
(* idempotency key refuses if another transaction committed it meanwhile.  *)
(* Inserts and commit are one step: nothing reads in between.              *)
(***************************************************************************)
NewBalance(t, a) == read[t][a].balance + Delta(key[t], a)

Post(t) ==
    LET k == key[t] IN
    /\ account' = [a \in Accounts |->
                     IF a \in Legs(k)
                     THEN [balance |-> NewBalance(t, a), version |-> account[a].version + 1]
                     ELSE account[a]]
    /\ entries' = [a \in Accounts |->
                     IF a \in Legs(k)
                     THEN Append(entries[a], EntryFor(k, a, NewBalance(t, a)))
                     ELSE entries[a]]
    /\ status' = IF found[t] = "NONE"
                 THEN [status EXCEPT ![k] = StatusOnCreate(k)]
                 ELSE status
    /\ rowLock' = Unlocked(t)
    /\ Goto(t, "posted")
    /\ UNCHANGED << key, found, read >>

(* Mutant: the idempotency key has no unique index. *)
RecordUnindexed(t) == pc[t] = "record" /\ Post(t)

Record(t) ==
    /\ pc[t] = "record"
    /\ \/ /\ found[t] = "NONE" => status[key[t]] = "NONE"
          /\ Post(t)
       \/ /\ found[t] = "NONE" /\ status[key[t]] # "NONE"
          /\ RollbackWith(t, "conflict")

(***************************************************************************)
(* The transaction is lost at any point: the service or the connection     *)
(* dies, Prisma's interactive-transaction timeout fires, or PostgreSQL     *)
(* picks it as the victim of a row-lock deadlock.                          *)
(***************************************************************************)
Abort(t) ==
    /\ pc[t] \in Working
    /\ RollbackWith(t, "aborted")

-----------------------------------------------------------------------------
(* payment-service's writes to the transaction table. *)

OpenTransfer(k) ==
    /\ k \in TransferKeys
    /\ status[k] = "NONE"
    /\ status' = [status EXCEPT ![k] = "PENDING"]
    /\ UNCHANGED << account, entries, rowLock, attemptVars >>

(* Mutant: payment-service completes a row before the ledger has posted. *)
CloseTransferEarly(k, outcome) ==
    /\ k \in TransferKeys
    /\ status[k] = "PENDING"
    /\ status' = [status EXCEPT ![k] = outcome]
    /\ UNCHANGED << account, entries, rowLock, attemptVars >>

CloseTransfer(k, outcome) ==
    /\ k \in TransferKeys
    /\ \/ status[k] = "PENDING"
       \/ status[k] = "COMPLETED" /\ outcome = "FAILED"
    /\ outcome = "COMPLETED" => HasEntries(entries, k)
    /\ status' = [status EXCEPT ![k] = outcome]
    /\ UNCHANGED << account, entries, rowLock, attemptVars >>

-----------------------------------------------------------------------------
Statement(t) ==
    \/ Lookup(t)
    \/ ReadSource(t)
    \/ ReadTarget(t)
    \/ UpdateSource(t)
    \/ UpdateTarget(t)
    \/ Record(t)

Next ==
    \/ \E t \in Attempts : Begin(t) \/ Statement(t) \/ Abort(t)
    \/ \E k \in Keys : \/ OpenTransfer(k)
                       \/ \E outcome \in {"COMPLETED", "FAILED"} : CloseTransfer(k, outcome)

Spec == Init /\ [][Next]_vars

-----------------------------------------------------------------------------
(***************************************************************************)
(* Fairness: Node keeps running the callback of a begun transaction, and   *)
(* PostgreSQL breaks a cycle of row-lock waits by aborting one of its      *)
(* members (deadlock_timeout).  No other abort is owed.                    *)
(***************************************************************************)
WantsRow(t, a) ==
    \/ pc[t] = "updateSource" /\ a = Source(t)
    \/ pc[t] = "updateTarget" /\ a = Target(t)

WaitsFor(t, u) ==
    \E a \in Accounts : WantsRow(t, a) /\ rowLock[a] = u

Deadlocked(t) ==
    \E cycle \in SUBSET Attempts :
        t \in cycle /\ \A u \in cycle : \E v \in cycle : WaitsFor(u, v)

DeadlockVictim == \E t \in Attempts : Deadlocked(t) /\ Abort(t)

FairSpec ==
    /\ Spec
    /\ \A t \in Attempts : WF_vars(Statement(t))
    /\ WF_vars(DeadlockVictim)

-----------------------------------------------------------------------------
(* No account is ever overdrawn, although the funds check reads a row that *)
(* other attempts may debit before this one updates it.                    *)
NoOverdraft == \A a \in Accounts : account[a].balance >= 0

(* No update is lost: the ledger entries of an account lead, one by one,   *)
(* from its opening balance to the balance stored in its row.              *)
SoundStatements ==
    \A a \in Accounts :
        SoundStatement(entries[a], InitialBalance[a], account[a].balance)

(* All or nothing, on both sides: every account a request touches carries  *)
(* one entry for each attempt the service answered as posted, and none for *)
(* an attempt that was rejected, lost a race or was rolled back.           *)
EntriesOf(k, a) == {i \in DOMAIN entries[a] : entries[a][i].key = k}

PostedMeansRecorded ==
    \A k \in Keys : \A a \in Accounts :
        Cardinality(EntriesOf(k, a)) =
            IF a \in Legs(k)
            THEN Cardinality({t \in Attempts : key[t] = k /\ pc[t] = "posted"})
            ELSE 0

(* A cash deposit or withdrawal is posted at most once, however many       *)
(* duplicate attempts run at the same time.                                *)
CashPostedOnce ==
    \A t, u \in Attempts :
        /\ pc[t] = "posted" /\ pc[u] = "posted"
        /\ key[t] = key[u] /\ key[t] \notin TransferKeys
        => t = u

(* Every attempt that begins ends, row-lock deadlocks included.            *)
EveryAttemptEnds == \A t \in Attempts : pc[t] = "lookup" ~> pc[t] \in Ended

(* The detailed transactions implement the atomic ledger.                  *)
Atomic == INSTANCE AtomicLedger WITH
              balance <- [a \in Accounts |-> account[a].balance]

ImplementsAtomicLedger == Atomic!LedgerSpec
=============================================================================
