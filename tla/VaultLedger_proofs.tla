------------------------- MODULE VaultLedger_proofs -------------------------
(***************************************************************************)
(* Theorems about VaultLedger, for every set of accounts, keys and         *)
(* attempts.                                                               *)
(***************************************************************************)
EXTENDS VaultLedger, FiniteSetTheorems, TLAPS

(***************************************************************************)
(* The strengthening that makes the properties inductive.                  *)
(***************************************************************************)

(* Which row locks an attempt holds is told by the statement it is at. *)
Holds(t, a) ==
    \/ a = Source(t) /\ pc[t] \in {"updateTarget", "record"}
    \/ a = Target(t) /\ pc[t] = "record"

LocksFollowPc ==
    \A t \in Attempts, a \in Accounts : rowLock[a] = t <=> Holds(t, a)

(* A statement on one side of a request runs only if it has that side. *)
SidesExist ==
    \A t \in Attempts :
        /\ pc[t] \in {"readSource", "updateSource"} => Source(t) \in Accounts
        /\ pc[t] \in {"readTarget", "updateTarget"} => Target(t) \in Accounts

(* A version identifies a balance: rows read earlier are older, or equal.  *)
SnapshotsAge ==
    \A t \in Attempts, a \in Accounts :
        /\ read[t][a].version <= account[a].version
        /\ read[t][a].version = account[a].version => read[t][a] = account[a]

(* A row that is locked is still the row that was read. *)
LockedRowsFresh ==
    \A t \in Attempts, a \in Accounts : Holds(t, a) => read[t][a] = account[a]

(* Past its read, a side was active and the source could pay. *)
SourceChecked(t) == pc[t] \in {"readTarget", "updateSource", "updateTarget", "record"}
TargetChecked(t) == pc[t] \in {"updateSource", "updateTarget", "record"}

ChecksHold ==
    \A t \in Attempts :
        /\ SourceChecked(t) /\ Source(t) # NoAccount =>
               /\ Source(t) \in ActiveAccounts
               /\ read[t][Source(t)].balance >= Request[key[t]].amount
        /\ TargetChecked(t) /\ Target(t) # NoAccount => Target(t) \in ActiveAccounts

(* A row, once seen or posted under, never disappears. *)
RowsStay ==
    \A t \in Attempts :
        found[t] # "NONE" \/ pc[t] = "posted" => status[key[t]] # "NONE"

(* A cash row exists only as COMPLETED with its entries. *)
CashRowsComplete ==
    \A k \in Keys \ TransferKeys :
        status[k] # "NONE" => status[k] = "COMPLETED" /\ HasEntries(entries, k)

CashFoundNothing ==
    \A t \in Attempts :
        /\ key[t] \notin TransferKeys
        /\ pc[t] \in Working \ {"lookup"}
        => found[t] = "NONE"

LockInv == TypeOK /\ SidesExist /\ LocksFollowPc /\ SnapshotsAge /\ LockedRowsFresh
MoneyInv == ChecksHold /\ NoOverdraft /\ SoundStatements
CashInv == RowsStay /\ CashRowsComplete /\ CashFoundNothing /\ CashPostedOnce
IInv == LockInv /\ MoneyInv /\ CashInv

-----------------------------------------------------------------------------
(* What the request validators guarantee about the request a key names. *)
LEMMA RequestFacts ==
    ASSUME NEW k \in Keys
    PROVE  /\ Request[k].amount \in Nat /\ Request[k].amount > 0
           /\ Request[k].source \in Accounts \cup {NoAccount}
           /\ Request[k].target \in Accounts \cup {NoAccount}
           /\ Request[k].source # Request[k].target
           /\ Legs(k) \subseteq Accounts
           /\ Legs(k) # {}
           /\ k \in TransferKeys => Request[k].source \in Accounts /\ Request[k].target \in Accounts
           /\ \A a \in Accounts : Delta(k, a) \in Int
  <1>1. WellFormed(Request[k])
    BY LedgerAssumption
  <1>2. Request[k].amount \in Nat /\ Request[k].amount > 0
    BY <1>1 DEF WellFormed
  <1> QED
    BY <1>1, <1>2, LedgerAssumption DEF WellFormed, Legs, Delta, TransferKeys, Kinds

(* The entry a posting writes is a ledger entry. *)
LEMMA EntryTyped ==
    ASSUME NEW k \in Keys, NEW a \in Accounts, NEW b \in Int
    PROVE  /\ EntryFor(k, a, b) \in Entry
           /\ EntryFor(k, a, b).balanceAfter = b
           /\ EntryFor(k, a, b).key = k
           /\ a \in Legs(k) => Signed(EntryFor(k, a, b)) = Delta(k, a)
  BY RequestFacts DEF EntryFor, Entry, Signed, Delta

-----------------------------------------------------------------------------
(* Every action keeps the variables in their types. *)
LEMMA TypeInit == Init => TypeOK
  BY LedgerAssumption DEF Init, TypeOK, InitialAccount, AccountRow, TxStatus

LEMMA RollbackTyped ==
    ASSUME TypeOK, NEW t \in Attempts, NEW outcome \in Ended, RollbackWith(t, outcome)
    PROVE  TypeOK'
  BY DEF TypeOK, RollbackWith, Goto, Unlocked

(* Remembering one more row that was read. *)
LEMMA ReadTyped ==
    ASSUME TypeOK, NEW t \in Attempts, NEW a \in Accounts
    PROVE  [read EXCEPT ![t][a] = account[a]] \in [Attempts -> [Accounts -> AccountRow]]
  <1> DEFINE row == account[a]
  <1>1. row \in AccountRow /\ read \in [Attempts -> [Accounts -> AccountRow]]
    BY DEF TypeOK
  <1>2. [read[t] EXCEPT ![a] = row] \in [Accounts -> AccountRow]
    BY <1>1
  <1> HIDE DEF row
  <1>3. [read EXCEPT ![t][a] = row] \in [Attempts -> [Accounts -> AccountRow]]
    BY <1>1, <1>2
  <1> QED
    BY <1>3 DEF row

LEMMA PostTyped ==
    ASSUME TypeOK, NEW t \in Attempts, Post(t)
    PROVE  TypeOK'
  <1> DEFINE k == key[t]
  <1>1. k \in Keys
    BY DEF TypeOK
  <1>2. \A a \in Accounts : NewBalance(t, a) \in Int
    BY <1>1, RequestFacts DEF TypeOK, AccountRow, NewBalance
  <1>3. account' \in [Accounts -> AccountRow]
    BY <1>2 DEF Post, TypeOK, AccountRow
  <1>4. \A a \in Accounts : EntryFor(k, a, NewBalance(t, a)) \in Entry
    BY <1>1, <1>2, EntryTyped
  <1>5. entries' \in [Accounts -> Seq(Entry)]
    BY <1>4 DEF Post, TypeOK
  <1>6. status' \in [Keys -> TxStatus]
    BY <1>1 DEF Post, TypeOK, StatusOnCreate, TxStatus
  <1>7. rowLock' \in [Accounts -> Attempts \cup {NoAttempt}] /\ pc' \in [Attempts -> {"new"} \cup Working \cup Ended]
    BY DEF Post, TypeOK, Unlocked, Goto, Ended
  <1> QED
    BY <1>3, <1>5, <1>6, <1>7 DEF Post, TypeOK

LEMMA TypeStep == TypeOK /\ [Next]_vars => TypeOK'
  <1> SUFFICES ASSUME TypeOK, [Next]_vars PROVE TypeOK'
    OBVIOUS
  <1>1. ASSUME NEW t \in Attempts, Begin(t) PROVE TypeOK'
    BY <1>1 DEF TypeOK, Begin, Goto, dbVars, Working
  <1>2. ASSUME NEW t \in Attempts, Lookup(t) PROVE TypeOK'
    BY <1>2 DEF TypeOK, Lookup, Goto, dbVars, Working, Ended
  <1>3. ASSUME NEW t \in Attempts, ReadSource(t) PROVE TypeOK'
    <2>1. CASE RollbackWith(t, "rejected")
      BY <2>1, RollbackTyped DEF Ended
    <2>2. CASE ~RollbackWith(t, "rejected")
      <3>1. Source(t) \in Accounts
        BY <1>3, <2>2, LedgerAssumption DEF ReadSource
      <3>2. read' = [read EXCEPT ![t][Source(t)] = account[Source(t)]]
        BY <1>3, <2>2 DEF ReadSource
      <3>3. read' \in [Attempts -> [Accounts -> AccountRow]]
        BY <3>1, <3>2, ReadTyped
      <3>4. pc' \in [Attempts -> {"new"} \cup Working \cup Ended]
        BY <1>3, <2>2 DEF TypeOK, ReadSource, Goto, Working
      <3> QED
        BY <1>3, <2>2, <3>3, <3>4 DEF TypeOK, ReadSource, dbVars
    <2> QED
      BY <2>1, <2>2
  <1>4. ASSUME NEW t \in Attempts, ReadTarget(t) PROVE TypeOK'
    <2>1. CASE RollbackWith(t, "rejected")
      BY <2>1, RollbackTyped DEF Ended
    <2>2. CASE ~RollbackWith(t, "rejected")
      <3>1. Target(t) \in Accounts
        BY <1>4, <2>2, LedgerAssumption DEF ReadTarget
      <3>2. read' = [read EXCEPT ![t][Target(t)] = account[Target(t)]]
        BY <1>4, <2>2 DEF ReadTarget
      <3>3. read' \in [Attempts -> [Accounts -> AccountRow]]
        BY <3>1, <3>2, ReadTyped
      <3>4. pc' \in [Attempts -> {"new"} \cup Working \cup Ended]
        BY <1>4, <2>2 DEF TypeOK, ReadTarget, Goto, Working
      <3> QED
        BY <1>4, <2>2, <3>3, <3>4 DEF TypeOK, ReadTarget, dbVars
    <2> QED
      BY <2>1, <2>2
  <1>5. ASSUME NEW t \in Attempts, UpdateSource(t) \/ UpdateTarget(t) PROVE TypeOK'
    <2>1. CASE RollbackWith(t, "conflict")
      BY <2>1, RollbackTyped DEF Ended
    <2>2. CASE ~RollbackWith(t, "conflict")
      BY <1>5, <2>2 DEF TypeOK, UpdateSource, UpdateTarget, LockRow, Goto, Working
    <2> QED
      BY <2>1, <2>2
  <1>6. ASSUME NEW t \in Attempts, Record(t) PROVE TypeOK'
    BY <1>6, PostTyped, RollbackTyped DEF Record, Ended
  <1>7. ASSUME NEW t \in Attempts, Abort(t) PROVE TypeOK'
    BY <1>7, RollbackTyped DEF Abort, Ended
  <1>8. ASSUME NEW k \in Keys, OpenTransfer(k) PROVE TypeOK'
    BY <1>8 DEF TypeOK, OpenTransfer, attemptVars, TxStatus
  <1>9. ASSUME NEW k \in Keys, NEW outcome \in {"COMPLETED", "FAILED"}, CloseTransfer(k, outcome)
        PROVE TypeOK'
    BY <1>9 DEF TypeOK, CloseTransfer, attemptVars, TxStatus
  <1>10. CASE UNCHANGED vars
    BY <1>10 DEF TypeOK, vars
  <1> QED
    BY <1>1, <1>2, <1>3, <1>4, <1>5, <1>6, <1>7, <1>8, <1>9, <1>10 DEF Next, Statement

(* The variables of the ledger service keep their types. *)
THEOREM TypeCorrect == Spec => []TypeOK
  BY TypeInit, TypeStep, PTL DEF Spec

-----------------------------------------------------------------------------
(* Row locks and the rows they protect. *)
LEMMA LockInit == Init => LockInv
  <1> SUFFICES ASSUME Init PROVE LockInv
    OBVIOUS
  <1>1. TypeOK
    BY TypeInit
  <1>2. SidesExist /\ LocksFollowPc /\ SnapshotsAge /\ LockedRowsFresh
    BY <1>1, AttemptAssumption
    DEF Init, TypeOK, InitialAccount, AccountRow, SidesExist, LocksFollowPc,
        SnapshotsAge, LockedRowsFresh, Holds
  <1> QED
    BY <1>1, <1>2 DEF LockInv

LEMMA RollbackLocks ==
    ASSUME LockInv, NEW t \in Attempts, NEW outcome \in Ended, RollbackWith(t, outcome)
    PROVE  LockInv'
  <1> USE DEF Ended
  <1>1. TypeOK'
    BY RollbackTyped DEF LockInv
  <1>2. SidesExist'
    BY DEF LockInv, TypeOK, SidesExist, RollbackWith, Goto, Source, Target
  <1>3. \A u \in Attempts, a \in Accounts : Holds(u, a)' <=> u # t /\ Holds(u, a)
    BY DEF LockInv, TypeOK, RollbackWith, Goto, Source, Target, Holds
  <1>4. LocksFollowPc'
    BY <1>3, AttemptAssumption DEF LockInv, TypeOK, LocksFollowPc, RollbackWith, Unlocked
  <1>5. SnapshotsAge' /\ LockedRowsFresh'
    BY <1>3 DEF LockInv, SnapshotsAge, LockedRowsFresh, RollbackWith
  <1> QED
    BY <1>1, <1>2, <1>4, <1>5 DEF LockInv

(* Reading remembers the committed row, so the snapshot is as new as can be. *)
LEMMA ReadLocks ==
    ASSUME LockInv, TypeOK', NEW t \in Attempts, NEW a \in Accounts,
           pc[t] \in {"readSource", "readTarget"},
           pc' = [pc EXCEPT ![t] = pc'[t]],
           pc'[t] \in {"readTarget", "updateSource", "updateTarget"},
           pc'[t] = "updateTarget" => Source(t) = NoAccount,
           SidesExist',
           read' = [read EXCEPT ![t][a] = account[a]],
           UNCHANGED << account, rowLock, key >>
    PROVE  LockInv'
  <1>1. \A u \in Attempts, b \in Accounts : Holds(u, b)' <=> Holds(u, b)
    BY LedgerAssumption DEF LockInv, TypeOK, Source, Target, Holds
  <1>2. LocksFollowPc'
    BY <1>1 DEF LockInv, LocksFollowPc
  <1>3. \A u \in Attempts, b \in Accounts :
           read'[u][b] = IF u = t /\ b = a THEN account[b] ELSE read[u][b]
    BY DEF LockInv, TypeOK
  <1>4. SnapshotsAge'
    BY <1>3 DEF LockInv, TypeOK, AccountRow, SnapshotsAge
  <1>5. LockedRowsFresh'
    BY <1>1, <1>3 DEF LockInv, LockedRowsFresh
  <1> QED
    BY <1>2, <1>4, <1>5 DEF LockInv

(* Locking a row whose version is unchanged: what was read is still there. *)
LEMMA LockRowLocks ==
    ASSUME LockInv, TypeOK', NEW t \in Attempts,
           UpdateSource(t) \/ UpdateTarget(t), ~RollbackWith(t, "conflict")
    PROVE  LockInv'
  <1>1. PICK a \in Accounts :
           /\ \/ pc[t] = "updateSource" /\ a = Source(t)
              \/ pc[t] = "updateTarget" /\ a = Target(t)
           /\ Unchanged(t, a)
           /\ rowLock[a] = NoAttempt
           /\ rowLock' = [rowLock EXCEPT ![a] = t]
           /\ UNCHANGED << account, key, read >>
    BY DEF LockInv, SidesExist, UpdateSource, UpdateTarget, LockRow
  <1>2. /\ pc[t] = "updateSource" => \/ Target(t) # NoAccount /\ pc' = [pc EXCEPT ![t] = "updateTarget"]
                                     \/ Target(t) = NoAccount /\ pc' = [pc EXCEPT ![t] = "record"]
        /\ pc[t] = "updateTarget" => pc' = [pc EXCEPT ![t] = "record"]
    BY DEF UpdateSource, UpdateTarget, LockRow, Goto
  <1>3. key[t] \in Keys
    BY DEF LockInv, TypeOK
  <1>4. Source(t) \in Accounts \cup {NoAccount} /\ Target(t) \in Accounts \cup {NoAccount}
        /\ Source(t) # Target(t)
    BY <1>3, RequestFacts DEF Source, Target
  <1>5. SidesExist'
    BY <1>1, <1>2, <1>4 DEF LockInv, TypeOK, SidesExist, Source, Target
  <1>6. \A u \in Attempts, b \in Accounts : Holds(u, b)' <=> Holds(u, b) \/ (u = t /\ b = a)
    BY <1>1, <1>2, <1>4, LedgerAssumption DEF LockInv, TypeOK, Source, Target, Holds
  <1>7. LocksFollowPc'
    BY <1>1, <1>6, AttemptAssumption DEF LockInv, TypeOK, LocksFollowPc
  <1>8. SnapshotsAge'
    BY <1>1 DEF LockInv, SnapshotsAge
  <1>9. LockedRowsFresh'
    BY <1>1, <1>6 DEF LockInv, SnapshotsAge, LockedRowsFresh, Unchanged
  <1> QED
    BY <1>5, <1>7, <1>8, <1>9 DEF LockInv

(* A posting moves the rows its attempt holds, and nobody else's. *)
LEMMA PostLocks ==
    ASSUME LockInv, NEW t \in Attempts, pc[t] = "record", Post(t)
    PROVE  LockInv'
  <1>1. TypeOK'
    BY PostTyped DEF LockInv
  <1>2. SidesExist'
    BY DEF LockInv, TypeOK, SidesExist, Post, Goto, Source, Target
  <1>3. \A u \in Attempts, a \in Accounts : Holds(u, a)' <=> u # t /\ Holds(u, a)
    BY DEF LockInv, TypeOK, Post, Goto, Source, Target, Holds
  <1>4. LocksFollowPc'
    BY <1>3, AttemptAssumption DEF LockInv, TypeOK, LocksFollowPc, Post, Unlocked
  <1>5. \A a \in Accounts : a \in Legs(key[t]) => Holds(t, a)
    BY DEF Holds, Legs, Source, Target
  <1>6. \A a \in Accounts : \/ a \in Legs(key[t]) /\ account'[a].version = account[a].version + 1
                           \/ account'[a] = account[a]
    BY DEF Post, LockInv, TypeOK
  <1>7. SnapshotsAge'
    <2> SUFFICES ASSUME NEW u \in Attempts, NEW a \in Accounts
                 PROVE  /\ read[u][a].version <= account'[a].version
                        /\ read[u][a].version = account'[a].version => read[u][a] = account'[a]
      BY DEF SnapshotsAge, Post
    <2>1. read[u][a] \in AccountRow /\ account[a] \in AccountRow
      BY DEF LockInv, TypeOK
    <2> QED
      BY <1>6, <2>1 DEF LockInv, SnapshotsAge, AccountRow
  <1>8. LockedRowsFresh'
    <2> SUFFICES ASSUME NEW u \in Attempts, NEW a \in Accounts, u # t, Holds(u, a)
                 PROVE  read[u][a] = account'[a]
      BY <1>3 DEF LockedRowsFresh, Post
    <2>1. ~Holds(t, a)
      BY DEF LockInv, LocksFollowPc
    <2> QED
      BY <1>5, <1>6, <2>1 DEF LockInv, LockedRowsFresh
  <1> QED
    BY <1>1, <1>2, <1>4, <1>7, <1>8 DEF LockInv

LEMMA LockStep == LockInv /\ [Next]_vars => LockInv'
  <1> SUFFICES ASSUME LockInv, [Next]_vars PROVE LockInv'
    OBVIOUS
  <1>T. TypeOK'
    BY TypeStep DEF LockInv
  <1>1. ASSUME NEW t \in Attempts, Begin(t) \/ Lookup(t) PROVE LockInv'
    <2>1. /\ UNCHANGED << account, rowLock, key, read >>
          /\ pc[t] \in {"new", "lookup"}
          /\ pc' = [pc EXCEPT ![t] = pc'[t]]
          /\ pc'[t] \in {"lookup", "duplicate", "readSource", "readTarget"}
          /\ pc'[t] = "readSource" => Source(t) # NoAccount
          /\ pc'[t] = "readTarget" => Source(t) = NoAccount
      BY <1>1 DEF LockInv, TypeOK, Begin, Lookup, Goto, dbVars
    <2>2. \A u \in Attempts, a \in Accounts : Holds(u, a)' <=> Holds(u, a)
      BY <2>1 DEF LockInv, TypeOK, Source, Target, Holds
    <2>3. key[t] \in Keys
      BY DEF LockInv, TypeOK
    <2>4. SidesExist'
      BY <2>1, <2>3, RequestFacts DEF LockInv, TypeOK, SidesExist, Source, Target
    <2> QED
      BY <1>T, <2>1, <2>2, <2>4 DEF LockInv, LocksFollowPc, SnapshotsAge, LockedRowsFresh
  <1>2. ASSUME NEW t \in Attempts, ReadSource(t) PROVE LockInv'
    <2>1. CASE RollbackWith(t, "rejected")
      BY <2>1, RollbackLocks DEF Ended
    <2>2. CASE ~RollbackWith(t, "rejected")
      <3>1. /\ pc[t] = "readSource"
            /\ read' = [read EXCEPT ![t][Source(t)] = account[Source(t)]]
            /\ \/ Target(t) # NoAccount /\ pc' = [pc EXCEPT ![t] = "readTarget"]
               \/ Target(t) = NoAccount /\ pc' = [pc EXCEPT ![t] = "updateSource"]
            /\ UNCHANGED << account, rowLock, key >>
        BY <1>2, <2>2 DEF ReadSource, Goto, dbVars
      <3>2. Source(t) \in Accounts
        BY <3>1 DEF LockInv, SidesExist
      <3>3. key[t] \in Keys
        BY DEF LockInv, TypeOK
      <3>4. SidesExist'
        BY <3>1, <3>2, <3>3, RequestFacts DEF LockInv, TypeOK, SidesExist, Source, Target
      <3> QED
        BY <1>T, <3>1, <3>2, <3>4, ReadLocks DEF LockInv, TypeOK
    <2> QED
      BY <2>1, <2>2
  <1>3. ASSUME NEW t \in Attempts, ReadTarget(t) PROVE LockInv'
    <2>1. CASE RollbackWith(t, "rejected")
      BY <2>1, RollbackLocks DEF Ended
    <2>2. CASE ~RollbackWith(t, "rejected")
      <3>1. /\ pc[t] = "readTarget"
            /\ read' = [read EXCEPT ![t][Target(t)] = account[Target(t)]]
            /\ \/ Source(t) # NoAccount /\ pc' = [pc EXCEPT ![t] = "updateSource"]
               \/ Source(t) = NoAccount /\ pc' = [pc EXCEPT ![t] = "updateTarget"]
            /\ UNCHANGED << account, rowLock, key >>
        BY <1>3, <2>2 DEF ReadTarget, Goto, dbVars
      <3>2. Target(t) \in Accounts
        BY <3>1 DEF LockInv, SidesExist
      <3>3. key[t] \in Keys
        BY DEF LockInv, TypeOK
      <3>4. SidesExist'
        BY <3>1, <3>2, <3>3, RequestFacts DEF LockInv, TypeOK, SidesExist, Source, Target
      <3> QED
        BY <1>T, <3>1, <3>2, <3>4, ReadLocks DEF LockInv, TypeOK
    <2> QED
      BY <2>1, <2>2
  <1>4. ASSUME NEW t \in Attempts, UpdateSource(t) \/ UpdateTarget(t) PROVE LockInv'
    BY <1>4, <1>T, LockRowLocks, RollbackLocks DEF Ended
  <1>5. ASSUME NEW t \in Attempts, Record(t) PROVE LockInv'
    BY <1>5, PostLocks, RollbackLocks DEF Record, Ended
  <1>6. ASSUME NEW t \in Attempts, Abort(t) PROVE LockInv'
    BY <1>6, RollbackLocks DEF Abort, Ended
  <1>7. CASE UNCHANGED << account, rowLock, pc, key, read >>
    BY <1>T, <1>7 DEF LockInv, SidesExist, LocksFollowPc, SnapshotsAge, LockedRowsFresh,
                      Holds, Source, Target
  <1>8. ASSUME NEW k \in Keys,
               OpenTransfer(k) \/ \E outcome \in {"COMPLETED", "FAILED"} : CloseTransfer(k, outcome)
        PROVE  LockInv'
    BY <1>7, <1>8 DEF OpenTransfer, CloseTransfer, attemptVars
  <1>9. CASE UNCHANGED vars
    BY <1>7, <1>9 DEF vars
  <1> QED
    BY <1>1, <1>2, <1>3, <1>4, <1>5, <1>6, <1>8, <1>9 DEF Next, Statement

-----------------------------------------------------------------------------
(* Balances and statements. *)

(* A statement stays sound when an entry that moves its balance is added. *)
LEMMA AppendSound ==
    ASSUME NEW stmt \in Seq(Entry), NEW opening \in Int, NEW current \in Int,
           NEW e \in Entry, e.balanceAfter = current + Signed(e),
           SoundStatement(stmt, opening, current)
    PROVE  SoundStatement(Append(stmt, e), opening, e.balanceAfter)
  <1> DEFINE next == Append(stmt, e)
  <1>1. Len(next) = Len(stmt) + 1 /\ Len(stmt) \in Nat /\ next # << >>
    OBVIOUS
  <1>2. \A i \in 1..Len(stmt) : next[i] = stmt[i]
    OBVIOUS
  <1>3. next[Len(next)] = e
    OBVIOUS
  <1>4. ASSUME NEW i \in 1..Len(next)
        PROVE  next[i].balanceAfter = BalanceBefore(next, opening, i) + Signed(next[i])
    <2>1. CASE i \in 1..Len(stmt)
      BY <1>2, <2>1 DEF SoundStatement, BalanceBefore
    <2>2. CASE i = Len(stmt) + 1
      <3>1. BalanceBefore(next, opening, i) = current
        BY <1>1, <1>2, <2>2 DEF SoundStatement, BalanceBefore
      <3> QED
        BY <1>1, <1>3, <2>2, <3>1
    <2> QED
      BY <1>1, <2>1, <2>2
  <1> QED
    BY <1>1, <1>3, <1>4 DEF SoundStatement

LEMMA MoneyInit == Init => MoneyInv
  BY LedgerAssumption
  DEF Init, InitialAccount, MoneyInv, ChecksHold, SourceChecked, TargetChecked,
      NoOverdraft, SoundStatements, SoundStatement

(* Steps that leave the tables of the ledger alone. *)
LEMMA TablesUnchanged ==
    ASSUME MoneyInv, ChecksHold', UNCHANGED << account, entries >>
    PROVE  MoneyInv'
  BY DEF MoneyInv, NoOverdraft, SoundStatements

LEMMA RollbackMoney ==
    ASSUME LockInv, MoneyInv, NEW t \in Attempts, NEW outcome \in Ended, RollbackWith(t, outcome)
    PROVE  MoneyInv'
  <1>1. ChecksHold'
    BY DEF LockInv, TypeOK, MoneyInv, ChecksHold, SourceChecked, TargetChecked,
           RollbackWith, Goto, Source, Target, Ended
  <1> QED
    BY <1>1, TablesUnchanged DEF RollbackWith

(* The rows a posting moves are the rows its attempt read and locked, so   *)
(* the balances it writes are the committed ones moved by its amount.      *)
LEMMA PostMoves ==
    ASSUME LockInv, MoneyInv, NEW t \in Attempts, pc[t] = "record",
           NEW a \in Accounts, a \in Legs(key[t])
    PROVE  /\ NewBalance(t, a) = account[a].balance + Delta(key[t], a)
           /\ NewBalance(t, a) \in Nat
           /\ a \in ActiveAccounts
           /\ a = Source(t) => account[a].balance >= Request[key[t]].amount
  <1>1. read[t][a] = account[a] /\ account[a].balance \in Int
    BY DEF LockInv, LockedRowsFresh, Holds, Legs, Source, Target, TypeOK, AccountRow
  <1>2. key[t] \in Keys
    BY DEF LockInv, TypeOK
  <1>3. a \in ActiveAccounts /\ (a = Source(t) => account[a].balance >= Request[key[t]].amount)
    BY <1>1, LedgerAssumption
    DEF MoneyInv, ChecksHold, SourceChecked, TargetChecked, Legs, Source, Target
  <1>4. account[a].balance >= 0
    BY DEF MoneyInv, NoOverdraft
  <1> QED
    BY <1>1, <1>2, <1>3, <1>4, RequestFacts DEF NewBalance, Delta, Source

LEMMA PostMoney ==
    ASSUME LockInv, MoneyInv, NEW t \in Attempts, pc[t] = "record", Post(t)
    PROVE  MoneyInv'
  <1>1. ChecksHold'
    BY DEF LockInv, TypeOK, MoneyInv, ChecksHold, SourceChecked, TargetChecked,
           Post, Goto, Source, Target
  <1>2. key[t] \in Keys
    BY DEF LockInv, TypeOK
  <1>3. ASSUME NEW a \in Accounts
        PROVE  /\ account'[a].balance >= 0
               /\ SoundStatement(entries'[a], InitialBalance[a], account'[a].balance)
    <2>1. CASE a \notin Legs(key[t])
      BY <2>1 DEF Post, MoneyInv, NoOverdraft, SoundStatements
    <2>2. CASE a \in Legs(key[t])
      <3> DEFINE e == EntryFor(key[t], a, NewBalance(t, a))
      <3>1. /\ NewBalance(t, a) = account[a].balance + Delta(key[t], a)
            /\ NewBalance(t, a) \in Nat
        BY <2>2, PostMoves
      <3>2. /\ account'[a].balance = NewBalance(t, a)
            /\ entries'[a] = Append(entries[a], e)
        BY <2>2 DEF Post
      <3>3. /\ e \in Entry
            /\ e.balanceAfter = NewBalance(t, a)
            /\ Signed(e) = Delta(key[t], a)
        BY <1>2, <2>2, <3>1, EntryTyped
      <3>4. /\ entries[a] \in Seq(Entry)
            /\ account[a].balance \in Int
            /\ InitialBalance[a] \in Int
            /\ SoundStatement(entries[a], InitialBalance[a], account[a].balance)
        BY LedgerAssumption DEF LockInv, TypeOK, AccountRow, MoneyInv, SoundStatements
      <3> HIDE DEF e
      <3>5. SoundStatement(Append(entries[a], e), InitialBalance[a], e.balanceAfter)
        BY <3>1, <3>3, <3>4, AppendSound
      <3> QED
        BY <3>1, <3>2, <3>3, <3>5
    <2> QED
      BY <2>1, <2>2
  <1> QED
    BY <1>1, <1>3 DEF MoneyInv, NoOverdraft, SoundStatements

LEMMA MoneyStep == LockInv /\ MoneyInv /\ [Next]_vars => MoneyInv'
  <1> SUFFICES ASSUME LockInv, MoneyInv, [Next]_vars PROVE MoneyInv'
    OBVIOUS
  <1> USE TablesUnchanged DEF ChecksHold, SourceChecked, TargetChecked, Source, Target
  <1>1. ASSUME NEW t \in Attempts, Begin(t) \/ Lookup(t) PROVE MoneyInv'
    <2>1. /\ UNCHANGED << account, entries, read, key >>
          /\ pc' = [pc EXCEPT ![t] = pc'[t]]
          /\ pc'[t] \in {"lookup", "duplicate", "readSource", "readTarget"}
          /\ pc'[t] = "readTarget" => Source(t) = NoAccount
      BY <1>1 DEF LockInv, TypeOK, Begin, Lookup, Goto, dbVars
    <2>2. ChecksHold'
      BY <2>1 DEF MoneyInv, LockInv, TypeOK
    <2> QED
      BY <2>1, <2>2
  <1>2. ASSUME NEW t \in Attempts, ReadSource(t) PROVE MoneyInv'
    <2>1. CASE RollbackWith(t, "rejected")
      BY <2>1, RollbackMoney DEF Ended
    <2>2. CASE ~RollbackWith(t, "rejected")
      <3>1. ChecksHold'
        <4>1. /\ Source(t) \in ActiveAccounts
              /\ account[Source(t)].balance >= Request[key[t]].amount
              /\ read' = [read EXCEPT ![t][Source(t)] = account[Source(t)]]
              /\ \/ Target(t) # NoAccount /\ pc' = [pc EXCEPT ![t] = "readTarget"]
                 \/ Target(t) = NoAccount /\ pc' = [pc EXCEPT ![t] = "updateSource"]
              /\ UNCHANGED << account, key >>
          BY <1>2, <2>2 DEF ReadSource, Goto, dbVars
        <4>2. Source(t) \in Accounts
          BY <4>1, LedgerAssumption
        <4> QED
          BY <4>1, <4>2, LedgerAssumption DEF MoneyInv, LockInv, TypeOK
      <3> QED
        BY <1>2, <2>2, <3>1 DEF ReadSource, dbVars
    <2> QED
      BY <2>1, <2>2
  <1>3. ASSUME NEW t \in Attempts, ReadTarget(t) PROVE MoneyInv'
    <2>1. CASE RollbackWith(t, "rejected")
      BY <2>1, RollbackMoney DEF Ended
    <2>2. CASE ~RollbackWith(t, "rejected")
      <3>1. ChecksHold'
        <4>1. /\ pc[t] = "readTarget"
              /\ Target(t) \in ActiveAccounts
              /\ read' = [read EXCEPT ![t][Target(t)] = account[Target(t)]]
              /\ \/ Source(t) # NoAccount /\ pc' = [pc EXCEPT ![t] = "updateSource"]
                 \/ Source(t) = NoAccount /\ pc' = [pc EXCEPT ![t] = "updateTarget"]
              /\ UNCHANGED << account, key >>
          BY <1>3, <2>2 DEF ReadTarget, Goto, dbVars
        <4>2. Target(t) \in Accounts /\ key[t] \in Keys
          BY <4>1, LedgerAssumption DEF LockInv, TypeOK
        <4>3. Source(t) # Target(t) /\ Source(t) \in Accounts \cup {NoAccount}
          BY <4>2, RequestFacts
        <4> QED
          BY <4>1, <4>2, <4>3, LedgerAssumption DEF MoneyInv, LockInv, TypeOK
      <3> QED
        BY <1>3, <2>2, <3>1 DEF ReadTarget, dbVars
    <2> QED
      BY <2>1, <2>2
  <1>4. ASSUME NEW t \in Attempts, UpdateSource(t) \/ UpdateTarget(t) PROVE MoneyInv'
    <2>1. CASE RollbackWith(t, "conflict")
      BY <2>1, RollbackMoney DEF Ended
    <2>2. CASE ~RollbackWith(t, "conflict")
      <3>1. ChecksHold'
        BY <1>4, <2>2 DEF UpdateSource, UpdateTarget, LockRow, Goto, MoneyInv, LockInv, TypeOK
      <3> QED
        BY <1>4, <2>2, <3>1 DEF UpdateSource, UpdateTarget, LockRow
    <2> QED
      BY <2>1, <2>2
  <1>5. ASSUME NEW t \in Attempts, Record(t) PROVE MoneyInv'
    BY <1>5, PostMoney, RollbackMoney DEF Record, Ended
  <1>6. ASSUME NEW t \in Attempts, Abort(t) PROVE MoneyInv'
    BY <1>6, RollbackMoney DEF Abort, Ended
  <1>7. CASE UNCHANGED << account, entries, pc, key, read >>
    BY <1>7 DEF MoneyInv
  <1>8. ASSUME NEW k \in Keys,
               OpenTransfer(k) \/ \E outcome \in {"COMPLETED", "FAILED"} : CloseTransfer(k, outcome)
        PROVE  MoneyInv'
    BY <1>7, <1>8 DEF OpenTransfer, CloseTransfer, attemptVars
  <1>9. CASE UNCHANGED vars
    BY <1>7, <1>9 DEF vars
  <1> QED
    BY <1>1, <1>2, <1>3, <1>4, <1>5, <1>6, <1>8, <1>9 DEF Next, Statement

(* No interleaving of transfers, deposits and withdrawals overdraws an     *)
(* account.                                                                *)
THEOREM NeverOverdrawn == Spec => []NoOverdraft
  <1>1. LockInv /\ MoneyInv => NoOverdraft
    BY DEF MoneyInv
  <1> QED
    BY <1>1, LockInit, LockStep, MoneyInit, MoneyStep, PTL DEF Spec

(* No balance update is ever lost: the entries of an account always lead   *)
(* from its opening balance to the stored one.                             *)
THEOREM StatementsAlwaysSound == Spec => []SoundStatements
  <1>1. LockInv /\ MoneyInv => SoundStatements
    BY DEF MoneyInv
  <1> QED
    BY <1>1, LockInit, LockStep, MoneyInit, MoneyStep, PTL DEF Spec

-----------------------------------------------------------------------------
(* Cash keys: deposits and withdrawals. *)

(* Ledger entries are only ever added. *)
LEMMA EntriesGrow ==
    ASSUME LockInv, [Next]_vars, NEW k \in Keys, HasEntries(entries, k)
    PROVE  HasEntries(entries, k)'
  <1>0. PICK a \in Accounts : \E i \in DOMAIN entries[a] : entries[a][i].key = k
    BY DEF HasEntries
  <1>1. PICK i \in DOMAIN entries[a] : entries[a][i].key = k
    BY <1>0
  <1>2. entries[a] \in Seq(Entry)
    BY DEF LockInv, TypeOK
  <1>3. CASE entries' = entries
    BY <1>3 DEF HasEntries
  <1>4. CASE \E t \in Attempts : Post(t)
    <2>1. PICK t \in Attempts : Post(t)
      BY <1>4
    <2>2. \/ entries'[a] = entries[a]
          \/ \E e : entries'[a] = Append(entries[a], e)
      BY <2>1 DEF Post
    <2>3. i \in DOMAIN entries'[a] /\ entries'[a][i] = entries[a][i]
      BY <1>2, <2>2
    <2> QED
      BY <1>1, <2>3 DEF HasEntries
  <1>5. entries' = entries \/ \E t \in Attempts : Post(t)
    BY DEF Next, Statement, Begin, Lookup, ReadSource, ReadTarget, UpdateSource, UpdateTarget,
           LockRow, Record, Abort, RollbackWith, OpenTransfer, CloseTransfer, dbVars, vars
  <1> QED
    BY <1>3, <1>4, <1>5

LEMMA PostHasEntries ==
    ASSUME LockInv, NEW t \in Attempts, Post(t)
    PROVE  HasEntries(entries, key[t])'
  <1>1. key[t] \in Keys
    BY DEF LockInv, TypeOK
  <1>2. PICK a \in Accounts : a \in Legs(key[t])
    BY <1>1, RequestFacts
  <1> DEFINE e == EntryFor(key[t], a, NewBalance(t, a))
  <1>3. entries'[a] = Append(entries[a], e) /\ entries[a] \in Seq(Entry)
    BY <1>2 DEF Post, LockInv, TypeOK
  <1>4. e.key = key[t]
    BY DEF EntryFor
  <1> HIDE DEF e
  <1>5. Len(entries[a]) + 1 \in DOMAIN entries'[a] /\ entries'[a][Len(entries[a]) + 1] = e
    BY <1>3
  <1>6. key' = key
    BY DEF Post
  <1> QED
    BY <1>4, <1>5, <1>6 DEF HasEntries

LEMMA CashInit == Init => CashInv
  BY DEF Init, CashInv, RowsStay, CashRowsComplete, CashFoundNothing, CashPostedOnce, Working

(* Steps that neither write a transaction row nor end as posted. *)
LEMMA QuietCash ==
    ASSUME LockInv, CashInv, UNCHANGED << status, entries, key >>, CashFoundNothing',
           \A t \in Attempts : pc'[t] = "posted" => pc[t] = "posted",
           \A t \in Attempts : found'[t] # found[t] => found'[t] = status[key[t]]
    PROVE  CashInv'
  <1>1. RowsStay'
    BY DEF LockInv, TypeOK, CashInv, RowsStay
  <1>2. CashRowsComplete'
    BY DEF CashInv, CashRowsComplete
  <1>3. CashPostedOnce'
    BY DEF CashInv, CashPostedOnce
  <1> QED
    BY <1>1, <1>2, <1>3 DEF CashInv

LEMMA PostCash ==
    ASSUME LockInv, CashInv, NEW t \in Attempts, pc[t] = "record",
           found[t] = "NONE" => status[key[t]] = "NONE", Post(t), [Next]_vars
    PROVE  CashInv'
  <1> DEFINE k == key[t]
  <1>1. k \in Keys /\ status \in [Keys -> TxStatus] /\ pc \in [Attempts -> {"new"} \cup Working \cup Ended]
    BY DEF LockInv, TypeOK
  <1>2. pc' = [pc EXCEPT ![t] = "posted"] /\ UNCHANGED << key, found >>
    BY DEF Post, Goto
  <1>3. status'[k] # "NONE" /\ \A j \in Keys : j # k => status'[j] = status[j]
    BY <1>1 DEF Post, StatusOnCreate, CashInv, RowsStay
  <1>4. k \notin TransferKeys => status[k] = "NONE" /\ status'[k] = "COMPLETED"
    <2> SUFFICES ASSUME k \notin TransferKeys PROVE status[k] = "NONE" /\ status'[k] = "COMPLETED"
      OBVIOUS
    <2>1. found[t] = "NONE"
      BY DEF CashInv, CashFoundNothing, Working
    <2>2. Request[k].kind # "TRANSFER"
      BY <1>1 DEF TransferKeys
    <2> QED
      BY <1>1, <2>1, <2>2 DEF Post, StatusOnCreate
  <1>5. RowsStay'
    BY <1>1, <1>2, <1>3 DEF CashInv, RowsStay, LockInv, TypeOK
  <1>6. CashRowsComplete'
    <2> SUFFICES ASSUME NEW j \in Keys \ TransferKeys, status'[j] # "NONE"
                 PROVE  status'[j] = "COMPLETED" /\ HasEntries(entries, j)'
      BY DEF CashRowsComplete
    <2>1. CASE j = k
      BY <1>2, <1>4, <2>1, PostHasEntries DEF HasEntries
    <2>2. CASE j # k
      BY <1>3, <2>2, EntriesGrow DEF CashInv, CashRowsComplete
    <2> QED
      BY <2>1, <2>2
  <1>7. CashFoundNothing'
    BY <1>1, <1>2 DEF CashInv, CashFoundNothing, Working
  <1>8. CashPostedOnce'
    <2> SUFFICES ASSUME NEW u \in Attempts, NEW v \in Attempts,
                        pc'[u] = "posted", pc'[v] = "posted",
                        key[u] = key[v], key[u] \notin TransferKeys
                 PROVE  u = v
      BY <1>2 DEF CashPostedOnce
    <2>1. u # t => pc[u] = "posted" /\ status[key[u]] # "NONE"
      BY <1>1, <1>2 DEF CashInv, RowsStay
    <2>2. v # t => pc[v] = "posted" /\ status[key[v]] # "NONE"
      BY <1>1, <1>2 DEF CashInv, RowsStay
    <2> QED
      BY <1>4, <2>1, <2>2 DEF CashInv, CashPostedOnce
  <1> QED
    BY <1>5, <1>6, <1>7, <1>8 DEF CashInv

LEMMA CashStep == LockInv /\ CashInv /\ [Next]_vars => CashInv'
  <1> SUFFICES ASSUME LockInv, CashInv, [Next]_vars PROVE CashInv'
    OBVIOUS
  <1>T. /\ pc \in [Attempts -> {"new"} \cup Working \cup Ended]
        /\ found \in [Attempts -> TxStatus]
        /\ key \in [Attempts -> Keys]
    BY DEF LockInv, TypeOK
  <1>1. ASSUME NEW t \in Attempts, Begin(t) PROVE CashInv'
    <2>1. CashFoundNothing'
      BY <1>T, <1>1 DEF Begin, Goto, CashInv, CashFoundNothing, Working
    <2> QED
      BY <1>T, <1>1, <2>1, QuietCash DEF Begin, Goto, dbVars
  <1>2. ASSUME NEW t \in Attempts, Lookup(t) PROVE CashInv'
    <2>1. CashFoundNothing'
      <3> SUFFICES ASSUME NEW u \in Attempts, key[u] \notin TransferKeys, pc'[u] \in Working \ {"lookup"}
                   PROVE  found'[u] = "NONE"
        BY <1>2 DEF CashFoundNothing, Lookup
      <3>1. CASE u # t
        BY <1>T, <1>2, <3>1 DEF Lookup, Goto, CashInv, CashFoundNothing
      <3>2. CASE u = t
        <4>1. ~IsDuplicate(key[t]) /\ found'[t] = status[key[t]]
          BY <1>T, <1>2, <3>2 DEF Lookup, Goto, Working
        <4> QED
          BY <1>T, <3>2, <4>1 DEF IsDuplicate, CashInv, CashRowsComplete
      <3> QED
        BY <3>1, <3>2
    <2>2. /\ UNCHANGED << status, entries, key >>
          /\ \A u \in Attempts : pc'[u] = "posted" => pc[u] = "posted"
          /\ \A u \in Attempts : found'[u] # found[u] => found'[u] = status[key[u]]
      BY <1>T, <1>2 DEF Lookup, Goto, dbVars
    <2> QED
      BY <2>1, <2>2, QuietCash
  <1>3. ASSUME NEW t \in Attempts,
               \/ ReadSource(t) \/ ReadTarget(t) \/ UpdateSource(t) \/ UpdateTarget(t)
               \/ \E outcome \in {"rejected", "conflict", "aborted"} : RollbackWith(t, outcome),
               pc[t] \in Working \ {"lookup"} \/ pc'[t] \in Ended \ {"posted"}
        PROVE  CashInv'
    <2>1. /\ UNCHANGED << status, entries, key, found >>
          /\ pc' = [pc EXCEPT ![t] = pc'[t]]
          /\ pc'[t] # "posted"
          /\ pc[t] \in Working \ {"lookup"} \/ pc'[t] \notin Working
      BY <1>T, <1>3 DEF ReadSource, ReadTarget, UpdateSource, UpdateTarget, LockRow,
                        RollbackWith, Goto, dbVars, Working, Ended
    <2>2. CashFoundNothing'
      BY <1>T, <2>1 DEF CashInv, CashFoundNothing
    <2> QED
      BY <1>T, <2>1, <2>2, QuietCash
  <1>4. ASSUME NEW t \in Attempts,
               ReadSource(t) \/ ReadTarget(t) \/ UpdateSource(t) \/ UpdateTarget(t)
        PROVE  CashInv'
    <2>1. pc[t] \in Working \ {"lookup"}
      BY <1>4 DEF ReadSource, ReadTarget, UpdateSource, UpdateTarget, Working
    <2> QED
      BY <1>3, <1>4, <2>1
  <1>5. ASSUME NEW t \in Attempts, NEW outcome \in {"rejected", "conflict", "aborted"},
               RollbackWith(t, outcome)
        PROVE  CashInv'
    <2>1. pc'[t] \in Ended \ {"posted"}
      BY <1>T, <1>5 DEF RollbackWith, Goto, Ended
    <2> QED
      BY <1>3, <1>5, <2>1
  <1>6. ASSUME NEW t \in Attempts, Record(t) PROVE CashInv'
    BY <1>5, <1>6, PostCash DEF Record
  <1>7. ASSUME NEW t \in Attempts, Abort(t) PROVE CashInv'
    BY <1>5, <1>7 DEF Abort
  <1>8. ASSUME NEW k \in Keys, NEW new \in TxStatus \ {"NONE"}, k \in TransferKeys,
               status' = [status EXCEPT ![k] = new], UNCHANGED << entries, pc, key, found >>
        PROVE  CashInv'
    <2>1. \A j \in Keys : status'[j] = IF j = k THEN new ELSE status[j]
      BY <1>8 DEF LockInv, TypeOK
    <2>2. RowsStay'
      BY <1>T, <1>8, <2>1 DEF CashInv, RowsStay
    <2>3. CashRowsComplete'
      BY <1>8, <2>1 DEF CashInv, CashRowsComplete
    <2>4. CashFoundNothing' /\ CashPostedOnce'
      BY <1>8 DEF CashInv, CashFoundNothing, CashPostedOnce
    <2> QED
      BY <2>2, <2>3, <2>4 DEF CashInv
  <1>9. ASSUME NEW k \in Keys, OpenTransfer(k) PROVE CashInv'
    BY <1>8, <1>9 DEF OpenTransfer, attemptVars, TxStatus
  <1>10. ASSUME NEW k \in Keys, NEW outcome \in {"COMPLETED", "FAILED"}, CloseTransfer(k, outcome)
        PROVE  CashInv'
    BY <1>8, <1>10 DEF CloseTransfer, attemptVars, TxStatus
  <1>11. CASE UNCHANGED vars
    BY <1>11, QuietCash DEF vars, CashInv, CashFoundNothing
  <1> QED
    BY <1>1, <1>2, <1>4, <1>6, <1>7, <1>9, <1>10, <1>11 DEF Next, Statement

(* Duplicate attempts of a deposit or a withdrawal, in any interleaving,   *)
(* post it at most once.                                                   *)
THEOREM CashAlwaysPostedOnce == Spec => []CashPostedOnce
  <1>1. LockInv /\ CashInv => CashPostedOnce
    BY DEF CashInv
  <1> QED
    BY <1>1, LockInit, LockStep, CashInit, CashStep, PTL DEF Spec

-----------------------------------------------------------------------------
(* Posted attempts and entries, counted. *)

PostedFor(k) == {t \in Attempts : key[t] = k /\ pc[t] = "posted"}

(* Attempts may be infinite; those that have posted are finite all the same. *)
PostedFinite == \A k \in Keys : IsFiniteSet(PostedFor(k))

CountInv == PostedFinite /\ PostedMeansRecorded

LEMMA CountInit == Init => CountInv
  <1> SUFFICES ASSUME Init PROVE CountInv
    OBVIOUS
  <1>1. \A k \in Keys : PostedFor(k) = {}
    BY DEF Init, PostedFor
  <1>2. ASSUME NEW k \in Keys, NEW a \in Accounts PROVE EntriesOf(k, a) = {}
    <2>1. entries[a] = << >>
      BY DEF Init
    <2>2. DOMAIN entries[a] = {}
      BY <2>1
    <2> QED
      BY <2>2 DEF EntriesOf
  <1> QED
    BY <1>1, <1>2, FS_EmptySet DEF CountInv, PostedFinite, PostedMeansRecorded, PostedFor

(* A step that adds no entry lets no attempt post. *)
LEMMA QuietCount ==
    ASSUME LockInv, CountInv, UNCHANGED << entries, key >>,
           \A t \in Attempts : pc'[t] = "posted" <=> pc[t] = "posted"
    PROVE  CountInv'
  <1>1. \A k \in Keys : PostedFor(k)' = PostedFor(k)
    BY DEF PostedFor
  <1>2. \A k \in Keys, a \in Accounts : EntriesOf(k, a)' = EntriesOf(k, a)
    BY DEF EntriesOf
  <1> QED
    BY <1>1, <1>2 DEF CountInv, PostedFinite, PostedMeansRecorded, PostedFor

(* The entry a posting appends is the only new one of its key. *)
LEMMA AppendedEntry ==
    ASSUME NEW k \in Keys, NEW a \in Accounts, NEW e \in Entry,
           entries[a] \in Seq(Entry), entries'[a] = Append(entries[a], e)
    PROVE  /\ IsFiniteSet(EntriesOf(k, a))
           /\ Cardinality(EntriesOf(k, a)') =
                 IF e.key = k THEN Cardinality(EntriesOf(k, a)) + 1 ELSE Cardinality(EntriesOf(k, a))
  <1> DEFINE n == Len(entries[a])
  <1>1. n \in Nat /\ DOMAIN entries[a] = 1..n
    OBVIOUS
  <1>2. EntriesOf(k, a) \subseteq 1..n
    BY <1>1 DEF EntriesOf
  <1>3. IsFiniteSet(EntriesOf(k, a))
    <2>1. IsFiniteSet(1..n)
      BY <1>1, FS_Interval
    <2> QED
      BY <1>2, <2>1, FS_Subset
  <1>4. /\ DOMAIN entries'[a] = 1..(n + 1)
        /\ entries'[a][n + 1] = e
        /\ \A i \in 1..n : entries'[a][i] = entries[a][i]
    BY <1>1
  <1>5. EntriesOf(k, a)' = IF e.key = k THEN EntriesOf(k, a) \cup {n + 1} ELSE EntriesOf(k, a)
    BY <1>1, <1>4 DEF EntriesOf
  <1>6. n + 1 \notin EntriesOf(k, a)
    BY <1>1, <1>2
  <1> QED
    BY <1>3, <1>5, <1>6, FS_AddElement

LEMMA PostCount ==
    ASSUME LockInv, CountInv, NEW t \in Attempts, pc[t] = "record", Post(t)
    PROVE  CountInv'
  <1>1. /\ key[t] \in Keys /\ key' = key
        /\ \A u \in Attempts : pc'[u] = IF u = t THEN "posted" ELSE pc[u]
    BY DEF LockInv, TypeOK, Post, Goto
  <1>2. \A k \in Keys : PostedFor(k)' = IF k = key[t] THEN PostedFor(k) \cup {t} ELSE PostedFor(k)
    BY <1>1 DEF PostedFor
  <1>3. t \notin PostedFor(key[t])
    BY DEF PostedFor
  <1>4. PostedFinite'
    BY <1>2, FS_AddElement DEF CountInv, PostedFinite
  <1>5. Cardinality(PostedFor(key[t])') = Cardinality(PostedFor(key[t])) + 1
    BY <1>1, <1>2, <1>3, FS_AddElement DEF CountInv, PostedFinite
  <1>6. ASSUME NEW k \in Keys, NEW a \in Accounts
        PROVE  Cardinality(EntriesOf(k, a)') =
                   IF a \in Legs(k) THEN Cardinality(PostedFor(k)') ELSE 0
    <2>1. Cardinality(EntriesOf(k, a)) = IF a \in Legs(k) THEN Cardinality(PostedFor(k)) ELSE 0
      BY DEF CountInv, PostedMeansRecorded, PostedFor
    <2>2. CASE a \in Legs(key[t])
      <3> DEFINE e == EntryFor(key[t], a, NewBalance(t, a))
      <3>1. NewBalance(t, a) \in Int
        <4>1. read[t][a] \in AccountRow
          BY DEF LockInv, TypeOK
        <4>2. Delta(key[t], a) \in Int
          BY <1>1, RequestFacts
        <4> QED
          BY <4>1, <4>2 DEF NewBalance, AccountRow
      <3>2. e \in Entry /\ e.key = key[t]
        BY <1>1, <3>1, EntryTyped
      <3>3. entries[a] \in Seq(Entry) /\ entries'[a] = Append(entries[a], e)
        BY <2>2 DEF Post, LockInv, TypeOK
      <3> HIDE DEF e
      <3>4. Cardinality(EntriesOf(k, a)') =
               IF key[t] = k THEN Cardinality(EntriesOf(k, a)) + 1 ELSE Cardinality(EntriesOf(k, a))
        BY <3>2, <3>3, AppendedEntry
      <3>5. CASE k = key[t]
        BY <1>1, <1>5, <2>1, <2>2, <3>4, <3>5
      <3>6. CASE k # key[t]
        <4>1. PostedFor(k)' = PostedFor(k)
          BY <1>2, <3>6
        <4> QED
          BY <2>1, <3>4, <3>6, <4>1
      <3> QED
        BY <3>5, <3>6
    <2>3. CASE a \notin Legs(key[t])
      <3>1. EntriesOf(k, a)' = EntriesOf(k, a)
        BY <2>3 DEF EntriesOf, Post
      <3> QED
        BY <1>2, <2>1, <2>3, <3>1
    <2> QED
      BY <2>2, <2>3
  <1> QED
    BY <1>4, <1>6 DEF CountInv, PostedMeansRecorded, PostedFor

LEMMA CountStep == LockInv /\ CountInv /\ [Next]_vars => CountInv'
  <1> SUFFICES ASSUME LockInv, CountInv, [Next]_vars PROVE CountInv'
    OBVIOUS
  <1>T. pc \in [Attempts -> {"new"} \cup Working \cup Ended]
    BY DEF LockInv, TypeOK
  <1>1. ASSUME NEW t \in Attempts, NEW label, label # "posted", pc[t] # "posted",
               pc' = [pc EXCEPT ![t] = label], UNCHANGED << entries, key >>
        PROVE  CountInv'
    BY <1>T, <1>1, QuietCount
  <1>2. ASSUME NEW t \in Attempts, Begin(t) \/ Lookup(t) PROVE CountInv'
    BY <1>1, <1>2 DEF Begin, Lookup, Goto, dbVars
  <1>3. ASSUME NEW t \in Attempts, pc[t] \in Working,
               NEW outcome \in {"rejected", "conflict", "aborted"}, RollbackWith(t, outcome)
        PROVE  CountInv'
    BY <1>1, <1>3 DEF RollbackWith, Goto, Working
  <1>4. ASSUME NEW t \in Attempts, ReadSource(t) \/ ReadTarget(t) PROVE CountInv'
    BY <1>1, <1>3, <1>4 DEF ReadSource, ReadTarget, Goto, dbVars, Working
  <1>5. ASSUME NEW t \in Attempts, UpdateSource(t) \/ UpdateTarget(t) PROVE CountInv'
    <2>1. ASSUME NEW a, NEW next \in {"updateTarget", "record"}, LockRow(t, a, next),
                 pc[t] \in {"updateSource", "updateTarget"}
          PROVE  CountInv'
      BY <1>1, <1>3, <2>1 DEF LockRow, Goto, Working
    <2> QED
      BY <1>5, <2>1 DEF UpdateSource, UpdateTarget
  <1>6. ASSUME NEW t \in Attempts, Record(t) PROVE CountInv'
    BY <1>3, <1>6, PostCount DEF Record, Working
  <1>7. ASSUME NEW t \in Attempts, Abort(t) PROVE CountInv'
    BY <1>3, <1>7 DEF Abort
  <1>8. ASSUME UNCHANGED << entries, pc, key >> PROVE CountInv'
    BY <1>8, QuietCount
  <1>9. ASSUME NEW k \in Keys, NEW outcome, OpenTransfer(k) \/ CloseTransfer(k, outcome)
        PROVE  CountInv'
    BY <1>8, <1>9 DEF OpenTransfer, CloseTransfer, attemptVars
  <1>10. CASE UNCHANGED vars
    BY <1>8, <1>10 DEF vars
  <1> QED
    BY <1>2, <1>4, <1>5, <1>6, <1>7, <1>9, <1>10 DEF Next, Statement

(* However many attempts carry one key, each account of the request has    *)
(* exactly as many entries under it as attempts were answered as posted:   *)
(* no attempt records one side only, none is answered without its entries. *)
THEOREM PostedAlwaysRecorded == Spec => []PostedMeansRecorded
  <1>1. CountInv => PostedMeansRecorded
    BY DEF CountInv
  <1> QED
    BY <1>1, LockInit, LockStep, CountInit, CountStep, PTL DEF Spec

-----------------------------------------------------------------------------
(* Refinement: seen through the committed rows, an attempt's transaction   *)
(* is one atomic posting, at its commit.                                   *)

(* The vocabulary of LedgerRequests means the same in both modules. *)
LEMMA SameVocabulary ==
    /\ Atomic!TransferKeys = TransferKeys
    /\ \A k \in Keys : Atomic!Legs(k) = Legs(k)
    /\ \A k \in Keys : Atomic!StatusOnCreate(k) = StatusOnCreate(k)
    /\ \A k \in Keys, a \in Accounts : Atomic!Delta(k, a) = Delta(k, a)
    /\ \A k \in Keys, a \in Accounts, n \in Int : Atomic!EntryFor(k, a, n) = EntryFor(k, a, n)
    /\ \A k \in Keys : Atomic!HasEntries(entries, k) <=> HasEntries(entries, k)
  BY DEF Atomic!TransferKeys, TransferKeys, Atomic!Legs, Legs, Atomic!StatusOnCreate,
         StatusOnCreate, Atomic!Delta, Delta, Atomic!EntryFor, EntryFor,
         Atomic!HasEntries, HasEntries

LEMMA RefineInit == Init => Atomic!LedgerInit
  BY LedgerAssumption DEF Init, InitialAccount, Atomic!LedgerInit

LEMMA RefinePost ==
    ASSUME IInv, NEW t \in Attempts, pc[t] = "record", NEW k \in Keys, k = key[t],
           found[t] = "NONE" => status[key[t]] = "NONE", Post(t)
    PROVE  Atomic!Post(k)
  <1> DEFINE b == [a \in Accounts |-> account[a].balance]
  <1>1. k \in Keys
    OBVIOUS
  <1>2. \A a \in Legs(k) :
           /\ a \in Accounts
           /\ NewBalance(t, a) = b[a] + Delta(k, a)
           /\ a \in ActiveAccounts
           /\ a = Request[k].source => b[a] >= Request[k].amount
    BY <1>1, RequestFacts, PostMoves DEF IInv, Source
  <1>3. Atomic!Postable(k)
    BY <1>1, SameVocabulary DEF Atomic!Postable, IInv, CashInv, CashFoundNothing, Working
  <1>4. Atomic!Affordable(k)
    <2>1. Atomic!Legs(k) \subseteq ActiveAccounts
      BY <1>1, <1>2, SameVocabulary
    <2>2. Request[k].source # NoAccount => b[Request[k].source] >= Request[k].amount
      BY <1>1, <1>2 DEF Legs
    <2> QED
      BY <2>1, <2>2 DEF Atomic!Affordable
  <1>5. [a \in Accounts |-> account'[a].balance] =
          [a \in Accounts |-> IF a \in Legs(k) THEN b[a] + Delta(k, a) ELSE b[a]]
    BY <1>2 DEF Post
  <1>6. entries' = [a \in Accounts |->
                      IF a \in Legs(k)
                      THEN Append(entries[a], EntryFor(k, a, b[a] + Delta(k, a)))
                      ELSE entries[a]]
    BY <1>2 DEF Post
  <1>7. status' = [status EXCEPT ![k] = IF @ = "NONE" THEN StatusOnCreate(k) ELSE @]
    <2>1. CASE found[t] = "NONE"
      BY <1>1, <2>1 DEF Post, IInv, LockInv, TypeOK
    <2>2. CASE found[t] # "NONE"
      <3>1. status[k] # "NONE" /\ status' = status /\ status \in [Keys -> TxStatus]
        BY <2>2 DEF Post, IInv, CashInv, RowsStay, LockInv, TypeOK
      <3> QED
        BY <1>1, <3>1
    <2> QED
      BY <2>1, <2>2
  <1>8. \A a \in Accounts : b[a] + Delta(k, a) \in Int
    BY <1>1, RequestFacts DEF IInv, LockInv, TypeOK, AccountRow
  <1>9. [a \in Accounts |-> account'[a].balance] =
          [a \in Accounts |-> IF a \in Atomic!Legs(k) THEN b[a] + Atomic!Delta(k, a) ELSE b[a]]
    BY <1>1, <1>5, SameVocabulary
  <1>10. entries' = [a \in Accounts |->
                       IF a \in Atomic!Legs(k)
                       THEN Append(entries[a], Atomic!EntryFor(k, a, b[a] + Atomic!Delta(k, a)))
                       ELSE entries[a]]
    BY <1>1, <1>6, <1>8, SameVocabulary
  <1>11. status' = [status EXCEPT ![k] = IF @ = "NONE" THEN Atomic!StatusOnCreate(k) ELSE @]
    BY <1>1, <1>7, SameVocabulary
  <1> QED
    BY <1>3, <1>4, <1>9, <1>10, <1>11 DEF Atomic!Post

LEMMA RefineStep == IInv /\ [Next]_vars => [Atomic!LedgerNext]_(Atomic!ledgerVars)
  <1> SUFFICES ASSUME IInv, [Next]_vars PROVE [Atomic!LedgerNext]_(Atomic!ledgerVars)
    OBVIOUS
  <1>1. CASE UNCHANGED << account, status, entries >>
    BY <1>1 DEF Atomic!ledgerVars
  <1>2. ASSUME NEW t \in Attempts, Record(t) PROVE [Atomic!LedgerNext]_(Atomic!ledgerVars)
    <2>1. CASE RollbackWith(t, "conflict")
      BY <1>1, <2>1 DEF RollbackWith
    <2>2. CASE ~RollbackWith(t, "conflict")
      <3>1. PICK k \in Keys : k = key[t]
        BY DEF IInv, LockInv, TypeOK
      <3>2. Atomic!Post(k)
        BY <1>2, <2>2, <3>1, RefinePost DEF Record
      <3> QED
        BY <3>2 DEF Atomic!LedgerNext
    <2> QED
      BY <2>1, <2>2
  <1>3. ASSUME NEW k \in Keys, OpenTransfer(k) PROVE [Atomic!LedgerNext]_(Atomic!ledgerVars)
    <2>1. Atomic!OpenTransfer(k)
      BY <1>3, SameVocabulary DEF OpenTransfer, Atomic!OpenTransfer
    <2> QED
      BY <2>1 DEF Atomic!LedgerNext
  <1>4. ASSUME NEW k \in Keys, NEW outcome \in {"COMPLETED", "FAILED"}, CloseTransfer(k, outcome)
        PROVE  [Atomic!LedgerNext]_(Atomic!ledgerVars)
    <2>1. Atomic!CloseTransfer(k, outcome)
      BY <1>4, SameVocabulary DEF CloseTransfer, Atomic!CloseTransfer
    <2> QED
      BY <2>1 DEF Atomic!LedgerNext
  <1>5. ASSUME NEW t \in Attempts,
               \/ Begin(t) \/ Lookup(t) \/ ReadSource(t) \/ ReadTarget(t)
               \/ UpdateSource(t) \/ UpdateTarget(t) \/ Abort(t)
        PROVE  UNCHANGED << account, status, entries >>
    BY <1>5 DEF Begin, Lookup, ReadSource, ReadTarget, UpdateSource, UpdateTarget, LockRow,
                Abort, RollbackWith, dbVars
  <1>6. UNCHANGED vars => UNCHANGED << account, status, entries >>
    BY DEF vars
  <1> QED
    BY <1>1, <1>2, <1>3, <1>4, <1>5, <1>6 DEF Next, Statement

(* The database transactions of ledger-service implement the atomic        *)
(* ledger that its callers are written against.                            *)
THEOREM LedgerImplementsAtomic == Spec => ImplementsAtomicLedger
  <1>1. Init => IInv
    BY LockInit, MoneyInit, CashInit DEF IInv
  <1>2. IInv /\ [Next]_vars => IInv'
    BY LockStep, MoneyStep, CashStep DEF IInv
  <1> QED
    BY <1>1, <1>2, RefineInit, RefineStep, PTL DEF Spec, ImplementsAtomicLedger, Atomic!LedgerSpec
=============================================================================
