------------------------ MODULE PaymentService_proofs ------------------------
(***************************************************************************)
(* Theorems about PaymentService, for every set of accounts, keys and      *)
(* calls, and every combination of faults.                                 *)
(***************************************************************************)
EXTENDS PaymentService, FiniteSetTheorems, TLAPS

(***************************************************************************)
(* The strengthening that makes the properties inductive.                  *)
(***************************************************************************)

(* A call sends nothing before its row is there, and not too often after;  *)
(* it caches an answer, not an error.                                      *)
TriesLeft ==
    \A c \in Calls :
        /\ pc[c] \in {"new", "lock", "check", "validate", "open"} => tries[c] = 0
        /\ pc[c] = "send" => tries[c] < MaxAttempts
        /\ pc[c] = "cache" => answer[c] # "error"

TypeInv == TypeOK /\ TriesLeft

(* A call works on its transfer's row, or a request it has sent is still   *)
(* on its way.                                                             *)
Drives(c) == key[c] \in TransferKeys /\ pc[c] \in {"send", "await", "finalize", "fail"}

Underway(c) ==
    \/ Drives(c)
    \/ key[c] \in TransferKeys /\ \E x \in inflight : x[1] = c

(* Only transfers have a row of payment-service's, only cash an event of   *)
(* its own.                                                                *)
PositionsFit ==
    \A c \in Calls :
        /\ pc[c] \in {"open", "finalize", "fail"} => key[c] \in TransferKeys
        /\ pc[c] = "event" => key[c] \notin TransferKeys

(* The unique key lets one call work on the row of a transfer, ever.       *)
OneDriver ==
    \A c, d \in Calls : Underway(c) /\ Underway(d) /\ key[c] = key[d] => c = d

DriversRow ==
    \A c \in Calls :
        /\ Underway(c) => status[key[c]] # "NONE"
        /\ Drives(c) => \/ status[key[c]] = "PENDING"
                        \/ pc[c] = "fail" /\ status[key[c]] = "COMPLETED"

(* A transfer's event comes with its COMPLETED, a cash event after its row.*)
EventsFollowRows ==
    \A k \in Keys :
        /\ k \in TransferKeys =>
              /\ status[k] \in {"NONE", "PENDING"} => outbox[k] = 0
              /\ status[k] = "COMPLETED" => outbox[k] = 1
              /\ outbox[k] <= 1
        /\ k \notin TransferKeys =>
              /\ status[k] \in {"NONE", "COMPLETED"}
              /\ status[k] = "NONE" => outbox[k] = 0

(* Whatever speaks of a payment as done has ledger entries behind it.      *)
EntriesBehind ==
    /\ \A k \in Keys : /\ outbox[k] > 0 => HasEntries(entries, k)
                       /\ status[k] = "COMPLETED" => HasEntries(entries, k)
                       /\ l1[k] = "COMPLETED" => HasEntries(entries, k)
                       /\ status[k] = "NONE" => ~HasEntries(entries, k)
    /\ \A c \in Calls : /\ pc[c] \in {"finalize", "event"} => HasEntries(entries, key[c])
                        /\ answer[c] = "COMPLETED" => HasEntries(entries, key[c])

RowRules == PositionsFit /\ OneDriver /\ DriversRow /\ EventsFollowRows
ClaimInv == TypeInv /\ RowRules /\ EntriesBehind

-----------------------------------------------------------------------------
(* What the request validators guarantee about the request a key names. *)
LEMMA RequestFacts ==
    ASSUME NEW k \in Keys
    PROVE  /\ Legs(k) \subseteq Accounts /\ Legs(k) # {}
           /\ \A a \in Accounts : Delta(k, a) \in Int
           /\ \A a \in Accounts, b \in Int : EntryFor(k, a, b) \in Entry
  <1>1. WellFormed(Request[k])
    BY LedgerAssumption
  <1>2. Request[k].amount \in Nat
    BY <1>1 DEF WellFormed
  <1>3. Legs(k) \subseteq Accounts /\ Legs(k) # {}
    BY <1>1, LedgerAssumption DEF WellFormed, Legs, Kinds
  <1>4. \A a \in Accounts : Delta(k, a) \in Int
    BY <1>2 DEF Delta
  <1>5. \A a \in Accounts, b \in Int : EntryFor(k, a, b) \in Entry
    BY <1>2 DEF EntryFor, Entry
  <1> QED
    BY <1>3, <1>4, <1>5

(* A posting keeps every entry and adds its own. *)
LEMMA PostFacts ==
    ASSUME LedgerTypeOK, NEW k \in Keys, Post(k)
    PROVE  /\ LedgerTypeOK'
           /\ HasEntries(entries', k)
           /\ \A j \in Keys : HasEntries(entries, j) => HasEntries(entries', j)
           /\ \A j \in Keys \ {k} : HasEntries(entries', j) => HasEntries(entries, j)
  <1> DEFINE added(a) == EntryFor(k, a, balance[a] + Delta(k, a))
  <1>1. \A a \in Accounts : added(a) \in Entry /\ added(a).key = k
    BY RequestFacts DEF LedgerTypeOK, EntryFor
  <1>2. \A a \in Accounts : entries[a] \in Seq(Entry)
    BY DEF LedgerTypeOK
  <1>3. \A a \in Accounts : entries'[a] = IF a \in Legs(k) THEN Append(entries[a], added(a))
                                          ELSE entries[a]
    BY DEF Post
  <1> HIDE DEF added
  <1>4. LedgerTypeOK'
    <2>1. balance' \in [Accounts -> Int]
      BY RequestFacts DEF Post, LedgerTypeOK
    <2>2. status' \in [Keys -> TxStatus]
      BY DEF Post, LedgerTypeOK, StatusOnCreate, TxStatus
    <2>3. entries' \in [Accounts -> Seq(Entry)]
      <3>1. ASSUME NEW a \in Accounts PROVE entries'[a] \in Seq(Entry)
        <4>1. entries[a] \in Seq(Entry) /\ added(a) \in Entry
          BY <1>1, <1>2
        <4>2. Append(entries[a], added(a)) \in Seq(Entry)
          BY <4>1
        <4> QED
          BY <4>1, <4>2, <1>3
      <3>2. entries' = [a \in Accounts |-> entries'[a]]
        BY DEF Post
      <3> QED
        BY <3>1, <3>2
    <2> QED
      BY <2>1, <2>2, <2>3 DEF LedgerTypeOK
  <1>5. \A a \in Accounts :
          /\ \A i \in DOMAIN entries[a] : i \in DOMAIN entries'[a] /\ entries'[a][i] = entries[a][i]
          /\ \A i \in DOMAIN entries'[a] :
                \/ i \in DOMAIN entries[a] /\ entries'[a][i] = entries[a][i]
                \/ entries'[a][i].key = k
          /\ a \in Legs(k) => \E i \in DOMAIN entries'[a] : entries'[a][i].key = k
    <2> SUFFICES ASSUME NEW a \in Accounts, a \in Legs(k)
                 PROVE  /\ \A i \in DOMAIN entries[a] :
                               i \in DOMAIN entries'[a] /\ entries'[a][i] = entries[a][i]
                        /\ \A i \in DOMAIN entries'[a] :
                               \/ i \in DOMAIN entries[a] /\ entries'[a][i] = entries[a][i]
                               \/ entries'[a][i].key = k
                        /\ \E i \in DOMAIN entries'[a] : entries'[a][i].key = k
      BY <1>3
    <2>1. entries'[a] = Append(entries[a], added(a))
      BY <1>3
    <2>2. /\ DOMAIN entries[a] = 1..Len(entries[a]) /\ Len(entries[a]) \in Nat
          /\ DOMAIN entries'[a] = 1..(Len(entries[a]) + 1)
          /\ \A i \in 1..Len(entries[a]) : entries'[a][i] = entries[a][i]
          /\ entries'[a][Len(entries[a]) + 1] = added(a)
      BY <1>1, <1>2, <2>1
    <2> QED
      BY <1>1, <2>2
  <1>6. HasEntries(entries', k)
    BY <1>5, RequestFacts DEF HasEntries
  <1>7. \A j \in Keys : HasEntries(entries, j) => HasEntries(entries', j)
    BY <1>5 DEF HasEntries
  <1>8. \A j \in Keys \ {k} : HasEntries(entries', j) => HasEntries(entries, j)
    BY <1>5 DEF HasEntries
  <1> QED
    BY <1>4, <1>6, <1>7, <1>8

(* A request on its way belongs to a call. *)
LEMMA InflightFacts ==
    ASSUME TypeOK, NEW x \in inflight
    PROVE  /\ x[1] \in Calls /\ x[2] \in 1..MaxAttempts
           /\ key[x[1]] \in Keys
  BY DEF TypeOK

-----------------------------------------------------------------------------
(* Every action keeps the variables in their types. *)
LEMMA TypeInit == Init => TypeInv
  BY LedgerAssumption, PaymentAssumption
  DEF Init, TypeInv, TriesLeft, TypeOK, LedgerInit, LedgerTypeOK, TxStatus, Labels

(* One more event, or one more status, for one key. *)
LEMMA EventTyped ==
    ASSUME TypeOK, NEW k \in Keys
    PROVE  [outbox EXCEPT ![k] = @ + 1] \in [Keys -> Nat]
  <1>1. outbox[k] + 1 \in Nat
    BY DEF TypeOK
  <1> QED
    BY <1>1 DEF TypeOK

LEMMA StatusTyped ==
    ASSUME LedgerTypeOK, NEW k \in Keys, NEW s \in TxStatus
    PROVE  [status EXCEPT ![k] = s] \in [Keys -> TxStatus]
  BY DEF LedgerTypeOK

LEMMA TypeStep == TypeInv /\ [Next]_vars => TypeInv'
  <1> SUFFICES ASSUME TypeOK, TriesLeft, [Next]_vars PROVE TypeOK' /\ TriesLeft'
    BY DEF TypeInv
  <1> USE DEF TypeOK, Labels, Ended, Goto, ledgerVars, TriesLeft
  <1>1. ASSUME NEW c \in Calls, LookupL1(c), UNCHANGED faults PROVE TypeOK' /\ TriesLeft'
    BY <1>1 DEF LookupL1, Answer, LedgerTypeOK
  <1>2. ASSUME NEW c \in Calls, AcquireLocks(c), UNCHANGED faults PROVE TypeOK' /\ TriesLeft'
    BY <1>2 DEF AcquireLocks, LedgerTypeOK
  <1>3. ASSUME NEW c \in Calls, FindExisting(c), UNCHANGED faults PROVE TypeOK' /\ TriesLeft'
    <2>1. \/ /\ status[key[c]] \in TxStatus \ {"NONE"}
             /\ answer' = [answer EXCEPT ![c] = status[key[c]]]
             /\ pc' = [pc EXCEPT ![c] = "cache"]
          \/ pc' = [pc EXCEPT ![c] = "validate"] /\ answer' = answer
          \/ pc' = [pc EXCEPT ![c] = "release"] /\ answer' = answer
      BY <1>3 DEF FindExisting, Answer, Throw, LedgerTypeOK
    <2>2. tries[c] = 0
      BY <1>3 DEF FindExisting
    <2>3. "error" \notin TxStatus
      BY DEF TxStatus
    <2> QED
      BY <1>3, <2>1, <2>2, <2>3 DEF FindExisting, LedgerTypeOK
  <1>4. ASSUME NEW c \in Calls, Validate(c), UNCHANGED faults PROVE TypeOK' /\ TriesLeft'
    <2>1. \E l \in {"open", "send", "release"} : pc' = [pc EXCEPT ![c] = l]
      BY <1>4 DEF Validate
    <2>2. tries[c] = 0 /\ 0 < MaxAttempts
      BY <1>4, PaymentAssumption DEF Validate
    <2> QED
      BY <1>4, <2>1, <2>2 DEF Validate, LedgerTypeOK
  <1>5. ASSUME NEW c \in Calls, OpenRow(c), UNCHANGED faults PROVE TypeOK' /\ TriesLeft'
    <2>1. LedgerTypeOK'
      BY <1>5, StatusTyped DEF OpenRow, OpenTransfer, LedgerTypeOK, TxStatus
    <2>2. pc' = [pc EXCEPT ![c] = "send"] \/ pc' = [pc EXCEPT ![c] = "release"]
      BY <1>5 DEF OpenRow
    <2> QED
      BY <1>5, <2>1, <2>2, PaymentAssumption DEF OpenRow
  <1>6. ASSUME NEW c \in Calls, SendToLedger(c), UNCHANGED faults PROVE TypeOK' /\ TriesLeft'
    <2>1. tries[c] \in 0..MaxAttempts /\ tries[c] < MaxAttempts
      BY <1>6 DEF SendToLedger
    <2>2. tries[c] + 1 \in 1..MaxAttempts
      BY <2>1, PaymentAssumption
    <2>3. tries' \in [Calls -> 0..MaxAttempts] /\ inflight' \subseteq Calls \X (1..MaxAttempts)
      BY <1>6, <2>2 DEF SendToLedger
    <2>4. pc' = [pc EXCEPT ![c] = "await"] \/ pc' = [pc EXCEPT ![c] = FailureLabel(c)]
      BY <1>6 DEF SendToLedger
    <2>5. raced' \subseteq inflight'
      BY <1>6 DEF SendToLedger
    <2>6. \A d \in Calls \ {c} : tries'[d] = tries[d]
      BY <1>6 DEF SendToLedger
    <2> QED
      BY <1>6, <2>3, <2>4, <2>5, <2>6 DEF SendToLedger, FailureLabel, LedgerTypeOK
  <1>7. ASSUME NEW x \in inflight, Serve(x), UNCHANGED faults PROVE TypeOK' /\ TriesLeft'
    <2>1. LedgerTypeOK'
      BY <1>7, PostFacts, InflightFacts
      DEF Serve, LedgerPosts, LedgerRecognises, LedgerRefuses, LedgerFails, LedgerTypeOK
    <2>2. raced' \subseteq inflight'
      BY <1>7 DEF Serve, LedgerPosts, LedgerRecognises, LedgerRefuses, LedgerFails
    <2>3. x[1] \in Calls
      BY InflightFacts
    <2>4. \/ pc' = pc
          \/ \E l \in {"finalize", "event", "fail", "release"} : pc' = [pc EXCEPT ![x[1]] = l]
          \/ tries[x[1]] < MaxAttempts /\ pc' = [pc EXCEPT ![x[1]] = "send"]
      BY <1>7 DEF Serve, LedgerPosts, LedgerRecognises, LedgerRefuses, LedgerFails, Accepted,
                  Reply, NextTry, FailureLabel
    <2> QED
      BY <1>7, <2>1, <2>2, <2>3, <2>4 DEF Serve
  <1>8. ASSUME NEW c \in Calls, Timeout(c) \/ Crash(c), UNCHANGED faults PROVE TypeOK' /\ TriesLeft'
    BY <1>8 DEF Timeout, Crash, NextTry, FailureLabel, LedgerTypeOK
  <1>9. ASSUME NEW c \in Calls, Finalize(c), UNCHANGED faults PROVE TypeOK' /\ TriesLeft'
    <2> DEFINE k == key[c]
    <2>3. k \in Keys
      OBVIOUS
    <2>4. \/ UNCHANGED << ledgerVars, outbox >>
          \/ /\ status' = [status EXCEPT ![k] = "COMPLETED"]
             /\ outbox' = [outbox EXCEPT ![k] = @ + 1]
             /\ UNCHANGED << balance, entries >>
      BY <1>9 DEF Finalize, Complete
    <2>5. [status EXCEPT ![k] = "COMPLETED"] \in [Keys -> TxStatus]
      BY <2>3, StatusTyped DEF TxStatus
    <2>6. [outbox EXCEPT ![k] = @ + 1] \in [Keys -> Nat]
      BY <2>3, EventTyped
    <2> HIDE DEF k
    <2>1. LedgerTypeOK' /\ outbox' \in [Keys -> Nat]
      BY <2>4, <2>5, <2>6 DEF LedgerTypeOK
    <2>2. \/ pc' = [pc EXCEPT ![c] = "cache"] /\ answer' = [answer EXCEPT ![c] = "COMPLETED"]
          \/ pc' = [pc EXCEPT ![c] = "fail"] /\ answer' = answer
      BY <1>9 DEF Finalize, Answer
    <2> QED
      BY <1>9, <2>1, <2>2 DEF Finalize, TxStatus
  <1>10. ASSUME NEW c \in Calls, RecordEvent(c), UNCHANGED faults PROVE TypeOK' /\ TriesLeft'
    <2>1. outbox' \in [Keys -> Nat]
      BY <1>10, EventTyped DEF RecordEvent
    <2> QED
      BY <1>10, <2>1 DEF RecordEvent, Answer, LedgerTypeOK, TxStatus
  <1>11. ASSUME NEW c \in Calls, MarkFailed(c), UNCHANGED faults PROVE TypeOK' /\ TriesLeft'
    BY <1>11 DEF MarkFailed, Throw, LedgerTypeOK, TxStatus
  <1>12. ASSUME NEW c \in Calls, CacheAnswer(c), UNCHANGED faults PROVE TypeOK' /\ TriesLeft'
    BY <1>12 DEF CacheAnswer, LedgerTypeOK, TxStatus
  <1>13. ASSUME NEW c \in Calls, ReleaseLocks(c), UNCHANGED faults PROVE TypeOK' /\ TriesLeft'
    BY <1>13 DEF ReleaseLocks, LedgerTypeOK
  <1>14. ASSUME NEW a \in Accounts, Expire(a), UNCHANGED faults PROVE TypeOK' /\ TriesLeft'
    BY <1>14 DEF Expire, callVars, LedgerTypeOK
  <1>15. ASSUME NEW k \in Keys, Forget(k), UNCHANGED faults PROVE TypeOK' /\ TriesLeft'
    BY <1>15 DEF Forget, callVars, LedgerTypeOK, TxStatus
  <1>16. CASE UNCHANGED vars
    BY <1>16 DEF vars, sagaVars, callVars, LedgerTypeOK
  <1> QED
    BY <1>1, <1>2, <1>3, <1>4, <1>5, <1>6, <1>7, <1>8, <1>9, <1>10, <1>11, <1>12, <1>13,
       <1>14, <1>15, <1>16 DEF Next, Step

(* Every value of every variable is of its type. *)
THEOREM TypeCorrect == Spec => []TypeOK
  BY TypeInit, TypeStep, PTL DEF Spec, TypeInv

-----------------------------------------------------------------------------
(* The rows of transfers and of cash operations.                           *)
LEMMA RowInit == Init => RowRules
  BY LedgerAssumption
  DEF Init, LedgerInit, RowRules, PositionsFit, OneDriver, DriversRow, EventsFollowRows,
      Underway, Drives

(* A call that goes on elsewhere than to the ledger.                       *)
LEMMA RowsUntouched ==
    ASSUME TypeOK, RowRules, NEW c \in Calls, NEW l \in Labels,
           pc' = [pc EXCEPT ![c] = l],
           \/ l \in {"lock", "check", "validate", "cache", "release", "done", "crashed"}
           \/ l = "open" /\ key[c] \in TransferKeys
           \/ l = "send" /\ key[c] \notin TransferKeys,
           UNCHANGED << status, outbox, inflight, key >>
    PROVE  RowRules'
  <1>1. \A d \in Calls : Drives(d)' => Drives(d) /\ pc'[d] = pc[d]
    BY DEF Drives, TypeOK
  <1>2. \A d \in Calls : Underway(d)' => Underway(d)
    BY <1>1 DEF Underway
  <1>3. PositionsFit'
    BY DEF RowRules, PositionsFit, TypeOK
  <1> QED
    BY <1>1, <1>2, <1>3 DEF RowRules, OneDriver, DriversRow, EventsFollowRows

(* A call that works on its row goes on, with requests sent or served.     *)
LEMMA RowsKept ==
    ASSUME TypeOK, RowRules, NEW c \in Calls, NEW l \in Labels,
           pc[c] \in {"send", "await"},
           pc' = [pc EXCEPT ![c] = l],
           \/ key[c] \in TransferKeys /\ l \in {"send", "await", "finalize", "fail"}
           \/ key[c] \notin TransferKeys /\ l \in {"send", "await", "event", "release"},
           \A x \in inflight' : x \in inflight \/ x[1] = c,
           UNCHANGED << status, outbox, key >>
    PROVE  RowRules'
  <1>1. \A d \in Calls \ {c} : (Drives(d)' <=> Drives(d)) /\ (Underway(d)' => Underway(d))
    BY DEF Drives, Underway, TypeOK
  <1>2. Underway(c)' => Drives(c)
    BY DEF Drives, Underway, TypeOK
  <1>3. Drives(c) => Underway(c) /\ status[key[c]] = "PENDING"
    BY DEF RowRules, DriversRow, Underway
  <1>4. PositionsFit'
    BY DEF RowRules, PositionsFit, TypeOK
  <1>5. OneDriver'
    BY <1>1, <1>2, <1>3 DEF RowRules, OneDriver
  <1>6. DriversRow'
    <2>1. \A d \in Calls \ {c} : pc'[d] = pc[d]
      BY DEF TypeOK
    <2>2. Drives(c)' => Underway(c)'
      BY DEF Underway
    <2> QED
      BY <1>1, <1>2, <1>3, <2>1, <2>2 DEF RowRules, DriversRow
  <1> QED
    BY <1>4, <1>5, <1>6 DEF RowRules, EventsFollowRows

(* A request nobody awaits is served.                                      *)
LEMMA RowsServed ==
    ASSUME TypeOK, RowRules, inflight' \subseteq inflight,
           UNCHANGED << pc, status, outbox, key >>
    PROVE  RowRules'
  BY DEF TypeOK, RowRules, PositionsFit, OneDriver, DriversRow, EventsFollowRows, Underway, Drives

LEMMA RowStep == ClaimInv /\ [Next]_vars => RowRules'
  <1> SUFFICES ASSUME TypeInv, RowRules, EntriesBehind, [Next]_vars PROVE RowRules'
    BY DEF ClaimInv
  <1> USE DEF Goto, ledgerVars
  <1>0. TypeOK
    BY DEF TypeInv
  <1>1. ASSUME NEW c \in Calls,
               \/ LookupL1(c) \/ AcquireLocks(c) \/ FindExisting(c) \/ Validate(c)
               \/ CacheAnswer(c) \/ ReleaseLocks(c) \/ Crash(c)
        PROVE  RowRules'
    <2>1. /\ UNCHANGED << status, outbox, inflight, key >>
          /\ \E l \in Labels :
                /\ pc' = [pc EXCEPT ![c] = l]
                /\ \/ l \in {"lock", "check", "validate", "cache", "release", "done", "crashed"}
                   \/ l = "open" /\ key[c] \in TransferKeys
                   \/ l = "send" /\ key[c] \notin TransferKeys
      BY <1>1 DEF LookupL1, AcquireLocks, FindExisting, Validate, CacheAnswer, ReleaseLocks,
                  Crash, Throw, Labels, Ended
    <2> QED
      BY <1>0, <2>1, RowsUntouched
  <1>2. ASSUME NEW c \in Calls, OpenRow(c) PROVE RowRules'
    <2>1. CASE UNCHANGED status
      <3>1. ~OpenTransfer(key[c])
        BY <1>0, <2>1 DEF OpenTransfer, TransferKeys, TypeOK, LedgerTypeOK
      <3>2. pc' = [pc EXCEPT ![c] = "release"] /\ UNCHANGED << outbox, inflight, key >>
        BY <1>2, <3>1 DEF OpenRow
      <3> QED
        BY <1>0, <2>1, <3>2, RowsUntouched DEF Labels
    <2>2. CASE ~UNCHANGED status
      <3>1. /\ key[c] \in TransferKeys /\ status[key[c]] = "NONE"
            /\ status' = [status EXCEPT ![key[c]] = "PENDING"]
            /\ pc' = [pc EXCEPT ![c] = "send"] \/ pc' = [pc EXCEPT ![c] = "release"]
            /\ UNCHANGED << outbox, inflight, key >>
        BY <1>2, <2>2 DEF OpenRow, OpenTransfer
      <3>2. \A d \in Calls : Underway(d) => key[d] # key[c]
        BY <3>1 DEF RowRules, DriversRow
      <3>3. \A d \in Calls \ {c} : (Drives(d)' <=> Drives(d)) /\ (Underway(d)' <=> Underway(d))
        BY <1>0, <3>1 DEF Drives, Underway, TypeOK
      <3>4. \A k \in Keys : status'[k] = IF k = key[c] THEN "PENDING" ELSE status[k]
        BY <1>0, <3>1 DEF TypeOK, LedgerTypeOK
      <3>5. PositionsFit'
        BY <1>0, <3>1 DEF RowRules, PositionsFit, TypeOK
      <3>6. OneDriver'
        BY <3>1, <3>2, <3>3 DEF RowRules, OneDriver
      <3>7. \A d \in Calls : key[d] \in Keys /\ key'[d] = key[d]
        BY <1>0, <3>1 DEF TypeOK
      <3>8. \A d \in Calls \ {c} : pc'[d] = pc[d] /\ (Drives(d) => Underway(d))
        BY <1>0, <3>1 DEF TypeOK, Underway
      <3>9. DriversRow'
        BY <3>1, <3>2, <3>3, <3>4, <3>7, <3>8 DEF RowRules, DriversRow
      <3>10. EventsFollowRows'
        BY <3>1, <3>4 DEF RowRules, EventsFollowRows
      <3> QED
        BY <3>5, <3>6, <3>9, <3>10 DEF RowRules
    <2> QED
      BY <2>1, <2>2
  <1>3. ASSUME NEW c \in Calls, SendToLedger(c) \/ Timeout(c) PROVE RowRules'
    <2>1. /\ UNCHANGED << status, outbox, key >>
          /\ pc[c] \in {"send", "await"}
          /\ \A x \in inflight' : x \in inflight \/ x[1] = c
      BY <1>3 DEF SendToLedger, Timeout
    <2>2. PICK l \in Labels :
             /\ pc' = [pc EXCEPT ![c] = l]
             /\ \/ key[c] \in TransferKeys /\ l \in {"send", "await", "finalize", "fail"}
                \/ key[c] \notin TransferKeys /\ l \in {"send", "await", "event", "release"}
      BY <1>3 DEF SendToLedger, Timeout, NextTry, FailureLabel, Labels
    <2> QED
      BY <1>0, <2>1, <2>2, RowsKept
  <1>4. ASSUME NEW x \in inflight, Serve(x) PROVE RowRules'
    <2> DEFINE c == x[1]
    <2>1. c \in Calls /\ key[c] \in Keys
      BY <1>0, InflightFacts
    <2>2. /\ inflight' \subseteq inflight /\ UNCHANGED << outbox, key >>
          /\ pc' # pc => Awaited(x)
      BY <1>4 DEF Serve, LedgerPosts, LedgerRecognises, LedgerRefuses, LedgerFails, Accepted, Reply
    <2>3. CASE key[c] \in TransferKeys
      <3>1. Underway(c)
        BY <2>3 DEF Underway
      <3>2. status[key[c]] # "NONE"
        BY <2>1, <3>1 DEF RowRules, DriversRow
      <3>3. UNCHANGED status
        BY <1>0, <1>4, <2>1, <3>2
        DEF Serve, LedgerPosts, LedgerRecognises, LedgerRefuses, LedgerFails, Post,
            TypeOK, LedgerTypeOK
      <3>4. CASE UNCHANGED pc
        BY <1>0, <2>2, <3>3, <3>4, RowsServed
      <3>5. CASE ~UNCHANGED pc
        <4>1. PICK l \in {"send", "finalize", "fail"} : pc' = [pc EXCEPT ![c] = l]
          BY <1>4, <2>3, <3>5 DEF Serve, LedgerPosts, LedgerRecognises, LedgerRefuses,
                                  LedgerFails, Accepted, Reply, NextTry, FailureLabel
        <4>2. pc[c] = "await"
          BY <2>2, <3>5 DEF Awaited
        <4>3. l \in Labels /\ \A y \in inflight' : y \in inflight
          BY <2>2 DEF Labels
        <4> HIDE DEF c
        <4> QED
          BY <1>0, <2>1, <2>2, <2>3, <3>3, <4>1, <4>2, <4>3, RowsKept
      <3> QED
        BY <3>4, <3>5
    <2>4. CASE key[c] \notin TransferKeys
      <3>1. \/ UNCHANGED status
            \/ /\ status' = [status EXCEPT ![key[c]] = "COMPLETED"]
               /\ status[key[c]] = "NONE"
        BY <1>0, <1>4, <2>1, <2>4
        DEF Serve, LedgerPosts, LedgerRecognises, LedgerRefuses, LedgerFails, Post, Postable,
            StatusOnCreate, TransferKeys
      <3>2. \/ UNCHANGED pc
            \/ \E l \in {"event", "release"} : pc' = [pc EXCEPT ![c] = l]
        BY <1>4, <2>4 DEF Serve, LedgerPosts, LedgerRecognises, LedgerRefuses,
                          LedgerFails, Accepted, Reply, NextTry, FailureLabel
      <3>3. \A d \in Calls : Drives(d)' => Drives(d) /\ pc'[d] = pc[d]
        BY <1>0, <2>1, <2>2, <2>4, <3>2 DEF TypeOK, Drives
      <3>4. \A d \in Calls : Underway(d)' => Underway(d)
        BY <2>2, <3>3 DEF Underway
      <3>5. \A d \in Calls : key[d] \in Keys /\ (Underway(d) => key[d] \in TransferKeys)
        BY <1>0 DEF TypeOK, Underway, Drives
      <3>6. \A k \in Keys : k \in TransferKeys => status'[k] = status[k]
        BY <1>0, <2>1, <2>4, <3>1 DEF TypeOK, LedgerTypeOK
      <3>7. PositionsFit'
        BY <1>0, <2>1, <2>2, <2>4, <3>2 DEF RowRules, PositionsFit, TypeOK
      <3>8. OneDriver'
        BY <2>2, <3>4 DEF RowRules, OneDriver
      <3>9. DriversRow'
        BY <2>2, <3>3, <3>4, <3>5, <3>6 DEF RowRules, DriversRow, Underway
      <3>10. EventsFollowRows'
        BY <1>0, <2>1, <2>2, <2>4, <3>1, <3>6 DEF RowRules, EventsFollowRows, TypeOK, LedgerTypeOK
      <3> QED
        BY <3>7, <3>8, <3>9, <3>10 DEF RowRules
    <2> QED
      BY <2>3, <2>4
  <1>5. ASSUME NEW c \in Calls, Finalize(c) \/ MarkFailed(c) PROVE RowRules'
    <2>1. key[c] \in Keys /\ key[c] \in TransferKeys /\ Drives(c) /\ Underway(c)
      BY <1>0, <1>5 DEF TypeOK, RowRules, PositionsFit, Finalize, MarkFailed, Drives, Underway
    <2>2. /\ UNCHANGED << inflight, key >>
          /\ \/ /\ pc[c] = "finalize"
                /\ pc' = [pc EXCEPT ![c] = "cache"] \/ pc' = [pc EXCEPT ![c] = "fail"]
                /\ status' = [status EXCEPT ![key[c]] = "COMPLETED"]
                /\ outbox' = [outbox EXCEPT ![key[c]] = @ + 1]
             \/ /\ pc[c] = "finalize"
                /\ pc' = [pc EXCEPT ![c] = "fail"]
                /\ UNCHANGED << status, outbox >>
             \/ /\ pc[c] = "fail"
                /\ pc' = [pc EXCEPT ![c] = "release"]
                /\ status' = [status EXCEPT ![key[c]] = "FAILED"] \/ status' = status
                /\ UNCHANGED outbox
      BY <1>5 DEF Finalize, MarkFailed, Complete, Throw
    <2>3. \A d \in Calls \ {c} : Underway(d) => key[d] # key[c]
      BY <2>1 DEF RowRules, OneDriver
    <2>4. \A d \in Calls \ {c} : /\ pc'[d] = pc[d] /\ (Drives(d)' <=> Drives(d))
                                 /\ (Underway(d)' <=> Underway(d)) /\ (Drives(d) => Underway(d))
      BY <1>0, <2>2 DEF TypeOK, Drives, Underway
    <2>5. \A k \in Keys \ {key[c]} : status'[k] = status[k] /\ outbox'[k] = outbox[k]
      BY <1>0, <2>2 DEF TypeOK, LedgerTypeOK
    <2>6. PositionsFit'
      BY <1>0, <2>1, <2>2 DEF RowRules, PositionsFit, TypeOK
    <2>7. OneDriver'
      BY <2>1, <2>2, <2>3, <2>4 DEF RowRules, OneDriver
    <2>8. status[key[c]] # "NONE" /\ (pc[c] = "finalize" => status[key[c]] = "PENDING")
      BY <2>1 DEF RowRules, DriversRow
    <2>9. DriversRow'
      <3>1. \A d \in Calls : key[d] \in Keys
        BY <1>0 DEF TypeOK
      <3>2. \A d \in Calls \ {c} :
               /\ Underway(d)' => status'[key[d]] # "NONE"
               /\ Drives(d)' => \/ status'[key[d]] = "PENDING"
                                \/ pc'[d] = "fail" /\ status'[key[d]] = "COMPLETED"
        BY <2>3, <2>4, <2>5, <3>1 DEF RowRules, DriversRow
      <3>3. status'[key[c]] # "NONE"
        BY <1>0, <2>1, <2>2, <2>8 DEF TypeOK, LedgerTypeOK
      <3>4. Drives(c)' => \/ status'[key[c]] = "PENDING"
                          \/ pc'[c] = "fail" /\ status'[key[c]] = "COMPLETED"
        BY <1>0, <2>1, <2>2, <2>8 DEF TypeOK, LedgerTypeOK, Drives
      <3> QED
        BY <2>2, <3>2, <3>3, <3>4 DEF DriversRow
    <2>10. EventsFollowRows'
      <3>1. outbox[key[c]] \in Nat
        BY <1>0, <2>1 DEF TypeOK
      <3>2. /\ status'[key[c]] \in {"NONE", "PENDING"} => outbox'[key[c]] = 0
            /\ status'[key[c]] = "COMPLETED" => outbox'[key[c]] = 1
            /\ outbox'[key[c]] <= 1
        BY <1>0, <2>1, <2>2, <2>8, <3>1 DEF TypeOK, LedgerTypeOK, RowRules, EventsFollowRows
      <3> QED
        BY <2>1, <2>5, <3>2 DEF RowRules, EventsFollowRows
    <2> QED
      BY <2>6, <2>7, <2>9, <2>10 DEF RowRules
  <1>6. ASSUME NEW c \in Calls, RecordEvent(c) PROVE RowRules'
    <2>1. key[c] \in Keys /\ key[c] \notin TransferKeys /\ status[key[c]] # "NONE"
      BY <1>0, <1>6 DEF TypeOK, RowRules, PositionsFit, EntriesBehind, RecordEvent
    <2>2. /\ pc' = [pc EXCEPT ![c] = "cache"] /\ UNCHANGED << status, inflight, key >>
          /\ outbox' = [outbox EXCEPT ![key[c]] = @ + 1] \/ outbox' = outbox
      BY <1>6 DEF RecordEvent
    <2>3. \A d \in Calls : Drives(d)' => Drives(d) /\ pc'[d] = pc[d]
      BY <1>0, <2>2 DEF TypeOK, Drives
    <2>4. \A d \in Calls : Underway(d)' => Underway(d)
      BY <2>2, <2>3 DEF Underway
    <2>5. PositionsFit'
      BY <1>0, <2>2 DEF TypeOK, RowRules, PositionsFit
    <2>6. OneDriver' /\ DriversRow'
      BY <2>2, <2>3, <2>4 DEF RowRules, OneDriver, DriversRow
    <2>7. \A k \in Keys : k # key[c] => outbox'[k] = outbox[k]
      BY <1>0, <2>2 DEF TypeOK
    <2>8. EventsFollowRows'
      BY <2>1, <2>2, <2>7 DEF RowRules, EventsFollowRows
    <2> QED
      BY <2>5, <2>6, <2>8 DEF RowRules
  <1>7. ASSUME NEW a \in Accounts, Expire(a) PROVE RowRules'
    BY <1>0, <1>7, RowsServed DEF Expire, callVars
  <1>8. ASSUME NEW k \in Keys, Forget(k) PROVE RowRules'
    BY <1>0, <1>8, RowsServed DEF Forget, callVars
  <1>9. CASE UNCHANGED vars
    BY <1>0, <1>9, RowsServed DEF vars, sagaVars, callVars
  <1> QED
    BY <1>1, <1>2, <1>3, <1>4, <1>5, <1>6, <1>7, <1>8, <1>9 DEF Next, Step

-----------------------------------------------------------------------------
(* Whatever speaks of a payment as done has ledger entries behind it.      *)
LEMMA EntriesInit == Init => EntriesBehind
  BY LedgerAssumption DEF Init, LedgerInit, EntriesBehind, HasEntries

(* A step that posts nothing, and speaks of no other payment as done.      *)
LEMMA NothingNewSaid ==
    ASSUME EntriesBehind, UNCHANGED << entries, key >>,
           \A k \in Keys : /\ outbox'[k] > 0 => outbox[k] > 0 \/ HasEntries(entries, k)
                           /\ status'[k] = "COMPLETED" => \/ status[k] = "COMPLETED"
                                                          \/ HasEntries(entries, k)
                           /\ l1'[k] = "COMPLETED" => \/ l1[k] = "COMPLETED"
                                                      \/ HasEntries(entries, k)
                           /\ status'[k] = "NONE" => status[k] = "NONE",
           \A c \in Calls :
              /\ pc'[c] \in {"finalize", "event"} => \/ pc[c] \in {"finalize", "event"}
                                                     \/ HasEntries(entries, key[c])
              /\ answer'[c] = "COMPLETED" => \/ answer[c] = "COMPLETED"
                                             \/ HasEntries(entries, key[c])
    PROVE  EntriesBehind'
  BY DEF EntriesBehind

LEMMA EntriesStep == ClaimInv /\ [Next]_vars => EntriesBehind'
  <1> SUFFICES ASSUME TypeInv, RowRules, EntriesBehind, [Next]_vars PROVE EntriesBehind'
    BY DEF ClaimInv
  <1> USE DEF Goto, ledgerVars
  <1>0. TypeOK /\ LedgerTypeOK
    BY DEF TypeInv, TypeOK
  <1>1. ASSUME NEW c \in Calls, LookupL1(c) \/ FindExisting(c) PROVE EntriesBehind'
    <2>1. key[c] \in Keys
      BY <1>0 DEF TypeOK
    <2>2. /\ UNCHANGED << ledgerVars, outbox, l1, key >>
          /\ \E l \in {"done", "lock", "cache", "validate", "release"} : pc' = [pc EXCEPT ![c] = l]
          /\ \/ answer' = answer \/ answer' = [answer EXCEPT ![c] = l1[key[c]]]
             \/ answer' = [answer EXCEPT ![c] = status[key[c]]]
      BY <1>1 DEF LookupL1, FindExisting, Answer, Throw
    <2>3. \A d \in Calls : /\ pc'[d] \in {"finalize", "event"} => pc[d] \in {"finalize", "event"}
                           /\ answer'[d] = "COMPLETED" => \/ answer[d] = "COMPLETED"
                                                          \/ HasEntries(entries, key[d])
      BY <1>0, <2>1, <2>2 DEF TypeOK, EntriesBehind
    <2> QED
      BY <2>2, <2>3, NothingNewSaid
  <1>2. ASSUME NEW c \in Calls,
               \/ AcquireLocks(c) \/ Validate(c) \/ SendToLedger(c) \/ ReleaseLocks(c)
               \/ Timeout(c) \/ Crash(c)
        PROVE  EntriesBehind'
    <2>1. UNCHANGED << ledgerVars, outbox, l1, key, answer >>
      BY <1>2 DEF AcquireLocks, Validate, SendToLedger, ReleaseLocks, Timeout, Crash
    <2>2. \/ \E l \in {"check", "done", "open", "send", "release", "await", "fail", "crashed"} :
                pc' = [pc EXCEPT ![c] = l]
      BY <1>2 DEF AcquireLocks, Validate, SendToLedger, ReleaseLocks, Timeout, Crash, NextTry,
                  FailureLabel
    <2>3. \A d \in Calls : pc'[d] \in {"finalize", "event"} => pc[d] \in {"finalize", "event"}
      BY <1>0, <2>2 DEF TypeOK
    <2> QED
      BY <2>1, <2>3, NothingNewSaid
  <1>3. ASSUME NEW c \in Calls, OpenRow(c) \/ MarkFailed(c) PROVE EntriesBehind'
    <2>1. /\ UNCHANGED << entries, outbox, l1, key, answer >>
          /\ \E l \in {"send", "release"} : pc' = [pc EXCEPT ![c] = l]
          /\ \/ status' = status
             \/ \E s \in {"PENDING", "FAILED"} : status' = [status EXCEPT ![key[c]] = s]
      BY <1>3 DEF OpenRow, OpenTransfer, MarkFailed, Throw
    <2>2. /\ \A d \in Calls : pc'[d] \in {"finalize", "event"} => pc[d] \in {"finalize", "event"}
          /\ \A k \in Keys : /\ status'[k] = "COMPLETED" => status[k] = "COMPLETED"
                             /\ status'[k] = "NONE" => status[k] = "NONE"
      BY <1>0, <2>1 DEF TypeOK, LedgerTypeOK
    <2> QED
      BY <2>1, <2>2, NothingNewSaid
  <1>4. ASSUME NEW x \in inflight, Serve(x) PROVE EntriesBehind'
    <2> DEFINE c == x[1]
    <2>1. c \in Calls /\ key[c] \in Keys
      BY <1>0, InflightFacts
    <2>2. UNCHANGED << outbox, l1, key, answer >>
      BY <1>4 DEF Serve
    <2>3. CASE LedgerPosts(x)
      <3>1. Post(key[c]) /\ Accepted(x)
        BY <2>3 DEF LedgerPosts
      <3>2. /\ HasEntries(entries', key[c])
            /\ \A j \in Keys : HasEntries(entries, j) => HasEntries(entries', j)
            /\ \A j \in Keys \ {key[c]} : HasEntries(entries', j) => HasEntries(entries, j)
        BY <1>0, <2>1, <3>1, PostFacts
      <3>3. \A k \in Keys : k # key[c] => status'[k] = status[k]
        BY <1>0, <2>1, <3>1 DEF Post, LedgerTypeOK
      <3>4. status'[key[c]] # "NONE"
        BY <1>0, <2>1, <3>1 DEF Post, LedgerTypeOK, StatusOnCreate
      <3>5. \A d \in Calls : d # c => pc'[d] = pc[d]
        BY <1>0, <2>1, <3>1 DEF Accepted, Reply, TypeOK
      <3>6. \A d \in Calls : key[d] \in Keys
        BY <1>0 DEF TypeOK
      <3> HIDE DEF c
      <3> QED
        BY <2>1, <2>2, <3>2, <3>3, <3>4, <3>5, <3>6 DEF EntriesBehind
    <2>4. CASE ~LedgerPosts(x)
      <3>1. UNCHANGED ledgerVars
        BY <1>4, <2>4 DEF Serve, LedgerRecognises, LedgerRefuses, LedgerFails
      <3>2. \A d \in Calls : /\ pc'[d] \in {"finalize", "event"} => \/ pc[d] \in {"finalize", "event"}
                                                                   \/ HasEntries(entries, key[d])
        BY <1>0, <1>4, <2>1, <2>4
        DEF Serve, LedgerRecognises, LedgerRefuses, LedgerFails, IsDuplicate, Accepted, Reply,
            NextTry, FailureLabel, TypeOK
      <3> QED
        BY <2>2, <3>1, <3>2, NothingNewSaid
    <2> QED
      BY <2>3, <2>4
  <1>5. ASSUME NEW c \in Calls, Finalize(c) \/ RecordEvent(c) PROVE EntriesBehind'
    <2>1. key[c] \in Keys /\ HasEntries(entries, key[c])
      BY <1>0, <1>5 DEF TypeOK, EntriesBehind, Finalize, RecordEvent
    <2>2. /\ UNCHANGED << entries, l1, key >>
          /\ pc' = [pc EXCEPT ![c] = "cache"] \/ pc' = [pc EXCEPT ![c] = "fail"]
          /\ answer' = [answer EXCEPT ![c] = "COMPLETED"] \/ answer' = answer
          /\ outbox' = [outbox EXCEPT ![key[c]] = @ + 1] \/ outbox' = outbox
          /\ status' = [status EXCEPT ![key[c]] = "COMPLETED"] \/ status' = status
      BY <1>5 DEF Finalize, RecordEvent, Complete, Answer
    <2>3. \A d \in Calls : /\ pc'[d] \in {"finalize", "event"} => pc[d] \in {"finalize", "event"}
                           /\ d # c => answer'[d] = answer[d]
      BY <1>0, <2>2 DEF TypeOK
    <2>4. \A k \in Keys : /\ k # key[c] => outbox'[k] = outbox[k] /\ status'[k] = status[k]
                          /\ status'[k] = "NONE" => status[k] = "NONE"
      BY <1>0, <2>1, <2>2 DEF TypeOK, LedgerTypeOK
    <2> QED
      BY <2>1, <2>2, <2>3, <2>4, NothingNewSaid
  <1>6. ASSUME NEW c \in Calls, CacheAnswer(c) PROVE EntriesBehind'
    <2>1. /\ UNCHANGED << ledgerVars, outbox, key, answer >>
          /\ pc' = [pc EXCEPT ![c] = "release"]
          /\ l1' = [l1 EXCEPT ![key[c]] = answer[c]] \/ l1' = l1
      BY <1>6 DEF CacheAnswer
    <2>2. \A k \in Keys : l1'[k] = "COMPLETED" => l1[k] = "COMPLETED" \/ HasEntries(entries, k)
      BY <1>0, <2>1 DEF TypeOK, EntriesBehind
    <2>3. \A d \in Calls : pc'[d] \in {"finalize", "event"} => pc[d] \in {"finalize", "event"}
      BY <1>0, <2>1 DEF TypeOK
    <2> QED
      BY <2>1, <2>2, <2>3, NothingNewSaid
  <1>7. ASSUME NEW a \in Accounts, Expire(a) PROVE EntriesBehind'
    BY <1>7, NothingNewSaid DEF Expire, callVars
  <1>8. ASSUME NEW k \in Keys, Forget(k) PROVE EntriesBehind'
    <2>1. \A j \in Keys : l1'[j] = "COMPLETED" => l1[j] = "COMPLETED"
      BY <1>0, <1>8 DEF Forget, TypeOK
    <2> QED
      BY <1>8, <2>1, NothingNewSaid DEF Forget, callVars
  <1>9. CASE UNCHANGED vars
    BY <1>9, NothingNewSaid DEF vars, sagaVars, callVars
  <1> QED
    BY <1>1, <1>2, <1>3, <1>4, <1>5, <1>6, <1>7, <1>8, <1>9 DEF Next, Step

LEMMA ClaimInit == Init => ClaimInv
  BY TypeInit, RowInit, EntriesInit DEF ClaimInv

LEMMA ClaimStep == ClaimInv /\ [Next]_vars => ClaimInv'
  BY TypeStep, RowStep, EntriesStep DEF ClaimInv

(* Under every fault, in every order: a row, an event or an answer that    *)
(* says a payment is done is right.                                        *)
THEOREM ClaimsAreTrue == Spec => []NothingClaimedFalsely
  <1>1. ClaimInv => NothingClaimedFalsely
    BY DEF ClaimInv, TypeInv, TypeOK, RowRules, EventsFollowRows, EntriesBehind,
           NothingClaimedFalsely, CompletedMeansPosted, EventMeansMoney, HonestAnswer, TransferKeys
  <1> QED
    BY <1>1, ClaimInit, ClaimStep, PTL DEF Spec

-----------------------------------------------------------------------------
(* payment-service writes a row only as the atomic ledger lets it.         *)
LEMMA LedgerStep == ClaimInv /\ [Next]_vars => [LedgerNext]_ledgerVars
  <1> SUFFICES ASSUME TypeOK, RowRules, EntriesBehind, [Next]_vars PROVE [LedgerNext]_ledgerVars
    BY DEF ClaimInv, TypeInv
  <1>1. ASSUME NEW c \in Calls, OpenRow(c) PROVE [LedgerNext]_ledgerVars
    <2>1. key[c] \in Keys
      BY DEF TypeOK
    <2> QED
      BY <1>1, <2>1 DEF OpenRow, LedgerNext
  <1>2. ASSUME NEW x \in inflight, Serve(x) PROVE [LedgerNext]_ledgerVars
    <2>1. key[x[1]] \in Keys
      BY InflightFacts
    <2> QED
      BY <1>2, <2>1
      DEF Serve, LedgerPosts, LedgerRecognises, LedgerRefuses, LedgerFails, LedgerNext
  <1>3. ASSUME NEW c \in Calls, Finalize(c) \/ MarkFailed(c) PROVE [LedgerNext]_ledgerVars
    <2>1. key[c] \in Keys /\ key[c] \in TransferKeys /\ Drives(c)
      BY <1>3 DEF TypeOK, RowRules, PositionsFit, Finalize, MarkFailed, Drives
    <2>2. \/ status[key[c]] = "PENDING"
          \/ pc[c] = "fail" /\ status[key[c]] = "COMPLETED"
      BY <2>1 DEF RowRules, DriversRow
    <2>3. CASE Complete(c) /\ pc[c] = "finalize"
      <3>1. CloseTransfer(key[c], "COMPLETED")
        BY <2>1, <2>2, <2>3 DEF Complete, CloseTransfer, EntriesBehind
      <3> QED
        BY <2>1, <3>1 DEF LedgerNext
    <2>4. CASE MarkFailed(c) /\ status' = [status EXCEPT ![key[c]] = "FAILED"]
      <3>1. CloseTransfer(key[c], "FAILED")
        BY <2>1, <2>2, <2>4 DEF MarkFailed, CloseTransfer
      <3> QED
        BY <2>1, <3>1 DEF LedgerNext
    <2>5. CASE UNCHANGED ledgerVars
      BY <2>5
    <2> QED
      BY <1>3, <2>3, <2>4, <2>5 DEF Finalize, MarkFailed, ledgerVars
  <1>4. ASSUME NEW c \in Calls,
               \/ LookupL1(c) \/ AcquireLocks(c) \/ FindExisting(c) \/ Validate(c)
               \/ SendToLedger(c) \/ RecordEvent(c) \/ CacheAnswer(c) \/ ReleaseLocks(c)
               \/ Timeout(c) \/ Crash(c)
        PROVE  UNCHANGED ledgerVars
    BY <1>4 DEF LookupL1, AcquireLocks, FindExisting, Validate, SendToLedger, RecordEvent,
                CacheAnswer, ReleaseLocks, Timeout, Crash
  <1>5. ASSUME NEW a \in Accounts, Expire(a) PROVE UNCHANGED ledgerVars
    BY <1>5 DEF Expire
  <1>6. ASSUME NEW k \in Keys, Forget(k) PROVE UNCHANGED ledgerVars
    BY <1>6 DEF Forget
  <1>7. CASE UNCHANGED vars
    BY <1>7 DEF vars, sagaVars
  <1> QED
    BY <1>1, <1>2, <1>3, <1>4, <1>5, <1>6, <1>7 DEF Next, Step

(* The saga plays its part in what ledger-service promises: it opens the   *)
(* row of a transfer once, completes it only after its money has moved,    *)
(* and never touches a row it did not open.                                *)
THEOREM SagaKeepsPromise == Spec => KeepsLedgerPromise
  <1>1. Init => LedgerInit
    BY DEF Init
  <1> QED
    BY <1>1, ClaimInit, ClaimStep, LedgerStep, PTL DEF Spec, KeepsLedgerPromise, LedgerSpec

-----------------------------------------------------------------------------
(***************************************************************************)
(* What the account locks add as long as none expires under its holder.    *)
(***************************************************************************)
Locked == {"check", "validate", "open", "send", "await", "finalize", "event", "fail", "cache",
           "release"}

(* A call at work holds its accounts. *)
HoldsLegs == \A c \in Calls : pc[c] \in Locked => \A a \in Legs(key[c]) : holder[a] = c

(* What a call caches is what its row says, and nobody is about to change  *)
(* the row; a cash operation leaves the first event of its key.            *)
RecordsFollowRows ==
    /\ \A k \in Keys : /\ outbox[k] <= 1
                       /\ l1[k] # "NONE" => /\ l1[k] = status[k]
                                            /\ \A c \in Calls : Drives(c) => key[c] # k
    /\ \A c \in Calls :
          /\ pc[c] = "cache" => answer[c] = status[key[c]]
          /\ key[c] \notin TransferKeys /\ pc[c] \in {"validate", "send", "await", "event"} =>
                 outbox[key[c]] = 0

LockRules == Without({"expiry"}) => HoldsLegs /\ RecordsFollowRows

(* Who holds the accounts of a key holds them alone. *)
LEMMA LockedAlone ==
    ASSUME TypeOK, HoldsLegs, NEW c \in Calls, NEW d \in Calls,
           pc[c] \in Locked, pc[d] \in Locked, Legs(key[c]) \cap Legs(key[d]) # {}
    PROVE  c = d
  BY DEF HoldsLegs

LEMMA SameKeyAlone ==
    ASSUME TypeOK, HoldsLegs, NEW c \in Calls, NEW d \in Calls,
           pc[c] \in Locked, pc[d] \in Locked, key[c] = key[d]
    PROVE  c = d
  <1>1. Legs(key[c]) # {}
    BY RequestFacts DEF TypeOK
  <1> QED
    BY <1>1, LockedAlone

LEMMA LockInit == Init => LockRules
  BY DEF Init, LedgerInit, LockRules, HoldsLegs, RecordsFollowRows, Locked, Drives

LEMMA HoldsStep ==
    ASSUME TypeOK, HoldsLegs, [Next]_vars, Without({"expiry"})
    PROVE  HoldsLegs'
  <1> USE DEF Goto, Locked
  <1>1. ASSUME NEW c \in Calls, AcquireLocks(c) PROVE HoldsLegs'
    <2>1. CASE pc' = [pc EXCEPT ![c] = "done"] /\ UNCHANGED << holder, key >>
      BY <2>1 DEF HoldsLegs, TypeOK
    <2>2. CASE /\ LegsFree(key[c]) /\ pc[c] = "lock" /\ pc' = [pc EXCEPT ![c] = "check"]
               /\ holder' = [a \in Accounts |-> IF a \in Legs(key[c]) THEN c ELSE holder[a]]
               /\ UNCHANGED key
      <3>1. \A d \in Calls : Legs(key[d]) \subseteq Accounts
        BY RequestFacts DEF TypeOK
      <3>2. \A d \in Calls : d # Free
        BY PaymentAssumption
      <3> QED
        BY <2>2, <3>1, <3>2 DEF HoldsLegs, LegsFree, TypeOK
    <2> QED
      BY <1>1, <2>1, <2>2 DEF AcquireLocks
  <1>2. ASSUME NEW c \in Calls, ReleaseLocks(c) PROVE HoldsLegs'
    <2>1. \A d \in Calls : Legs(key[d]) \subseteq Accounts
      BY RequestFacts DEF TypeOK
    <2>2. /\ pc' = [pc EXCEPT ![c] = "done"] /\ UNCHANGED key
          /\ \/ holder' = [a \in Accounts |-> IF holder[a] = c THEN Free ELSE holder[a]]
             \/ holder' = holder
      BY <1>2 DEF ReleaseLocks
    <2> QED
      BY <2>1, <2>2 DEF HoldsLegs, TypeOK
  <1>3. ASSUME NEW c \in Calls,
               \/ LookupL1(c) \/ FindExisting(c) \/ Validate(c) \/ OpenRow(c) \/ SendToLedger(c)
               \/ Finalize(c) \/ RecordEvent(c) \/ MarkFailed(c) \/ CacheAnswer(c)
               \/ Timeout(c) \/ Crash(c)
        PROVE  HoldsLegs'
    <2>1. /\ UNCHANGED << holder, key >>
          /\ \E l \in Labels : /\ pc' = [pc EXCEPT ![c] = l]
                               /\ l \in Locked => pc[c] \in Locked
      BY <1>3 DEF LookupL1, FindExisting, Validate, OpenRow, SendToLedger, Finalize, RecordEvent,
                  MarkFailed, CacheAnswer, Timeout, Crash, Throw, NextTry, FailureLabel, Labels,
                  Ended
    <2> QED
      BY <2>1 DEF HoldsLegs, TypeOK
  <1>4. ASSUME NEW x \in inflight, Serve(x) PROVE HoldsLegs'
    <2>1. UNCHANGED << holder, key >> /\ x[1] \in Calls
      BY <1>4, InflightFacts DEF Serve
    <2>2. \/ UNCHANGED pc
          \/ \E l \in Labels : pc' = [pc EXCEPT ![x[1]] = l] /\ pc[x[1]] = "await"
      BY <1>4 DEF Serve, LedgerPosts, LedgerRecognises, LedgerRefuses, LedgerFails, Accepted,
                  Reply, Awaited, NextTry, FailureLabel, Labels
    <2> QED
      BY <2>1, <2>2 DEF HoldsLegs, TypeOK
  <1>5. ASSUME NEW a \in Accounts, Expire(a) PROVE HoldsLegs'
    <2>1. pc[holder[a]] \in Ended /\ holder' = [holder EXCEPT ![a] = Free] /\ UNCHANGED << pc, key >>
      BY <1>5 DEF Expire, Without, callVars
    <2> QED
      BY <2>1 DEF HoldsLegs, TypeOK, Ended
  <1>6. ASSUME NEW k \in Keys, Forget(k) PROVE HoldsLegs'
    BY <1>6 DEF Forget, callVars, HoldsLegs
  <1>7. CASE UNCHANGED vars
    BY <1>7 DEF vars, sagaVars, callVars, HoldsLegs
  <1> QED
    BY <1>1, <1>2, <1>3, <1>4, <1>5, <1>6, <1>7 DEF Next, Step

(* A step that writes no event and no record, and changes no row that      *)
(* is there.                                                               *)
LEMMA RecordsKept ==
    ASSUME TypeOK, RecordsFollowRows, UNCHANGED << outbox, key, answer >>,
           \A k \in Keys : /\ l1'[k] # "NONE" => l1'[k] = l1[k]
                           /\ status[k] # "NONE" => status'[k] = status[k],
           \A c \in Calls :
              /\ Drives(c)' => Drives(c) \/ status[key[c]] = "NONE"
              /\ pc'[c] = "cache" => pc[c] = "cache"
              /\ /\ key[c] \notin TransferKeys
                 /\ pc'[c] \in {"validate", "send", "await", "event"}
                 => pc[c] \in {"validate", "send", "await", "event"} \/ outbox[key[c]] = 0
    PROVE  RecordsFollowRows'
  <1>1. \A c \in Calls : key[c] \in Keys /\ (pc[c] = "cache" => answer[c] # "NONE")
    BY DEF TypeOK
  <1> QED
    BY <1>1 DEF RecordsFollowRows

LEMMA RecordsStep ==
    ASSUME ClaimInv, HoldsLegs, RecordsFollowRows, [Next]_vars
    PROVE  RecordsFollowRows'
  <1> USE DEF Goto, ledgerVars
  <1>0. TypeOK /\ LedgerTypeOK /\ TriesLeft /\ RowRules /\ EntriesBehind
    BY DEF ClaimInv, TypeInv, TypeOK
  <1>1. ASSUME NEW c \in Calls,
               \/ LookupL1(c) /\ pc' = [pc EXCEPT ![c] = "lock"] /\ UNCHANGED answer
               \/ AcquireLocks(c) \/ Validate(c) \/ SendToLedger(c) \/ ReleaseLocks(c)
               \/ Timeout(c) \/ Crash(c)
        PROVE  RecordsFollowRows'
    <2>1. UNCHANGED << ledgerVars, outbox, l1, key, answer >>
      BY <1>1 DEF LookupL1, AcquireLocks, Validate, SendToLedger, ReleaseLocks, Timeout, Crash
    <2>2. \E l \in {"lock", "check", "done", "open", "send", "release", "await", "fail", "crashed"} :
             /\ pc' = [pc EXCEPT ![c] = l]
             /\ l \in {"send", "await"} => pc[c] \in {"validate", "send", "await"}
             /\ key[c] \in TransferKeys /\ l \in {"send", "await", "fail"} => pc[c] \in {"send", "await"}
             /\ l = "fail" => key[c] \in TransferKeys
      BY <1>1 DEF LookupL1, AcquireLocks, Validate, SendToLedger, ReleaseLocks, Timeout, Crash,
                  NextTry, FailureLabel
    <2>3. \A d \in Calls :
             /\ Drives(d)' => Drives(d)
             /\ pc'[d] = "cache" => pc[d] = "cache"
             /\ /\ key[d] \notin TransferKeys
                /\ pc'[d] \in {"validate", "send", "await", "event"}
                => pc[d] \in {"validate", "send", "await", "event"}
      BY <1>0, <2>1, <2>2 DEF TypeOK, Drives
    <2> QED
      BY <1>0, <2>1, <2>3, RecordsKept
  <1>2. ASSUME NEW c \in Calls,
               \/ LookupL1(c) /\ pc' = [pc EXCEPT ![c] = "done"]
               \/ FindExisting(c)
        PROVE  RecordsFollowRows'
    <2>1. key[c] \in Keys /\ UNCHANGED << ledgerVars, outbox, l1, key >>
      BY <1>0, <1>2 DEF TypeOK, LookupL1, FindExisting
    <2>2. \/ /\ pc' = [pc EXCEPT ![c] = "done"]
             /\ \/ answer' = [answer EXCEPT ![c] = l1[key[c]]]
                \/ answer' = answer
          \/ pc' = [pc EXCEPT ![c] = "release"] /\ UNCHANGED answer
          \/ /\ pc' = [pc EXCEPT ![c] = "cache"]
             /\ answer' = [answer EXCEPT ![c] = status[key[c]]]
          \/ /\ pc' = [pc EXCEPT ![c] = "validate"] /\ UNCHANGED answer
             /\ status[key[c]] = "NONE"
      BY <1>2 DEF LookupL1, FindExisting, Answer, Throw
    <2>3. status[key[c]] = "NONE" => outbox[key[c]] = 0
      BY <1>0, <2>1 DEF RowRules, EventsFollowRows
    <2>4. \A d \in Calls :
             /\ Drives(d)' => Drives(d)
             /\ d # c => pc'[d] = pc[d] /\ answer'[d] = answer[d]
             /\ pc'[c] = "cache" => answer'[c] = status[key[c]]
             /\ pc'[c] \in {"validate", "send", "await", "event"} => outbox[key[c]] = 0
      BY <1>0, <2>1, <2>2, <2>3 DEF TypeOK, Drives
    <2> QED
      BY <2>1, <2>4 DEF RecordsFollowRows
  <1>3. ASSUME NEW c \in Calls, OpenRow(c) PROVE RecordsFollowRows'
    <2>1. key[c] \in Keys /\ key[c] \in TransferKeys
      BY <1>0, <1>3 DEF TypeOK, RowRules, PositionsFit, OpenRow
    <2>2. /\ UNCHANGED << outbox, l1, key, answer >>
          /\ \/ status' = status /\ pc' = [pc EXCEPT ![c] = "release"]
             \/ /\ status[key[c]] = "NONE" /\ status' = [status EXCEPT ![key[c]] = "PENDING"]
                /\ pc' = [pc EXCEPT ![c] = "send"] \/ pc' = [pc EXCEPT ![c] = "release"]
      BY <1>3 DEF OpenRow, OpenTransfer
    <2>3. \A d \in Calls :
             /\ Drives(d)' => Drives(d) \/ status[key[d]] = "NONE"
             /\ pc'[d] = "cache" => pc[d] = "cache"
             /\ /\ key[d] \notin TransferKeys
                /\ pc'[d] \in {"validate", "send", "await", "event"}
                => pc[d] \in {"validate", "send", "await", "event"}
      BY <1>0, <2>1, <2>2 DEF TypeOK, Drives
    <2>4. \A k \in Keys : status[k] # "NONE" => status'[k] = status[k]
      BY <1>0, <2>1, <2>2 DEF LedgerTypeOK
    <2> QED
      BY <1>0, <2>2, <2>3, <2>4, RecordsKept
  <1>4. ASSUME NEW x \in inflight, Serve(x) PROVE RecordsFollowRows'
    <2>1. x[1] \in Calls /\ key[x[1]] \in Keys /\ UNCHANGED << l1, outbox, key, answer >>
      BY <1>0, <1>4, InflightFacts DEF Serve
    <2>2. \/ UNCHANGED pc
          \/ /\ pc[x[1]] = "await"
             /\ \/ /\ key[x[1]] \in TransferKeys
                   /\ \E l \in {"finalize", "fail", "send"} : pc' = [pc EXCEPT ![x[1]] = l]
                \/ /\ key[x[1]] \notin TransferKeys
                   /\ \E l \in {"event", "release"} : pc' = [pc EXCEPT ![x[1]] = l]
      BY <1>4 DEF Serve, LedgerPosts, LedgerRecognises, LedgerRefuses, LedgerFails, Accepted,
                  Reply, Awaited, NextTry, FailureLabel
    <2>3. \A k \in Keys : status[k] # "NONE" => status'[k] = status[k]
      BY <1>0, <1>4, <2>1
      DEF Serve, LedgerPosts, LedgerRecognises, LedgerRefuses, LedgerFails, Post, LedgerTypeOK
    <2>4. \A d \in Calls :
             /\ Drives(d)' => Drives(d)
             /\ pc'[d] = "cache" => pc[d] = "cache"
             /\ /\ key[d] \notin TransferKeys
                /\ pc'[d] \in {"validate", "send", "await", "event"}
                => pc[d] \in {"validate", "send", "await", "event"}
      BY <1>0, <2>1, <2>2 DEF TypeOK, Drives
    <2> QED
      BY <1>0, <2>1, <2>3, <2>4, RecordsKept
  <1>5. ASSUME NEW c \in Calls, Finalize(c) \/ MarkFailed(c) \/ RecordEvent(c)
        PROVE  RecordsFollowRows'
    <2>1. key[c] \in Keys /\ pc[c] \in {"finalize", "fail", "event"}
      BY <1>0, <1>5 DEF TypeOK, Finalize, MarkFailed, RecordEvent
    <2>2. \A d \in Calls \ {c} : key[d] = key[c] => pc[d] \notin Locked
      BY <1>0, <2>1, SameKeyAlone DEF Locked
    <2>3. /\ UNCHANGED << l1, key >>
          /\ \/ /\ pc' = [pc EXCEPT ![c] = "cache"] /\ answer' = [answer EXCEPT ![c] = "COMPLETED"]
             \/ /\ pc' = [pc EXCEPT ![c] = "fail"] /\ answer' = answer /\ pc[c] = "finalize"
             \/ pc' = [pc EXCEPT ![c] = "release"] /\ answer' = answer
          /\ \/ /\ key[c] \in TransferKeys
                /\ \E s \in {"COMPLETED", "FAILED"} : status' = [status EXCEPT ![key[c]] = s]
             \/ status' = status
          /\ outbox' = [outbox EXCEPT ![key[c]] = @ + 1] \/ outbox' = outbox
          /\ pc'[c] = "cache" => \/ status' = [status EXCEPT ![key[c]] = "COMPLETED"]
                                 \/ status' = status /\ pc[c] = "event"
          /\ outbox' # outbox => pc[c] \in {"finalize", "event"}
      BY <1>0, <1>5
      DEF Finalize, MarkFailed, RecordEvent, Complete, Answer, Throw, TypeOK, RowRules, PositionsFit
    <2>4. \A k \in Keys \ {key[c]} : status'[k] = status[k] /\ outbox'[k] = outbox[k]
      BY <1>0, <2>1, <2>3 DEF TypeOK, LedgerTypeOK
    <2>5. \A d \in Calls \ {c} : pc'[d] = pc[d] /\ answer'[d] = answer[d] /\ (Drives(d)' => Drives(d))
      BY <1>0, <2>3 DEF TypeOK, Drives
    <2>6. l1[key[c]] # "NONE" => status'[key[c]] = status[key[c]]
      <3>1. CASE key[c] \in TransferKeys
        <4>1. Drives(c)
          BY <1>0, <2>1, <3>1 DEF RowRules, PositionsFit, Drives
        <4> QED
          BY <2>1, <4>1 DEF RecordsFollowRows
      <3>2. CASE key[c] \notin TransferKeys
        BY <2>3, <3>2
      <3> QED
        BY <3>1, <3>2
    <2>7. Drives(c)' => Drives(c)
      BY <1>0, <2>3 DEF TypeOK, Drives
    <2>8. outbox'[key[c]] <= 1
      <3>1. CASE outbox' = outbox
        BY <2>1, <3>1 DEF RecordsFollowRows
      <3>2. CASE outbox' # outbox
        <4>1. outbox' = [outbox EXCEPT ![key[c]] = @ + 1]
          BY <2>3, <3>2
        <4>2. outbox[key[c]] = 0
          <5>1. CASE pc[c] = "finalize"
            <6>1. key[c] \in TransferKeys /\ Drives(c)
              BY <1>0, <5>1 DEF RowRules, PositionsFit, Drives
            <6>2. status[key[c]] = "PENDING"
              BY <1>0, <5>1, <6>1 DEF RowRules, DriversRow
            <6> QED
              BY <1>0, <2>1, <6>1, <6>2 DEF RowRules, EventsFollowRows
          <5>2. CASE pc[c] = "event"
            BY <1>0, <2>1, <5>2 DEF RowRules, PositionsFit, RecordsFollowRows
          <5> QED
            BY <2>3, <3>2, <5>1, <5>2
        <4> QED
          BY <1>0, <2>1, <4>1, <4>2 DEF TypeOK
      <3> QED
        BY <3>1, <3>2
    <2>9. pc'[c] = "cache" => answer'[c] = status'[key[c]]
      <3>1. pc[c] = "event" => status[key[c]] = "COMPLETED"
        BY <1>0, <2>1 DEF RowRules, PositionsFit, EventsFollowRows, EntriesBehind
      <3> QED
        BY <1>0, <2>1, <2>3, <3>1 DEF TypeOK, LedgerTypeOK
    <2>10. pc'[c] \notin {"validate", "send", "await", "event"}
      BY <1>0, <2>3 DEF TypeOK
    <2>11. \A k \in Keys : /\ outbox'[k] <= 1
                           /\ l1'[k] # "NONE" => /\ l1'[k] = status'[k]
                                                 /\ \A d \in Calls : Drives(d)' => key'[d] # k
      <3>1. \A k \in Keys : outbox'[k] <= 1
        BY <2>4, <2>8 DEF RecordsFollowRows
      <3>2. \A k \in Keys : l1[k] # "NONE" => l1[k] = status'[k]
        BY <2>4, <2>6 DEF RecordsFollowRows
      <3>3. \A d \in Calls : Drives(d)' => Drives(d)
        BY <2>5, <2>7
      <3> QED
        BY <2>3, <3>1, <3>2, <3>3 DEF RecordsFollowRows
    <2>12. \A d \in Calls \ {c} :
          /\ pc'[d] = "cache" => answer'[d] = status'[key'[d]]
          /\ key'[d] \notin TransferKeys /\ pc'[d] \in {"validate", "send", "await", "event"} =>
                 outbox'[key'[d]] = 0
      <3>1. \A d \in Calls : key[d] \in Keys
        BY <1>0 DEF TypeOK
      <3> QED
        BY <2>2, <2>3, <2>4, <2>5, <3>1 DEF RecordsFollowRows, Locked
    <2> QED
      BY <2>3, <2>9, <2>10, <2>11, <2>12 DEF RecordsFollowRows
  <1>6. ASSUME NEW c \in Calls, CacheAnswer(c) PROVE RecordsFollowRows'
    <2>1. key[c] \in Keys /\ pc[c] = "cache" /\ answer[c] = status[key[c]]
      BY <1>0, <1>6 DEF TypeOK, CacheAnswer, RecordsFollowRows
    <2>2. \A d \in Calls : Drives(d) => key[d] # key[c]
      BY <1>0, <2>1, SameKeyAlone DEF Drives, Locked
    <2>3. /\ UNCHANGED << ledgerVars, outbox, key, answer >>
          /\ pc' = [pc EXCEPT ![c] = "release"]
          /\ l1' = [l1 EXCEPT ![key[c]] = answer[c]] \/ l1' = l1
      BY <1>6 DEF CacheAnswer
    <2>4. \A d \in Calls : (Drives(d)' => Drives(d)) /\ (pc'[d] # pc[d] => pc'[d] = "release")
      BY <1>0, <2>3 DEF TypeOK, Drives
    <2>5. \A k \in Keys : l1'[k] = l1[k] \/ (k = key[c] /\ l1'[k] = status[k])
      BY <1>0, <2>1, <2>3 DEF TypeOK
    <2> QED
      BY <2>2, <2>3, <2>4, <2>5 DEF RecordsFollowRows
  <1>7. ASSUME NEW a \in Accounts, Expire(a) PROVE RecordsFollowRows'
    BY <1>7 DEF Expire, callVars, RecordsFollowRows, Drives
  <1>8. ASSUME NEW k \in Keys, Forget(k) PROVE RecordsFollowRows'
    <2>1. \A j \in Keys : l1'[j] # "NONE" => l1'[j] = l1[j]
      BY <1>0, <1>8 DEF Forget, TypeOK
    <2> QED
      BY <1>8, <2>1 DEF Forget, callVars, RecordsFollowRows, Drives
  <1>9. CASE UNCHANGED vars
    BY <1>9 DEF vars, sagaVars, callVars, RecordsFollowRows, Drives
  <1>10. ASSUME NEW c \in Calls, LookupL1(c) PROVE RecordsFollowRows'
    BY <1>1, <1>2, <1>10 DEF LookupL1
  <1> QED
    BY <1>1, <1>2, <1>3, <1>4, <1>5, <1>6, <1>7, <1>8, <1>9, <1>10 DEF Next, Step

LEMMA LockStep == ClaimInv /\ LockRules /\ [Next]_vars => LockRules'
  <1>1. [Next]_vars => UNCHANGED faults
    BY DEF Next, vars
  <1>2. ClaimInv => TypeOK
    BY DEF ClaimInv, TypeInv
  <1> QED
    BY <1>1, <1>2, HoldsStep, RecordsStep DEF LockRules, Without

-----------------------------------------------------------------------------
(***************************************************************************)
(* What holds as long as calls do not give up their requests.              *)
(***************************************************************************)

(* Every request on its way is awaited, unless its call has crashed. *)
RequestsAwaited ==
    Without({"timeout"}) =>
        \A x \in inflight : Awaited(x) \/ ("crash" \in faults /\ pc[x[1]] = "crashed")

LEMMA AwaitInit == Init => RequestsAwaited
  BY DEF Init, RequestsAwaited

LEMMA AwaitStep == TypeOK /\ RequestsAwaited /\ [Next]_vars => RequestsAwaited'
  <1> SUFFICES ASSUME TypeOK, RequestsAwaited, [Next]_vars, Without({"timeout"})',
                      NEW y \in inflight'
               PROVE  \/ Awaited(y)'
                      \/ ("crash" \in faults /\ pc[y[1]] = "crashed")'
    BY DEF RequestsAwaited
  <1> USE DEF Goto
  <1>0. UNCHANGED faults /\ Without({"timeout"})
    BY DEF Next, vars, Without
  <1>1. ASSUME NEW c \in Calls, SendToLedger(c)
        PROVE  Awaited(y)' \/ ("crash" \in faults /\ pc[y[1]] = "crashed")'
    <2>1. pc[c] = "send" /\ \E l : pc' = [pc EXCEPT ![c] = l]
      BY <1>1 DEF SendToLedger
    <2>2. \A x \in inflight : x[1] \in Calls /\ x[1] # c
      BY <1>0, <2>1, InflightFacts DEF RequestsAwaited, Awaited
    <2>3. CASE y \in inflight
      <3>1. tries'[y[1]] = tries[y[1]] /\ pc'[y[1]] = pc[y[1]]
        BY <1>1, <2>1, <2>2, <2>3 DEF SendToLedger, TypeOK
      <3> QED
        BY <1>0, <2>3, <3>1 DEF RequestsAwaited, Awaited
    <2>4. CASE y \notin inflight
      <3>1. /\ y = << c, tries[c] + 1 >>
            /\ tries' = [tries EXCEPT ![c] = @ + 1] /\ pc' = [pc EXCEPT ![c] = "await"]
        BY <1>1, <2>4 DEF SendToLedger
      <3> QED
        BY <3>1 DEF Awaited, TypeOK
    <2> QED
      BY <2>3, <2>4
  <1>2. ASSUME NEW x \in inflight, Serve(x)
        PROVE  Awaited(y)' \/ ("crash" \in faults /\ pc[y[1]] = "crashed")'
    <2>1. y \in inflight /\ y # x /\ UNCHANGED tries
      BY <1>2 DEF Serve
    <2>2. /\ x[1] \in Calls /\ y[1] \in Calls
          /\ x = << x[1], x[2] >> /\ y = << y[1], y[2] >>
      BY <2>1 DEF TypeOK
    <2>3. UNCHANGED pc \/ (Awaited(x) /\ \E l : pc' = [pc EXCEPT ![x[1]] = l])
      BY <1>2 DEF Serve, LedgerPosts, LedgerRecognises, LedgerRefuses, LedgerFails, Accepted, Reply
    <2>4. Awaited(x) => y[1] # x[1]
      BY <1>0, <2>1, <2>2 DEF RequestsAwaited, Awaited
    <2>5. pc'[y[1]] = pc[y[1]]
      BY <2>2, <2>3, <2>4 DEF TypeOK
    <2> QED
      BY <1>0, <2>1, <2>5 DEF RequestsAwaited, Awaited
  <1>3. ASSUME NEW c \in Calls, Crash(c)
        PROVE  Awaited(y)' \/ ("crash" \in faults /\ pc[y[1]] = "crashed")'
    <2>1. y \in inflight /\ y[1] \in Calls
      BY <1>3, InflightFacts DEF Crash
    <2> QED
      BY <1>0, <1>3, <2>1 DEF Crash, TypeOK, RequestsAwaited, Awaited
  <1>4. ASSUME NEW c \in Calls,
               \/ LookupL1(c) \/ AcquireLocks(c) \/ FindExisting(c) \/ Validate(c) \/ OpenRow(c)
               \/ Finalize(c) \/ RecordEvent(c) \/ MarkFailed(c) \/ CacheAnswer(c)
               \/ ReleaseLocks(c) \/ Timeout(c)
        PROVE  Awaited(y)' \/ ("crash" \in faults /\ pc[y[1]] = "crashed")'
    <2>1. ~Timeout(c)
      BY <1>0 DEF Timeout, Without
    <2>2. /\ UNCHANGED << inflight, tries >> /\ pc[c] # "await" /\ pc[c] # "crashed"
          /\ \E l : pc' = [pc EXCEPT ![c] = l]
      BY <1>4, <2>1 DEF LookupL1, AcquireLocks, FindExisting, Validate, OpenRow, Finalize,
                        RecordEvent, MarkFailed, CacheAnswer, ReleaseLocks, Throw
    <2>3. y \in inflight /\ y[1] \in Calls
      BY <2>2, InflightFacts
    <2> QED
      BY <1>0, <2>2, <2>3 DEF TypeOK, RequestsAwaited, Awaited
  <1>5. ASSUME NEW a \in Accounts, Expire(a)
        PROVE  Awaited(y)' \/ ("crash" \in faults /\ pc[y[1]] = "crashed")'
    BY <1>0, <1>5 DEF Expire, callVars, RequestsAwaited, Awaited
  <1>6. ASSUME NEW k \in Keys, Forget(k)
        PROVE  Awaited(y)' \/ ("crash" \in faults /\ pc[y[1]] = "crashed")'
    BY <1>0, <1>6 DEF Forget, callVars, RequestsAwaited, Awaited
  <1>7. CASE UNCHANGED vars
    BY <1>0, <1>7 DEF vars, sagaVars, callVars, RequestsAwaited, Awaited
  <1> QED
    BY <1>1, <1>2, <1>3, <1>4, <1>5, <1>6, <1>7 DEF Next, Step

SerialInv == ClaimInv /\ LockRules /\ RequestsAwaited

LEMMA SerialInit == Init => SerialInv
  BY ClaimInit, LockInit, AwaitInit DEF SerialInv

LEMMA SerialStep == SerialInv /\ [Next]_vars => SerialInv'
  <1>1. ClaimInv => TypeOK
    BY DEF ClaimInv, TypeInv
  <1> QED
    BY <1>1, ClaimStep, LockStep, AwaitStep DEF SerialInv

(* If no lock expires under its holder, a key has at most one event and    *)
(* its Redis record agrees with its row; and if no call gives up a request *)
(* or dies, no two requests to the ledger share an account.                *)
THEOREM LocksDoSerialise == Spec => []LocksSerialise
  <1>1. SerialInv => LocksSerialise
    <2> SUFFICES ASSUME SerialInv PROVE LocksSerialise
      OBVIOUS
    <2>1. TypeOK
      BY DEF SerialInv, ClaimInv, TypeInv
    <2>2. ASSUME Without({"expiry"}), NEW k \in Keys
          PROVE  outbox[k] <= 1 /\ (l1[k] # "NONE" => l1[k] = status[k])
      BY <2>2 DEF SerialInv, LockRules, RecordsFollowRows
    <2>3. ASSUME Without({"timeout", "expiry", "crash"}), NEW x \in inflight, NEW y \in inflight,
                 x # y
          PROVE  Legs(key[x[1]]) \cap Legs(key[y[1]]) = {}
      <3>1. Without({"timeout"}) /\ Without({"expiry"}) /\ "crash" \notin faults
        BY <2>3 DEF Without
      <3>2. Awaited(x) /\ Awaited(y) /\ HoldsLegs
        BY <3>1 DEF SerialInv, RequestsAwaited, LockRules
      <3>3. /\ x[1] \in Calls /\ y[1] \in Calls
            /\ x = << x[1], x[2] >> /\ y = << y[1], y[2] >>
        BY <2>1 DEF TypeOK
      <3>4. x[1] # y[1]
        BY <2>3, <3>2, <3>3 DEF Awaited
      <3> QED
        BY <2>1, <3>2, <3>3, <3>4, LockedAlone DEF Awaited, Locked
    <2> QED
      BY <2>2, <2>3 DEF LocksSerialise
  <1> QED
    BY <1>1, SerialInit, SerialStep, PTL DEF Spec

-----------------------------------------------------------------------------
(***************************************************************************)
(* What holds if moreover no statement of payment-service is lost.         *)
(***************************************************************************)

(* A transfer that may still be marked FAILED has not been posted, and one *)
(* that is FAILED will not be.                                             *)
FailuresUnposted ==
    /\ \A c \in Calls : key[c] \in TransferKeys /\ pc[c] \in {"send", "await", "fail"} =>
          ~HasEntries(entries, key[c])
    /\ \A k \in TransferKeys : status[k] = "FAILED" =>
          /\ ~HasEntries(entries, k)
          /\ \A x \in inflight : key[x[1]] # k

(* Money that has moved has its event, or a call that is about to leave it.*)
EventsOwed ==
    \A k \in Keys : HasEntries(entries, k) =>
        \/ outbox[k] = 1
        \/ \E c \in Calls : key[c] = k /\ pc[c] \in {"finalize", "event"}

MatchRules ==
    /\ Without({"timeout", "db"}) => FailuresUnposted
    /\ Without({"timeout", "expiry", "crash", "db"}) => EventsOwed

MatchInv == SerialInv /\ MatchRules

LEMMA MatchInit == Init => MatchRules
  BY LedgerAssumption
  DEF Init, LedgerInit, MatchRules, FailuresUnposted, EventsOwed, HasEntries, TransferKeys

LEMMA FailuresStep ==
    ASSUME SerialInv, FailuresUnposted, Without({"timeout", "db"}), [Next]_vars
    PROVE  FailuresUnposted'
  <1> USE DEF Goto, ledgerVars
  <1>0. TypeOK /\ LedgerTypeOK /\ RowRules /\ EntriesBehind
    BY DEF SerialInv, ClaimInv, TypeInv, TypeOK
  <1>a. \A x \in inflight : Awaited(x) \/ pc[x[1]] = "crashed"
    BY DEF SerialInv, RequestsAwaited, Without
  <1>b. \A k \in TransferKeys : k \in Keys
    BY DEF TransferKeys
  <1>1. ASSUME NEW c \in Calls,
               \/ LookupL1(c) \/ AcquireLocks(c) \/ FindExisting(c) \/ Validate(c)
               \/ RecordEvent(c) \/ CacheAnswer(c) \/ ReleaseLocks(c) \/ Crash(c)
               \/ SendToLedger(c) /\ UNCHANGED inflight
        PROVE  FailuresUnposted'
    <2>1. UNCHANGED << entries, status, inflight, key >>
      BY <1>1 DEF LookupL1, AcquireLocks, FindExisting, Validate, RecordEvent, CacheAnswer,
                  ReleaseLocks, Crash, SendToLedger
    <2>2. \E l \in Labels :
             /\ pc' = [pc EXCEPT ![c] = l]
             /\ key[c] \in TransferKeys /\ l \in {"send", "await", "fail"} => pc[c] \in {"send", "await"}
      BY <1>1 DEF LookupL1, AcquireLocks, FindExisting, Validate, RecordEvent, CacheAnswer,
                  ReleaseLocks, Crash, SendToLedger, FailureLabel, Throw, Labels, Ended
    <2>3. \A d \in Calls : key[d] \in TransferKeys /\ pc'[d] \in {"send", "await", "fail"} =>
             pc[d] \in {"send", "await", "fail"}
      BY <1>0, <2>2 DEF TypeOK
    <2> QED
      BY <2>1, <2>3 DEF FailuresUnposted
  <1>2. ASSUME NEW c \in Calls, OpenRow(c) PROVE FailuresUnposted'
    <2>1. key[c] \in Keys /\ UNCHANGED << entries, inflight, key >>
      BY <1>0, <1>2 DEF TypeOK, OpenRow, OpenTransfer
    <2>2. \/ /\ status[key[c]] = "NONE" /\ status' = [status EXCEPT ![key[c]] = "PENDING"]
             /\ pc' = [pc EXCEPT ![c] = "send"]
          \/ /\ pc' = [pc EXCEPT ![c] = "release"]
             /\ status' = status \/ status' = [status EXCEPT ![key[c]] = "PENDING"]
      BY <1>2 DEF OpenRow, OpenTransfer
    <2>3. \A k \in Keys : status'[k] = "FAILED" => status[k] = "FAILED"
      BY <1>0, <2>1, <2>2 DEF LedgerTypeOK
    <2>4. status[key[c]] = "NONE" => ~HasEntries(entries, key[c])
      BY <1>0, <2>1 DEF EntriesBehind
    <2>5. \A d \in Calls : pc'[d] \in {"send", "await", "fail"} =>
             \/ pc[d] \in {"send", "await", "fail"}
             \/ d = c /\ status[key[c]] = "NONE"
      BY <1>0, <2>2 DEF TypeOK
    <2> QED
      BY <1>b, <2>1, <2>3, <2>4, <2>5 DEF FailuresUnposted
  <1>3. ASSUME NEW c \in Calls, SendToLedger(c), ~UNCHANGED inflight PROVE FailuresUnposted'
    <2>1. /\ pc[c] = "send" /\ pc' = [pc EXCEPT ![c] = "await"]
          /\ inflight' = inflight \cup {<< c, tries[c] + 1 >>}
          /\ UNCHANGED << entries, status, key >>
      BY <1>3 DEF SendToLedger
    <2>2. key[c] \in TransferKeys => status[key[c]] = "PENDING"
      BY <1>0, <2>1 DEF RowRules, DriversRow, Drives
    <2>3. \A d \in Calls : pc'[d] \in {"send", "await", "fail"} => pc[d] \in {"send", "await", "fail"}
      BY <1>0, <2>1 DEF TypeOK
    <2>4. \A x \in inflight' : x \in inflight \/ x[1] = c
      BY <2>1
    <2> QED
      BY <2>1, <2>2, <2>3, <2>4 DEF FailuresUnposted
  <1>4. ASSUME NEW x \in inflight, Serve(x) PROVE FailuresUnposted'
    <2> DEFINE c == x[1]
    <2>1. c \in Calls /\ key[c] \in Keys /\ UNCHANGED key /\ inflight' \subseteq inflight
      BY <1>0, <1>4, InflightFacts DEF Serve
    <2>2. \A d \in Calls : d # c => pc'[d] = pc[d]
      BY <1>0, <1>4, <2>1
      DEF Serve, LedgerPosts, LedgerRecognises, LedgerRefuses, LedgerFails, Accepted, Reply, TypeOK
    <2>3. CASE LedgerPosts(x)
      <3>1. Post(key[c]) /\ Accepted(x)
        BY <2>3 DEF LedgerPosts
      <3>2. \A j \in Keys \ {key[c]} : HasEntries(entries', j) => HasEntries(entries, j)
        BY <1>0, <2>1, <3>1, PostFacts
      <3>3. \A j \in Keys : status'[j] = "FAILED" => status[j] = "FAILED"
        BY <1>0, <2>1, <3>1 DEF Post, LedgerTypeOK, StatusOnCreate
      <3>4. key[c] \in TransferKeys => status'[key[c]] # "FAILED"
        BY <2>1, <3>3 DEF FailuresUnposted
      <3>5. key[c] \in TransferKeys => Underway(c)
        BY DEF Underway
      <3>6. \A d \in Calls : key[d] \in TransferKeys /\ pc'[d] \in {"send", "await", "fail"} =>
               ~HasEntries(entries', key[d])
        <4> SUFFICES ASSUME NEW d \in Calls, key[d] \in TransferKeys,
                            pc'[d] \in {"send", "await", "fail"}
                     PROVE  ~HasEntries(entries', key[d])
          OBVIOUS
        <4>1. CASE d = c
          <5>1. pc[c] = "await" \/ pc[c] = "crashed"
            BY <1>a DEF Awaited
          <5>2. CASE Awaited(x)
            BY <1>0, <2>1, <3>1, <4>1, <5>2 DEF Accepted, Reply, TypeOK
          <5>3. CASE ~Awaited(x)
            BY <1>a, <2>1, <3>1, <4>1, <5>3 DEF Accepted, Reply
          <5> QED
            BY <5>2, <5>3
        <4>2. CASE d # c
          <5>1. pc[d] \in {"send", "await", "fail"}
            BY <2>2, <4>2
          <5>2. Underway(d)
            BY <5>1 DEF Underway, Drives
          <5>3. key[d] # key[c]
            BY <1>0, <2>1, <3>5, <4>2, <5>2 DEF RowRules, OneDriver
          <5> QED
            BY <1>b, <3>2, <5>1, <5>3 DEF FailuresUnposted
        <4> QED
          BY <4>1, <4>2
      <3> HIDE DEF c
      <3> QED
        BY <1>b, <2>1, <3>2, <3>3, <3>4, <3>6 DEF FailuresUnposted
    <2>4. CASE ~LedgerPosts(x)
      <3>1. UNCHANGED ledgerVars
        BY <1>4, <2>4 DEF Serve, LedgerRecognises, LedgerRefuses, LedgerFails
      <3>2. key[c] \in TransferKeys /\ pc'[c] \in {"send", "await", "fail"} =>
               pc[c] \in {"send", "await", "fail"}
        BY <1>4, <2>4
        DEF Serve, LedgerRecognises, LedgerRefuses, LedgerFails, Accepted, Reply, Awaited
      <3> HIDE DEF c
      <3> QED
        BY <2>1, <2>2, <3>1, <3>2 DEF FailuresUnposted
    <2> QED
      BY <2>3, <2>4
  <1>5. ASSUME NEW c \in Calls, Finalize(c) \/ MarkFailed(c) PROVE FailuresUnposted'
    <2>1. key[c] \in Keys /\ key[c] \in TransferKeys /\ Underway(c)
      BY <1>0, <1>5 DEF TypeOK, RowRules, PositionsFit, Finalize, MarkFailed, Underway, Drives
    <2>2. /\ UNCHANGED << entries, inflight, key >>
          /\ \/ /\ pc[c] = "finalize" /\ pc' = [pc EXCEPT ![c] = "cache"]
                /\ status' = [status EXCEPT ![key[c]] = "COMPLETED"]
             \/ /\ pc[c] = "fail" /\ pc' = [pc EXCEPT ![c] = "release"]
                /\ status' = [status EXCEPT ![key[c]] = "FAILED"]
      BY <1>5 DEF Finalize, MarkFailed, Complete, Throw, Without
    <2>3. pc[c] = "fail" => ~HasEntries(entries, key[c])
      BY <2>1 DEF FailuresUnposted
    <2>4. \A x \in inflight : x[1] \in Calls /\ key[x[1]] # key[c]
      <3> SUFFICES ASSUME NEW x \in inflight PROVE x[1] \in Calls /\ key[x[1]] # key[c]
        OBVIOUS
      <3>1. x[1] \in Calls /\ x[1] # c
        BY <1>0, <1>a, <2>2, InflightFacts DEF Awaited
      <3>2. key[x[1]] \in TransferKeys => Underway(x[1])
        BY DEF Underway
      <3> QED
        BY <1>0, <2>1, <3>1, <3>2 DEF RowRules, OneDriver
    <2>5. \A d \in Calls : pc'[d] \in {"send", "await", "fail"} => pc[d] \in {"send", "await", "fail"}
      BY <1>0, <2>2 DEF TypeOK
    <2>6. \A k \in Keys : status'[k] = "FAILED" => status[k] = "FAILED" \/ (k = key[c] /\ pc[c] = "fail")
      BY <1>0, <2>1, <2>2 DEF LedgerTypeOK
    <2> QED
      BY <1>b, <2>2, <2>3, <2>4, <2>5, <2>6 DEF FailuresUnposted
  <1>6. ASSUME NEW a \in Accounts, Expire(a) PROVE FailuresUnposted'
    BY <1>6 DEF Expire, callVars, FailuresUnposted
  <1>7. ASSUME NEW k \in Keys, Forget(k) PROVE FailuresUnposted'
    BY <1>7 DEF Forget, callVars, FailuresUnposted
  <1>8. CASE UNCHANGED vars
    BY <1>8 DEF vars, sagaVars, callVars, FailuresUnposted
  <1>9. \A c \in Calls : ~Timeout(c)
    BY DEF Timeout, Without
  <1> QED
    BY <1>1, <1>2, <1>3, <1>4, <1>5, <1>6, <1>7, <1>8, <1>9 DEF Next, Step

(* A step that posts nothing, and after which the event is still there or  *)
(* still owed.                                                             *)
LEMMA StillOwed ==
    ASSUME EventsOwed, UNCHANGED << entries, outbox, key >>,
           \A c \in Calls : pc[c] \in {"finalize", "event"} => pc'[c] = pc[c]
    PROVE  EventsOwed'
  BY DEF EventsOwed

LEMMA OwedStep ==
    ASSUME SerialInv, EventsOwed, Without({"timeout", "expiry", "crash", "db"}), [Next]_vars
    PROVE  EventsOwed'
  <1> USE DEF Goto, ledgerVars
  <1>0. TypeOK /\ LedgerTypeOK /\ RowRules /\ EntriesBehind /\ RecordsFollowRows
    BY DEF SerialInv, ClaimInv, TypeInv, TypeOK, LockRules, Without
  <1>a. \A x \in inflight : Awaited(x)
    BY DEF SerialInv, RequestsAwaited, Without
  <1>1. ASSUME NEW c \in Calls,
               \/ LookupL1(c) \/ AcquireLocks(c) \/ FindExisting(c) \/ Validate(c) \/ OpenRow(c)
               \/ SendToLedger(c) \/ MarkFailed(c) \/ CacheAnswer(c) \/ ReleaseLocks(c)
        PROVE  EventsOwed'
    <2>1. /\ UNCHANGED << entries, outbox, key >> /\ pc[c] \notin {"finalize", "event"}
          /\ \E l : pc' = [pc EXCEPT ![c] = l]
      BY <1>1 DEF LookupL1, AcquireLocks, FindExisting, Validate, OpenRow, OpenTransfer,
                  SendToLedger, MarkFailed, CacheAnswer, ReleaseLocks, Throw
    <2>2. \A d \in Calls : pc[d] \in {"finalize", "event"} => pc'[d] = pc[d]
      BY <1>0, <2>1 DEF TypeOK
    <2> QED
      BY <2>1, <2>2, StillOwed
  <1>2. ASSUME NEW x \in inflight, Serve(x) PROVE EventsOwed'
    <2> DEFINE c == x[1]
    <2>1. c \in Calls /\ key[c] \in Keys /\ UNCHANGED << key, outbox >> /\ pc[c] = "await"
      BY <1>0, <1>2, <1>a, InflightFacts DEF Serve, Awaited
    <2>2. \A d \in Calls : d # c => pc'[d] = pc[d]
      BY <1>0, <1>2, <2>1
      DEF Serve, LedgerPosts, LedgerRecognises, LedgerRefuses, LedgerFails, Accepted, Reply, TypeOK
    <2>3. \A d \in Calls : pc[d] \in {"finalize", "event"} => pc'[d] = pc[d]
      BY <2>1, <2>2
    <2>4. CASE LedgerPosts(x)
      <3>1. Post(key[c]) /\ Accepted(x)
        BY <2>4 DEF LedgerPosts
      <3>2. \A j \in Keys \ {key[c]} : HasEntries(entries', j) => HasEntries(entries, j)
        BY <1>0, <2>1, <3>1, PostFacts
      <3>3. pc'[c] \in {"finalize", "event"}
        BY <1>0, <1>a, <2>1, <3>1 DEF Accepted, Reply, TypeOK
      <3> HIDE DEF c
      <3> QED
        BY <2>1, <2>3, <3>2, <3>3 DEF EventsOwed
    <2>5. CASE ~LedgerPosts(x)
      BY <1>2, <2>1, <2>3, <2>5, StillOwed
      DEF Serve, LedgerRecognises, LedgerRefuses, LedgerFails
    <2> QED
      BY <2>4, <2>5
  <1>3. ASSUME NEW c \in Calls, Finalize(c) \/ RecordEvent(c) PROVE EventsOwed'
    <2>1. /\ key[c] \in Keys
          /\ pc[c] = "finalize" => key[c] \in TransferKeys
          /\ pc[c] = "event" => key[c] \notin TransferKeys
      BY <1>0 DEF TypeOK, RowRules, PositionsFit
    <2>2. /\ UNCHANGED << entries, key >> /\ pc[c] \in {"finalize", "event"}
          /\ outbox' = [outbox EXCEPT ![key[c]] = @ + 1]
          /\ pc' = [pc EXCEPT ![c] = "cache"]
      BY <1>3 DEF Finalize, RecordEvent, Complete, Without
    <2>3. outbox[key[c]] = 0
      <3>1. CASE pc[c] = "finalize"
        <4>1. status[key[c]] = "PENDING"
          BY <1>0, <2>1, <3>1 DEF RowRules, DriversRow, Drives
        <4> QED
          BY <1>0, <2>1, <3>1, <4>1 DEF RowRules, EventsFollowRows
      <3>2. CASE pc[c] = "event"
        BY <1>0, <2>1, <3>2 DEF RecordsFollowRows
      <3> QED
        BY <2>2, <3>1, <3>2
    <2>4. \A k \in Keys : outbox'[k] = IF k = key[c] THEN 1 ELSE outbox[k]
      BY <1>0, <2>1, <2>2, <2>3 DEF TypeOK
    <2>5. \A d \in Calls : d # c => pc'[d] = pc[d]
      BY <1>0, <2>2 DEF TypeOK
    <2> QED
      BY <2>2, <2>4, <2>5 DEF EventsOwed
  <1>4. ASSUME NEW a \in Accounts, Expire(a) PROVE EventsOwed'
    BY <1>4, StillOwed DEF Expire, callVars
  <1>5. ASSUME NEW k \in Keys, Forget(k) PROVE EventsOwed'
    BY <1>5, StillOwed DEF Forget, callVars
  <1>6. CASE UNCHANGED vars
    BY <1>6, StillOwed DEF vars, sagaVars, callVars
  <1>7. \A c \in Calls : ~Timeout(c) /\ ~Crash(c)
    BY DEF Timeout, Crash, Without
  <1> QED
    BY <1>1, <1>2, <1>3, <1>4, <1>5, <1>6, <1>7 DEF Next, Step

LEMMA MatchStep == MatchInv /\ [Next]_vars => MatchInv'
  <1>1. [Next]_vars => UNCHANGED faults
    BY DEF Next, vars
  <1> QED
    BY <1>1, SerialStep, FailuresStep, OwedStep DEF MatchInv, MatchRules, Without

(* A transfer is FAILED only if no money moved, as long as no request is   *)
(* given up and no statement lost; and if moreover no lock expires and no  *)
(* process dies, money that has moved is announced once nobody works on it.*)
THEOREM RecordsDoMatch == Spec => []RecordsMatchMoney
  <1>1. MatchInv => RecordsMatchMoney
    <2> SUFFICES ASSUME MatchInv PROVE RecordsMatchMoney
      OBVIOUS
    <2>1. ASSUME Without({"timeout", "db"}) PROVE FailedMeansUnposted
      BY <2>1 DEF MatchInv, MatchRules, FailuresUnposted, FailedMeansUnposted
    <2>2. ASSUME Without({"timeout", "expiry", "crash", "db"}) PROVE MoneyIsAnnounced
      <3>1. EventsOwed
        BY <2>2 DEF MatchInv, MatchRules
      <3>2. \A k \in Keys : outbox[k] = 1 => HasEntries(entries, k)
        BY DEF MatchInv, SerialInv, ClaimInv, EntriesBehind
      <3> QED
        BY <3>1, <3>2 DEF EventsOwed, MoneyIsAnnounced
    <2> QED
      BY <2>1, <2>2 DEF RecordsMatchMoney
  <1>2. Init => MatchInv
    BY SerialInit, MatchInit DEF MatchInv
  <1> QED
    BY <1>1, <1>2, MatchStep, PTL DEF Spec

-----------------------------------------------------------------------------
(***************************************************************************)
(* How often a key moves money.                                            *)
(***************************************************************************)

(* A call that sends, or has sent, requests for a transfer.                *)
Sender(c) ==
    key[c] \in TransferKeys /\ (tries[c] > 0 \/ pc[c] \in {"send", "await"})

(* Its requests that the ledger has yet to serve.                          *)
Unserved(c) == {i \in 1..MaxAttempts : << c, i >> \in inflight}

(* Only one call ever sends requests for a transfer, and each of them has  *)
(* posted at most once: what is posted and what is unserved together are   *)
(* no more than its tries.  Cash is posted under a row that is not there.  *)
PostingsCounted ==
    /\ \A c, d \in Calls : Sender(c) /\ Sender(d) /\ key[c] = key[d] => c = d
    /\ \A x \in inflight : x[2] <= tries[x[1]]
    /\ \A c \in Calls : Sender(c) =>
          /\ status[key[c]] # "NONE"
          /\ \A a \in Accounts : Postings(key[c], a) + Cardinality(Unserved(c)) <= tries[c]
    /\ \A k \in TransferKeys :
          HasEntries(entries, k) => \E c \in Calls : key[c] = k /\ tries[c] > 0
    /\ \A k \in Keys \ TransferKeys : \A a \in Accounts : Postings(k, a) <= 1

(* As long as no call gives up a request, it has one at a time, and none   *)
(* after the one that has posted a transfer.                               *)
PostsOnce ==
    Without({"timeout"}) =>
        /\ \A x, y \in inflight : x[1] = y[1] => x = y
        /\ \A k \in TransferKeys :
              /\ \A a \in Accounts : Postings(k, a) <= 1
              /\ HasEntries(entries, k) =>
                    /\ \A x \in inflight : key[x[1]] # k
                    /\ \A c \in Calls : key[c] = k => pc[c] \notin {"send", "await"}

CountInv == ClaimInv /\ RequestsAwaited /\ PostingsCounted /\ PostsOnce

(* A count of postings is a number, and 0 for a key without entries.       *)
LEMMA CountFacts ==
    ASSUME LedgerTypeOK, NEW k \in Keys, NEW a \in Accounts
    PROVE  /\ Postings(k, a) \in Nat
           /\ ~HasEntries(entries, k) => Postings(k, a) = 0
  <1> DEFINE S == {i \in DOMAIN entries[a] : entries[a][i].key = k}
  <1>1. DOMAIN entries[a] = 1..Len(entries[a]) /\ Len(entries[a]) \in Nat
    BY DEF LedgerTypeOK
  <1>2. IsFiniteSet(1..Len(entries[a]))
    BY <1>1, FS_Interval
  <1>3. S \in SUBSET (1..Len(entries[a]))
    BY <1>1
  <1>4. IsFiniteSet(S)
    BY <1>2, <1>3, FS_Subset
  <1>5. Cardinality(S) \in Nat
    BY <1>4, FS_CardinalityType
  <1>6. ~HasEntries(entries, k) => S = {}
    BY DEF HasEntries
  <1>7. ~HasEntries(entries, k) => Cardinality(S) = 0
    BY <1>6, FS_EmptySet
  <1> QED
    BY <1>5, <1>7 DEF Postings

(* A set with one more member.                                            *)
LEMMA OneMore ==
    ASSUME NEW S, NEW x, IsFiniteSet(S)
    PROVE  /\ IsFiniteSet(S \cup {x}) /\ Cardinality(S) \in Nat
           /\ Cardinality(S \cup {x}) \in Nat
           /\ Cardinality(S \cup {x}) <= Cardinality(S) + 1
  <1>1. IsFiniteSet(S \cup {x})
    BY FS_AddElement
  <1>2. Cardinality(S \cup {x}) = IF x \in S THEN Cardinality(S) ELSE Cardinality(S) + 1
    BY FS_AddElement
  <1>3. Cardinality(S) \in Nat /\ Cardinality(S \cup {x}) \in Nat
    BY <1>1, FS_CardinalityType
  <1> QED
    BY <1>1, <1>2, <1>3

(* A posting counts once for its own key, and not for the others.          *)
LEMMA PostCounts ==
    ASSUME LedgerTypeOK, NEW k \in Keys, Post(k), NEW j \in Keys, NEW a \in Accounts
    PROVE  /\ j # k => Postings(j, a)' = Postings(j, a)
           /\ Postings(j, a)' <= Postings(j, a) + 1
           /\ Postings(j, a)' \in Nat
  <1> DEFINE S == {i \in DOMAIN entries[a] : entries[a][i].key = j}
             T == {i \in DOMAIN entries'[a] : entries'[a][i].key = j}
             n == Len(entries[a])
             new == EntryFor(k, a, balance[a] + Delta(k, a))
  <1>1. entries[a] \in Seq(Entry) /\ new \in Entry /\ new.key = k
    BY RequestFacts DEF LedgerTypeOK, EntryFor
  <1>2. n \in Nat /\ DOMAIN entries[a] = 1..n /\ S \in SUBSET (1..n)
    BY <1>1
  <1>3. IsFiniteSet(S) /\ Cardinality(S) \in Nat
    <2> HIDE DEF n, S
    <2>1. IsFiniteSet(1..n)
      <3>1. 1 \in Int /\ n \in Int
        BY <1>2
      <3> QED
        BY <3>1, FS_Interval
    <2>2. IsFiniteSet(S)
      BY <1>2, <2>1, FS_Subset
    <2> QED
      BY <2>2, FS_CardinalityType
  <1>4. entries'[a] = IF a \in Legs(k) THEN Append(entries[a], new) ELSE entries[a]
    BY DEF Post
  <1> HIDE DEF new
  <1>5. T = S \/ (j = k /\ T = S \cup {n + 1})
    <2>1. CASE a \notin Legs(k)
      BY <1>4, <2>1
    <2>2. CASE a \in Legs(k)
      <3>1. entries'[a] = Append(entries[a], new)
        BY <1>4, <2>2
      <3>2. /\ DOMAIN entries'[a] = 1..(n + 1) /\ entries'[a][n + 1] = new
            /\ \A i \in 1..n : entries'[a][i] = entries[a][i]
        BY <1>1, <1>2, <3>1
      <3>3. 1..(n + 1) = (1..n) \cup {n + 1} /\ n + 1 \notin 1..n
        BY <1>2
      <3> QED
        BY <1>1, <1>2, <3>2, <3>3
    <2> QED
      BY <2>1, <2>2
  <1>6. Postings(j, a) = Cardinality(S) /\ Postings(j, a)' = Cardinality(T)
    BY DEF Postings
  <1> HIDE DEF S, T, n
  <1>7. /\ Cardinality(S \cup {n + 1}) \in Nat
        /\ Cardinality(S \cup {n + 1}) <= Cardinality(S) + 1
    BY <1>3, OneMore
  <1>8. j # k => T = S
    BY <1>5
  <1>9. Cardinality(T) \in Nat /\ Cardinality(T) <= Cardinality(S) + 1
    <2>1. CASE T = S
      BY <1>3, <2>1
    <2>2. CASE T = S \cup {n + 1}
      BY <1>7, <2>2
    <2> QED
      BY <1>5, <2>1, <2>2
  <1> QED
    BY <1>6, <1>8, <1>9

LEMMA CountInit == Init => PostingsCounted /\ PostsOnce
  <1> SUFFICES ASSUME Init PROVE PostingsCounted /\ PostsOnce
    OBVIOUS
  <1>1. TypeOK /\ LedgerTypeOK
    BY TypeInit DEF TypeInv, TypeOK
  <1>2. \A k \in Keys : ~HasEntries(entries, k)
    BY DEF Init, LedgerInit, HasEntries
  <1>3. \A k \in Keys, a \in Accounts : Postings(k, a) = 0
    BY <1>1, <1>2, CountFacts
  <1>4. \A c \in Calls : ~Sender(c)
    BY DEF Init, Sender
  <1>5. PostingsCounted
    BY <1>2, <1>3, <1>4 DEF Init, PostingsCounted, TransferKeys
  <1>6. PostsOnce
    BY <1>2, <1>3 DEF Init, PostsOnce, TransferKeys
  <1> QED
    BY <1>5, <1>6

(* A step that neither posts nor sends, and makes no call a sender.        *)
LEMMA CountsKept ==
    ASSUME PostingsCounted, UNCHANGED << entries, inflight, tries, key >>,
           \A c \in Calls : status[key[c]] # "NONE" => status'[key[c]] # "NONE",
           \A c \in Calls : Sender(c)' => Sender(c)
    PROVE  PostingsCounted'
  <1>1. \A k, a : Postings(k, a)' = Postings(k, a)
    BY DEF Postings
  <1>2. \A c : Unserved(c)' = Unserved(c)
    BY DEF Unserved
  <1> QED
    BY <1>1, <1>2 DEF PostingsCounted

(* A step that sends nothing under a key that has entries.                 *)
LEMMA OnceKept ==
    ASSUME PostsOnce, UNCHANGED << entries, inflight, key, faults >>,
           \A c \in Calls : key[c] \in TransferKeys /\ pc'[c] \in {"send", "await"} =>
              pc[c] \in {"send", "await"} \/ ~HasEntries(entries, key[c])
    PROVE  PostsOnce'
  <1>1. \A k, a : Postings(k, a)' = Postings(k, a)
    BY DEF Postings
  <1> QED
    BY <1>1 DEF PostsOnce, Without

LEMMA OnceStep == CountInv /\ [Next]_vars => PostsOnce'
  <1> SUFFICES ASSUME CountInv, [Next]_vars, Without({"timeout"})' PROVE PostsOnce'
    BY DEF PostsOnce
  <1> USE DEF Goto, ledgerVars
  <1>0. TypeOK /\ LedgerTypeOK /\ RowRules /\ EntriesBehind /\ PostsOnce /\ PostingsCounted
    BY DEF CountInv, ClaimInv, TypeInv, TypeOK
  <1>a. UNCHANGED faults /\ Without({"timeout"})
    BY DEF Next, vars, Without
  <1>b. \A x \in inflight : pc[x[1]] = "crashed" \/ Awaited(x)
    BY <1>a DEF CountInv, RequestsAwaited
  <1>1. ASSUME NEW c \in Calls,
               \/ LookupL1(c) \/ AcquireLocks(c) \/ FindExisting(c) \/ Validate(c)
               \/ SendToLedger(c) /\ UNCHANGED inflight
               \/ Finalize(c) \/ RecordEvent(c) \/ MarkFailed(c) \/ CacheAnswer(c)
               \/ ReleaseLocks(c) \/ Crash(c)
        PROVE  PostsOnce'
    <2>1. UNCHANGED << entries, inflight, key >>
      BY <1>1 DEF LookupL1, AcquireLocks, FindExisting, Validate, SendToLedger, Finalize, Complete,
                  RecordEvent, MarkFailed, CacheAnswer, ReleaseLocks, Crash
    <2>2. \E l \in Labels :
             /\ pc' = [pc EXCEPT ![c] = l]
             /\ key[c] \in TransferKeys /\ l \in {"send", "await"} => pc[c] \in {"send", "await"}
      BY <1>1 DEF LookupL1, AcquireLocks, FindExisting, Validate, SendToLedger, Finalize, RecordEvent,
                  MarkFailed, CacheAnswer, ReleaseLocks, Crash, FailureLabel, Throw, Labels, Ended
    <2>3. \A d \in Calls : key[d] \in TransferKeys /\ pc'[d] \in {"send", "await"} =>
             pc[d] \in {"send", "await"}
      BY <1>0, <2>2 DEF TypeOK
    <2> QED
      BY <1>0, <1>a, <2>1, <2>3, OnceKept
  <1>2. ASSUME NEW c \in Calls, OpenRow(c) PROVE PostsOnce'
    <2>1. /\ UNCHANGED << entries, inflight, key >>
          /\ \/ pc' = [pc EXCEPT ![c] = "send"] /\ status[key[c]] = "NONE"
             \/ pc' = [pc EXCEPT ![c] = "release"]
      BY <1>2 DEF OpenRow, OpenTransfer
    <2>2. status[key[c]] = "NONE" => ~HasEntries(entries, key[c])
      BY <1>0 DEF EntriesBehind, TypeOK
    <2>3. \A d \in Calls : pc'[d] \in {"send", "await"} =>
             pc[d] \in {"send", "await"} \/ ~HasEntries(entries, key[d])
      BY <1>0, <2>1, <2>2 DEF TypeOK
    <2> QED
      BY <1>0, <1>a, <2>1, <2>3, OnceKept
  <1>3. ASSUME NEW c \in Calls, SendToLedger(c), ~UNCHANGED inflight PROVE PostsOnce'
    <2>1. /\ pc[c] = "send" /\ pc' = [pc EXCEPT ![c] = "await"]
          /\ inflight' = inflight \cup {<< c, tries[c] + 1 >>}
          /\ UNCHANGED << entries, key >>
      BY <1>3 DEF SendToLedger
    <2>2. \A x \in inflight : x[1] # c
      BY <1>b, <2>1 DEF Awaited
    <2>3. \A x, y \in inflight' : x[1] = y[1] => x = y
      BY <1>0, <1>a, <2>1, <2>2 DEF PostsOnce
    <2>4. \A d \in Calls : pc'[d] \in {"send", "await"} => pc[d] \in {"send", "await"}
      BY <1>0, <2>1 DEF TypeOK
    <2>5. key[c] \in TransferKeys => ~HasEntries(entries, key[c])
      BY <1>0, <1>a, <2>1 DEF PostsOnce
    <2>6. \A k, a : Postings(k, a)' = Postings(k, a)
      BY <2>1 DEF Postings
    <2>7. \A x \in inflight' : x \in inflight \/ x[1] = c
      BY <2>1
    <2> QED
      BY <1>0, <1>a, <2>1, <2>3, <2>4, <2>5, <2>6, <2>7 DEF PostsOnce
  <1>4. ASSUME NEW x \in inflight, Serve(x) PROVE PostsOnce'
    <2> DEFINE c == x[1]
    <2>1. c \in Calls /\ key[c] \in Keys /\ UNCHANGED << key, tries >> /\ inflight' = inflight \ {x}
      BY <1>0, <1>4, InflightFacts DEF Serve
    <2>2. \A d \in Calls : d # c => pc'[d] = pc[d]
      BY <1>0, <1>4, <2>1
      DEF Serve, LedgerPosts, LedgerRecognises, LedgerRefuses, LedgerFails, Accepted, Reply, TypeOK
    <2>3. \A y, z \in inflight' : y[1] = z[1] => y = z
      BY <1>0, <1>a, <2>1 DEF PostsOnce
    <2>4. CASE LedgerPosts(x)
      <3>1. Post(key[c]) /\ Accepted(x)
        BY <2>4 DEF LedgerPosts
      <3>2. pc'[c] \notin {"send", "await"}
        BY <1>0, <1>b, <2>1, <3>1 DEF Accepted, Reply, TypeOK
      <3>3. \A y \in inflight' : y \in inflight /\ y[1] \in Calls /\ y[1] # c
        BY <1>0, <1>a, <2>1, InflightFacts DEF PostsOnce
      <3>4. ASSUME key[c] \in TransferKeys
            PROVE  /\ ~HasEntries(entries, key[c])
                   /\ \A d \in Calls : d # c /\ key[d] = key[c] => ~Sender(d)
                   /\ \A y \in inflight' : key[y[1]] # key[c]
        <4>1. \A y \in inflight : y[1] \in Calls /\ tries[y[1]] > 0
          <5> SUFFICES ASSUME NEW y \in inflight PROVE y[1] \in Calls /\ tries[y[1]] > 0
            OBVIOUS
          <5>1. y[1] \in Calls /\ y[2] \in 1..MaxAttempts /\ tries[y[1]] \in 0..MaxAttempts
            BY <1>0, InflightFacts DEF TypeOK
          <5>2. y[2] <= tries[y[1]]
            BY <1>0 DEF PostingsCounted
          <5> QED
            BY <5>1, <5>2
        <4>2. Sender(c)
          BY <3>4, <4>1 DEF Sender
        <4>3. ~HasEntries(entries, key[c])
          BY <1>0, <1>a, <3>4 DEF PostsOnce
        <4>4. \A d \in Calls : d # c /\ key[d] = key[c] => ~Sender(d)
          BY <1>0, <2>1, <4>2 DEF PostingsCounted
        <4>5. \A y \in inflight' : key[y[1]] # key[c]
          BY <3>3, <3>4, <4>1, <4>4 DEF Sender
        <4> QED
          BY <4>3, <4>4, <4>5
      <3>5. \A j \in Keys \ {key[c]} :
               /\ HasEntries(entries', j) => HasEntries(entries, j)
               /\ \A a \in Accounts : Postings(j, a)' = Postings(j, a)
        BY <1>0, <2>1, <3>1, PostFacts, PostCounts
      <3>6. ASSUME NEW k \in TransferKeys, k = key[c], NEW a \in Accounts
            PROVE  Postings(k, a)' <= 1
        <4>1. Post(k) /\ k \in Keys
          BY <2>1, <3>1, <3>6
        <4>2. Postings(k, a) = 0
          BY <1>0, <3>4, <3>6, <4>1, CountFacts
        <4>3. Postings(k, a)' <= Postings(k, a) + 1
          BY <1>0, <4>1, PostCounts
        <4> QED
          BY <4>2, <4>3
      <3>7. \A d \in Calls : key[d] = key[c] /\ key[c] \in TransferKeys =>
               pc'[d] \notin {"send", "await"}
        BY <2>2, <3>2, <3>4 DEF Sender
      <3>8. \A k \in TransferKeys : \A a \in Accounts : Postings(k, a)' <= 1
        BY <1>0, <1>a, <3>5, <3>6 DEF PostsOnce, TransferKeys
      <3>9. ASSUME NEW k \in TransferKeys, HasEntries(entries', k)
            PROVE  /\ \A y \in inflight' : key'[y[1]] # k
                   /\ \A d \in Calls : key'[d] = k => pc'[d] \notin {"send", "await"}
        <4>1. CASE k = key[c]
          BY <2>1, <3>4, <3>7, <4>1
        <4>2. CASE k # key[c]
          <5>1. HasEntries(entries, k)
            BY <3>5, <3>9, <4>2 DEF TransferKeys
          <5>2. /\ \A y \in inflight : key[y[1]] # k
                /\ \A d \in Calls : key[d] = k => pc[d] \notin {"send", "await"}
            BY <1>0, <1>a, <5>1 DEF PostsOnce
          <5> QED
            BY <2>1, <2>2, <3>3, <4>2, <5>2
        <4> QED
          BY <4>1, <4>2
      <3> HIDE DEF c
      <3> QED
        BY <2>3, <3>8, <3>9 DEF PostsOnce
    <2>5. CASE ~LedgerPosts(x)
      <3>1. UNCHANGED ledgerVars
        BY <1>4, <2>5 DEF Serve, LedgerRecognises, LedgerRefuses, LedgerFails
      <3>2. pc'[c] \in {"send", "await"} => pc[c] \in {"send", "await"}
        BY <1>0, <1>4, <2>1, <2>5
        DEF Serve, LedgerRecognises, LedgerRefuses, LedgerFails, Accepted, Reply, Awaited, TypeOK
      <3>3. \A k, a : Postings(k, a)' = Postings(k, a)
        BY <3>1 DEF Postings
      <3>4. \A d \in Calls : pc'[d] \in {"send", "await"} => pc[d] \in {"send", "await"}
        BY <2>1, <2>2, <3>2
      <3> HIDE DEF c
      <3>5. \A k \in TransferKeys : \A a \in Accounts : Postings(k, a)' <= 1
        BY <1>0, <1>a, <3>3 DEF PostsOnce
      <3>6. \A k \in Keys : HasEntries(entries', k) => HasEntries(entries, k)
        BY <3>1
      <3> QED
        BY <1>0, <1>a, <2>1, <2>3, <3>4, <3>5, <3>6 DEF PostsOnce, TransferKeys
    <2> QED
      BY <2>4, <2>5
  <1>5. ASSUME NEW a \in Accounts, Expire(a) PROVE PostsOnce'
    BY <1>0, <1>a, <1>5, OnceKept DEF Expire, callVars
  <1>6. ASSUME NEW k \in Keys, Forget(k) PROVE PostsOnce'
    BY <1>0, <1>a, <1>6, OnceKept DEF Forget, callVars
  <1>7. CASE UNCHANGED vars
    BY <1>0, <1>a, <1>7, OnceKept DEF vars, sagaVars, callVars
  <1>8. \A c \in Calls : ~Timeout(c)
    BY <1>a DEF Timeout, Without
  <1> QED
    BY <1>1, <1>2, <1>3, <1>4, <1>5, <1>6, <1>7, <1>8 DEF Next, Step

(* There are finitely many requests of a call.                             *)
LEMMA UnservedFinite ==
    ASSUME NEW c \in Calls
    PROVE  IsFiniteSet(Unserved(c)) /\ Cardinality(Unserved(c)) \in Nat
  <1>1. 1 \in Int /\ MaxAttempts \in Int
    BY PaymentAssumption
  <1>2. IsFiniteSet(1..MaxAttempts)
    BY <1>1, FS_Interval
  <1>3. IsFiniteSet(Unserved(c))
    BY <1>2, FS_Subset DEF Unserved
  <1> QED
    BY <1>3, FS_CardinalityType

LEMMA CountStep == CountInv /\ [Next]_vars => PostingsCounted'
  <1> SUFFICES ASSUME CountInv, [Next]_vars PROVE PostingsCounted'
    OBVIOUS
  <1> USE DEF Goto, ledgerVars
  <1>0. TypeOK /\ TriesLeft /\ LedgerTypeOK /\ RowRules /\ EntriesBehind /\ PostingsCounted
    BY DEF CountInv, ClaimInv, TypeInv, TypeOK
  <1>1. ASSUME NEW c \in Calls,
               \/ LookupL1(c) \/ AcquireLocks(c) \/ FindExisting(c) \/ Validate(c)
               \/ SendToLedger(c) /\ UNCHANGED inflight /\ UNCHANGED tries
               \/ Finalize(c) \/ RecordEvent(c) \/ MarkFailed(c) \/ CacheAnswer(c)
               \/ ReleaseLocks(c) \/ Timeout(c) \/ Crash(c)
        PROVE  PostingsCounted'
    <2>1. UNCHANGED << entries, inflight, tries, key >>
      BY <1>1 DEF LookupL1, AcquireLocks, FindExisting, Validate, SendToLedger, Finalize, Complete,
                  RecordEvent, MarkFailed, CacheAnswer, ReleaseLocks, Timeout, Crash
    <2>2. \E l \in Labels :
             /\ pc' = [pc EXCEPT ![c] = l]
             /\ key[c] \in TransferKeys /\ l \in {"send", "await"} => pc[c] \in {"send", "await"}
      BY <1>1 DEF LookupL1, AcquireLocks, FindExisting, Validate, SendToLedger, Finalize, RecordEvent,
                  MarkFailed, CacheAnswer, ReleaseLocks, Timeout, Crash, NextTry, FailureLabel,
                  Throw, Labels, Ended
    <2>3. \A d \in Calls : Sender(d)' => Sender(d)
      BY <1>0, <2>1, <2>2 DEF TypeOK, Sender
    <2>4. \/ UNCHANGED status
          \/ \E s \in {"COMPLETED", "FAILED"} : status' = [status EXCEPT ![key[c]] = s]
      BY <1>1 DEF LookupL1, AcquireLocks, FindExisting, Validate, SendToLedger, Finalize, Complete,
                  RecordEvent, MarkFailed, CacheAnswer, ReleaseLocks, Timeout, Crash
    <2>5. \A k \in Keys : status[k] # "NONE" => status'[k] # "NONE"
      BY <1>0, <2>4 DEF LedgerTypeOK
    <2> QED
      BY <1>0, <2>1, <2>3, <2>5, CountsKept DEF TypeOK
  <1>2. ASSUME NEW c \in Calls, OpenRow(c) PROVE PostingsCounted'
    <2>1. /\ UNCHANGED << entries, inflight, tries, key >>
          /\ \/ /\ pc' = [pc EXCEPT ![c] = "send"] /\ status[key[c]] = "NONE"
                /\ status' = [status EXCEPT ![key[c]] = "PENDING"]
             \/ /\ pc' = [pc EXCEPT ![c] = "release"]
                /\ UNCHANGED status \/ status' = [status EXCEPT ![key[c]] = "PENDING"]
      BY <1>2 DEF OpenRow, OpenTransfer
    <2>2. /\ key[c] \in Keys /\ tries[c] = 0
          /\ \A k \in Keys : status[k] # "NONE" => status'[k] # "NONE"
      BY <1>0, <1>2, <2>1 DEF TypeOK, LedgerTypeOK, TriesLeft, OpenRow
    <2>3. CASE pc' = [pc EXCEPT ![c] = "release"]
      <3>1. \A d \in Calls : Sender(d)' => Sender(d)
        BY <1>0, <2>1, <2>3 DEF TypeOK, Sender
      <3> QED
        BY <1>0, <2>1, <2>2, <3>1, CountsKept DEF TypeOK
    <2>4. CASE pc' # [pc EXCEPT ![c] = "release"]
      <3>1. /\ pc' = [pc EXCEPT ![c] = "send"] /\ status[key[c]] = "NONE"
            /\ status' = [status EXCEPT ![key[c]] = "PENDING"]
        BY <2>1, <2>4
      <3>2. \A d \in Calls : Sender(d)' => Sender(d) \/ d = c
        BY <1>0, <2>1, <3>1 DEF TypeOK, Sender
      <3>3. \A d \in Calls : Sender(d) => key[d] # key[c]
        BY <1>0, <3>1 DEF PostingsCounted
      <3>4. \A k, a : Postings(k, a)' = Postings(k, a)
        BY <2>1 DEF Postings
      <3>5. \A d : Unserved(d)' = Unserved(d)
        BY <2>1 DEF Unserved
      <3>6. \A a \in Accounts : Postings(key[c], a) + Cardinality(Unserved(c)) <= tries[c]
        <4>1. \A a \in Accounts : Postings(key[c], a) = 0
          BY <1>0, <2>2, <3>1, CountFacts DEF EntriesBehind
        <4>2. Unserved(c) = {}
          <5>1. \A i \in 1..MaxAttempts : << c, i >> \in inflight => i <= tries[c]
            BY <1>0 DEF PostingsCounted
          <5> QED
            BY <2>2, <5>1, PaymentAssumption DEF Unserved
        <4>3. Cardinality(Unserved(c)) = 0
          BY <4>2, FS_EmptySet
        <4> QED
          BY <2>2, <4>1, <4>3
      <3>7. \A d \in Calls : Sender(d) => status'[key[d]] # "NONE"
        BY <1>0, <2>2 DEF PostingsCounted, TypeOK
      <3>8. status'[key[c]] # "NONE"
        BY <1>0, <2>2, <3>1 DEF LedgerTypeOK
      <3> QED
        BY <1>0, <2>1, <3>2, <3>3, <3>4, <3>5, <3>6, <3>7, <3>8 DEF PostingsCounted
    <2> QED
      BY <2>3, <2>4
  <1>3. ASSUME NEW c \in Calls, SendToLedger(c), ~(UNCHANGED inflight /\ UNCHANGED tries)
        PROVE  PostingsCounted'
    <2> DEFINE n == tries[c] + 1
    <2>1. /\ pc[c] = "send" /\ pc' = [pc EXCEPT ![c] = "await"]
          /\ tries' = [tries EXCEPT ![c] = @ + 1]
          /\ inflight' = inflight \cup {<< c, n >>}
          /\ UNCHANGED << entries, status, key >>
      BY <1>3 DEF SendToLedger
    <2>2. tries[c] \in Nat /\ n \in 1..MaxAttempts /\ n > tries[c] /\ n > 0
      BY <1>0, <2>1, PaymentAssumption DEF TypeOK, TriesLeft
    <2>3. \A d \in Calls : tries'[d] = IF d = c THEN n ELSE tries[d]
      BY <1>0, <2>1 DEF TypeOK
    <2>4. \A k, a : Postings(k, a)' = Postings(k, a)
      BY <2>1 DEF Postings
    <2>5. \A d \in Calls : d # c => Unserved(d)' = Unserved(d)
      BY <2>1 DEF Unserved
    <2>6. Unserved(c)' = Unserved(c) \cup {n}
      BY <2>1, <2>2 DEF Unserved
    <2>7. /\ Cardinality(Unserved(c)) \in Nat /\ Cardinality(Unserved(c)') \in Nat
          /\ Cardinality(Unserved(c)') <= Cardinality(Unserved(c)) + 1
      BY <2>6, OneMore, UnservedFinite
    <2>8. \A d \in Calls : Sender(d)' <=> Sender(d)
      BY <1>0, <2>1, <2>2, <2>3 DEF TypeOK, Sender
    <2>9. \A a \in Accounts : Postings(key[c], a) \in Nat
      BY <1>0, CountFacts DEF TypeOK
    <2> HIDE DEF n
    <2>10. \A d \in Calls : Sender(d) => \A a \in Accounts :
              Postings(key[d], a) + Cardinality(Unserved(d)') <= tries'[d]
      <3> SUFFICES ASSUME NEW d \in Calls, Sender(d), NEW a \in Accounts
                   PROVE  Postings(key[d], a) + Cardinality(Unserved(d)') <= tries'[d]
        OBVIOUS
      <3>1. Postings(key[d], a) + Cardinality(Unserved(d)) <= tries[d]
        BY <1>0 DEF PostingsCounted
      <3>2. CASE d = c
        <4>1. n = tries[c] + 1
          BY DEF n
        <4> QED
          BY <2>2, <2>3, <2>7, <2>9, <3>1, <3>2, <4>1
      <3>3. CASE d # c
        BY <2>3, <2>5, <3>1, <3>3
      <3> QED
        BY <3>2, <3>3
    <2>11. \A x \in inflight' : x[2] <= tries'[x[1]]
      <3> SUFFICES ASSUME NEW x \in inflight' PROVE x[2] <= tries'[x[1]]
        OBVIOUS
      <3>1. CASE x = << c, n >>
        BY <2>2, <2>3, <3>1
      <3>2. CASE x \in inflight
        <4>1. x[1] \in Calls /\ x[2] \in 1..MaxAttempts /\ x[2] <= tries[x[1]]
          BY <1>0, <3>2, InflightFacts DEF PostingsCounted
        <4> QED
          BY <2>2, <2>3, <4>1
      <3> QED
        BY <2>1, <3>1, <3>2
    <2>12. \A d \in Calls : tries[d] > 0 => tries'[d] > 0
      BY <2>2, <2>3
    <2> QED
      BY <1>0, <2>1, <2>4, <2>8, <2>10, <2>11, <2>12 DEF PostingsCounted
  <1>4. ASSUME NEW x \in inflight, Serve(x) PROVE PostingsCounted'
    <2> DEFINE c == x[1]
    <2>1. c \in Calls /\ key[c] \in Keys /\ UNCHANGED << key, tries >> /\ inflight' = inflight \ {x}
      BY <1>0, <1>4, InflightFacts DEF Serve
    <2>2. /\ x[2] \in 1..MaxAttempts /\ x[2] <= tries[c] /\ tries[c] > 0
          /\ x = << c, x[2] >>
      <3>1. x[2] \in 1..MaxAttempts /\ x[2] <= tries[c] /\ tries[c] \in Nat
        BY <1>0, <2>1, InflightFacts DEF PostingsCounted, TypeOK
      <3>2. x = << c, x[2] >>
        BY <1>0 DEF TypeOK
      <3> QED
        BY <3>1, <3>2
    <2>3. \A d \in Calls : Sender(d)' => Sender(d)
      <3>1. \A d \in Calls : d # c => pc'[d] = pc[d]
        BY <1>0, <1>4, <2>1
        DEF Serve, LedgerPosts, LedgerRecognises, LedgerRefuses, LedgerFails, Accepted, Reply, TypeOK
      <3> QED
        BY <2>1, <2>2, <3>1 DEF Sender
    <2>4. \A d \in Calls : d # c => Unserved(d)' = Unserved(d)
      BY <2>1, <2>2 DEF Unserved
    <2>5. /\ Unserved(c) = Unserved(c)' \cup {x[2]} /\ x[2] \notin Unserved(c)'
      BY <2>1, <2>2 DEF Unserved
    <2>6. /\ Cardinality(Unserved(c)) \in Nat /\ Cardinality(Unserved(c)') \in Nat
          /\ Cardinality(Unserved(c)) = Cardinality(Unserved(c)') + 1
      <3>1. IsFiniteSet(Unserved(c)')
        <4>1. IsFiniteSet(Unserved(c)) /\ Unserved(c)' \in SUBSET Unserved(c)
          BY <2>1, <2>5, UnservedFinite
        <4> QED
          BY <4>1, FS_Subset
      <3>2. Cardinality(Unserved(c)' \cup {x[2]}) = Cardinality(Unserved(c)') + 1
        BY <2>5, <3>1, FS_AddElement
      <3> QED
        BY <2>5, <3>1, <3>2, UnservedFinite, FS_CardinalityType
    <2>7. \A y \in inflight' : y[2] <= tries'[y[1]]
      BY <1>0, <2>1 DEF PostingsCounted
    <2>8. CASE LedgerPosts(x)
      <3>1. Post(key[c])
        BY <2>8 DEF LedgerPosts
      <3>2. \A j \in Keys \ {key[c]} :
               /\ HasEntries(entries', j) => HasEntries(entries, j)
               /\ \A a \in Accounts : Postings(j, a)' = Postings(j, a)
        BY <1>0, <2>1, <3>1, PostFacts, PostCounts
      <3>3. \A k \in Keys : k = key[c] => \A a \in Accounts :
               /\ Postings(k, a)' <= Postings(k, a) + 1
               /\ Postings(k, a) \in Nat /\ Postings(k, a)' \in Nat
        BY <1>0, <3>1, PostCounts, CountFacts
      <3>4. \A k \in Keys : status[k] # "NONE" => status'[k] # "NONE"
        BY <1>0, <2>1, <3>1 DEF Post, LedgerTypeOK
      <3>5. \A d \in Calls : Sender(d) => \A a \in Accounts :
               Postings(key[d], a)' + Cardinality(Unserved(d)') <= tries[d]
        <4> SUFFICES ASSUME NEW d \in Calls, Sender(d), NEW a \in Accounts,
                            NEW k \in Keys, k = key[d]
                     PROVE  Postings(k, a)' + Cardinality(Unserved(d)') <= tries[d]
          BY <1>0, <2>1 DEF TypeOK
        <4>1. Postings(k, a) + Cardinality(Unserved(d)) <= tries[d]
          BY <1>0 DEF PostingsCounted
        <4>2. CASE d = c
          <5>1. tries[c] \in Nat
            BY <1>0, <2>1 DEF TypeOK
          <5> QED
            BY <2>6, <3>3, <4>1, <4>2, <5>1
        <4>3. CASE d # c
          <5>1. Sender(c) \/ key[c] \notin TransferKeys
            BY <2>2 DEF Sender
          <5>2. key[d] # key[c]
            BY <1>0, <2>1, <4>3, <5>1 DEF PostingsCounted, Sender
          <5>3. Postings(k, a)' = Postings(k, a)
            BY <3>2, <5>2
          <5> QED
            BY <2>4, <4>1, <4>3, <5>3
        <4> QED
          BY <4>2, <4>3
      <3>6. \A k \in TransferKeys : HasEntries(entries', k) =>
               \E d \in Calls : key[d] = k /\ tries[d] > 0
        BY <1>0, <2>1, <2>2, <3>2 DEF PostingsCounted, TransferKeys
      <3>7. \A k \in Keys \ TransferKeys : \A a \in Accounts : Postings(k, a)' <= 1
        <4> SUFFICES ASSUME NEW k \in Keys \ TransferKeys, NEW a \in Accounts
                     PROVE  Postings(k, a)' <= 1
          OBVIOUS
        <4>1. CASE k # key[c]
          BY <1>0, <3>2, <4>1 DEF PostingsCounted
        <4>2. CASE k = key[c]
          <5>1. status[key[c]] = "NONE"
            BY <3>1, <4>2 DEF Post, Postable
          <5>2. Postings(key[c], a) = 0
            BY <1>0, <2>1, <5>1, CountFacts DEF EntriesBehind
          <5> QED
            BY <3>3, <4>2, <5>2
        <4> QED
          BY <4>1, <4>2
      <3>8. \A d \in Calls : Sender(d) => status'[key[d]] # "NONE"
        BY <1>0, <3>4 DEF PostingsCounted, TypeOK
      <3> HIDE DEF c
      <3> QED
        BY <1>0, <2>1, <2>3, <2>7, <3>5, <3>6, <3>7, <3>8 DEF PostingsCounted
    <2>9. CASE ~LedgerPosts(x)
      <3>1. UNCHANGED ledgerVars
        BY <1>4, <2>9 DEF Serve, LedgerRecognises, LedgerRefuses, LedgerFails
      <3>2. \A k, a : Postings(k, a)' = Postings(k, a)
        BY <3>1 DEF Postings
      <3>3. \A d \in Calls : Sender(d) => \A a \in Accounts :
               Postings(key[d], a) + Cardinality(Unserved(d)') <= tries[d]
        <4> SUFFICES ASSUME NEW d \in Calls, Sender(d), NEW a \in Accounts
                     PROVE  Postings(key[d], a) + Cardinality(Unserved(d)') <= tries[d]
          OBVIOUS
        <4>1. Postings(key[d], a) + Cardinality(Unserved(d)) <= tries[d]
          BY <1>0 DEF PostingsCounted
        <4>2. Postings(key[d], a) \in Nat /\ tries[d] \in Nat
          BY <1>0, CountFacts DEF TypeOK
        <4>3. CASE d = c
          BY <2>6, <4>1, <4>2, <4>3
        <4>4. CASE d # c
          BY <2>4, <4>1, <4>4
        <4> QED
          BY <4>3, <4>4
      <3> HIDE DEF c
      <3> QED
        BY <1>0, <2>1, <2>3, <2>7, <3>1, <3>2, <3>3 DEF PostingsCounted
    <2> QED
      BY <2>8, <2>9
  <1>5. ASSUME NEW a \in Accounts, Expire(a) PROVE PostingsCounted'
    BY <1>0, <1>5, CountsKept DEF Expire, callVars, Sender
  <1>6. ASSUME NEW k \in Keys, Forget(k) PROVE PostingsCounted'
    BY <1>0, <1>6, CountsKept DEF Forget, callVars, Sender
  <1>7. CASE UNCHANGED vars
    BY <1>0, <1>7, CountsKept DEF vars, sagaVars, callVars, Sender
  <1> QED
    BY <1>1, <1>2, <1>3, <1>4, <1>5, <1>6, <1>7 DEF Next, Step

(* Cash moves once under every fault; a transfer moves once if no call     *)
(* gives a ledger request up, and at most as often as its call may try.    *)
THEOREM PostingsAreBounded == Spec => []PostingsBounded
  <1>1. CountInv => PostingsBounded
    <2> SUFFICES ASSUME CountInv, NEW k \in Keys, NEW a \in Accounts
                 PROVE  Postings(k, a) <= IF k \in TransferKeys /\ ~Without({"timeout"})
                                           THEN MaxAttempts ELSE 1
      BY DEF PostingsBounded, CountInv, ClaimInv, TypeInv
    <2>0. TypeOK /\ LedgerTypeOK /\ PostingsCounted /\ PostsOnce
      BY DEF CountInv, ClaimInv, TypeInv, TypeOK
    <2>1. CASE k \notin TransferKeys
      BY <2>0, <2>1 DEF PostingsCounted
    <2>2. CASE k \in TransferKeys /\ Without({"timeout"})
      BY <2>0, <2>2 DEF PostsOnce
    <2>3. CASE k \in TransferKeys /\ ~Without({"timeout"})
      <3>1. CASE ~HasEntries(entries, k)
        BY <2>0, <2>3, <3>1, CountFacts, PaymentAssumption
      <3>2. CASE HasEntries(entries, k)
        <4>1. PICK c \in Calls : key[c] = k /\ tries[c] > 0
          BY <2>0, <2>3, <3>2 DEF PostingsCounted
        <4>2. Sender(c)
          BY <2>3, <4>1 DEF Sender
        <4>3. Postings(k, a) + Cardinality(Unserved(c)) <= tries[c]
          BY <2>0, <4>1, <4>2 DEF PostingsCounted
        <4>4. /\ Postings(k, a) \in Nat /\ Cardinality(Unserved(c)) \in Nat
              /\ tries[c] \in 0..MaxAttempts
          BY <2>0, CountFacts, UnservedFinite, FS_CardinalityType DEF TypeOK
        <4> QED
          BY <2>3, <4>3, <4>4, PaymentAssumption
      <3> QED
        BY <3>1, <3>2
    <2> QED
      BY <2>1, <2>2, <2>3
  <1>2. Init => CountInv
    BY ClaimInit, AwaitInit, CountInit DEF CountInv
  <1>3. CountInv /\ [Next]_vars => CountInv'
    <2>1. CountInv => TypeOK
      BY DEF CountInv, ClaimInv, TypeInv
    <2> QED
      BY <2>1, ClaimStep, AwaitStep, CountStep, OnceStep DEF CountInv
  <1> QED
    BY <1>1, <1>2, <1>3, PTL DEF Spec

=============================================================================
