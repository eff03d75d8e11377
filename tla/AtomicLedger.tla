---------------------------- MODULE AtomicLedger ----------------------------
(***************************************************************************)
(* What ledger-service promises its callers, as if every posting were one  *)
(* indivisible step: a request moves money only between active accounts    *)
(* that can afford it, writes its ledger entries in the same step, and the *)
(* transaction row follows PENDING -> COMPLETED -> FAILED, or a part of it.*)
(*                                                                         *)
(* The promise is deliberately no stronger than the code: a transfer may   *)
(* be posted again under a row that already exists, because the ledger     *)
(* only refuses a key whose row is COMPLETED and has entries.              *)
(***************************************************************************)
EXTENDS LedgerRequests

VARIABLES
    balance,  \* Account.balance
    status,   \* Transaction.status of the row with this idempotency key
    entries   \* the LedgerEntry rows of each account, in commit order

ledgerVars == << balance, status, entries >>

LedgerTypeOK ==
    /\ balance \in [Accounts -> Int]
    /\ status \in [Keys -> TxStatus]
    /\ entries \in [Accounts -> Seq(Entry)]

LedgerInit ==
    /\ balance = InitialBalance
    /\ status = [k \in Keys |-> "NONE"]
    /\ entries = [a \in Accounts |-> << >>]

(* What every posting checks before it moves money. *)
Affordable(k) ==
    /\ Legs(k) \subseteq ActiveAccounts
    /\ Request[k].source # NoAccount =>
           balance[Request[k].source] >= Request[k].amount

(* The transaction row that a posting may write its entries under. *)
Postable(k) == status[k] = "NONE" \/ k \in TransferKeys

Post(k) ==
    /\ Postable(k)
    /\ Affordable(k)
    /\ balance' = [a \in Accounts |->
                     IF a \in Legs(k) THEN balance[a] + Delta(k, a) ELSE balance[a]]
    /\ entries' = [a \in Accounts |->
                     IF a \in Legs(k)
                     THEN Append(entries[a], EntryFor(k, a, balance[a] + Delta(k, a)))
                     ELSE entries[a]]
    /\ status' = [status EXCEPT ![k] = IF @ = "NONE" THEN StatusOnCreate(k) ELSE @]

(* payment-service opens the row of a transfer; the key is unique. *)
OpenTransfer(k) ==
    /\ k \in TransferKeys
    /\ status[k] = "NONE"
    /\ status' = [status EXCEPT ![k] = "PENDING"]
    /\ UNCHANGED << balance, entries >>

(***************************************************************************)
(* payment-service closes a row it opened.  markTransactionFailed updates  *)
(* by id whatever the status, so it also overwrites a COMPLETED whose      *)
(* commit was not acknowledged.                                            *)
(***************************************************************************)
CloseTransfer(k, outcome) ==
    /\ k \in TransferKeys
    /\ \/ status[k] = "PENDING"
       \/ status[k] = "COMPLETED" /\ outcome = "FAILED"
    /\ outcome = "COMPLETED" => HasEntries(entries, k)
    /\ status' = [status EXCEPT ![k] = outcome]
    /\ UNCHANGED << balance, entries >>

LedgerNext ==
    \E k \in Keys :
        \/ Post(k)
        \/ OpenTransfer(k)
        \/ \E outcome \in {"COMPLETED", "FAILED"} : CloseTransfer(k, outcome)

LedgerSpec == LedgerInit /\ [][LedgerNext]_ledgerVars
=============================================================================
