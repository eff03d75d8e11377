--------------------------- MODULE LedgerRequests ---------------------------
(***************************************************************************)
(* The vocabulary shared by the ledger modules: accounts, idempotency keys *)
(* and the money movement each key stands for.                             *)
(*                                                                         *)
(* A client draws one UUID per intended movement, so a key names exactly   *)
(* one request; a retry repeats the same request under the same key.       *)
(* Amounts are integers: they stand for minor currency units.              *)
(***************************************************************************)
EXTENDS Integers, Sequences

CONSTANTS
    Accounts,        \* account numbers that a request may name
    ActiveAccounts,  \* those that exist and have status ACTIVE
    InitialBalance,  \* the balance each account starts with
    Keys,            \* idempotency keys
    Request,         \* the request each key names
    NoAccount        \* the absent side of a deposit or a withdrawal

Kinds == {"TRANSFER", "DEPOSIT", "WITHDRAWAL"}

(***************************************************************************)
(* What the request validators let through: both sides of a transfer, the  *)
(* two being different; the target only of a deposit; the source only of a *)
(* withdrawal; a positive amount.                                          *)
(***************************************************************************)
WellFormed(r) ==
    /\ r.kind \in Kinds
    /\ r.amount \in Nat \ {0}
    /\ r.source \in Accounts \cup {NoAccount}
    /\ r.target \in Accounts \cup {NoAccount}
    /\ r.source = NoAccount <=> r.kind = "DEPOSIT"
    /\ r.target = NoAccount <=> r.kind = "WITHDRAWAL"
    /\ r.source # r.target

ASSUME LedgerAssumption ==
    /\ NoAccount \notin Accounts
    /\ ActiveAccounts \subseteq Accounts
    /\ InitialBalance \in [Accounts -> Nat]
    /\ \A k \in Keys : WellFormed(Request[k])

(* The accounts a request touches. *)
Legs(k) == {Request[k].source, Request[k].target} \ {NoAccount}

(* How a request changes the balance of an account it touches. *)
Delta(k, a) ==
    IF a = Request[k].source THEN -Request[k].amount ELSE Request[k].amount

(* Keys whose transaction row payment-service creates, and later closes.   *)
TransferKeys == {k \in Keys : Request[k].kind = "TRANSFER"}

TxStatus == {"NONE", "PENDING", "COMPLETED", "FAILED"}

Entry == [key : Keys, type : {"DEBIT", "CREDIT"}, amount : Nat,
          balanceAfter : Int]

(* The immutable ledger entry that request k leaves on account a. *)
EntryFor(k, a, newBalance) ==
    [key |-> k,
     type |-> IF a = Request[k].source THEN "DEBIT" ELSE "CREDIT",
     amount |-> Request[k].amount,
     balanceAfter |-> newBalance]

(* The transaction status a posting leaves when it creates the row itself. *)
StatusOnCreate(k) ==
    IF Request[k].kind = "TRANSFER" THEN "PENDING" ELSE "COMPLETED"

HasEntries(entries, k) ==
    \E a \in Accounts : \E i \in DOMAIN entries[a] : entries[a][i].key = k

Signed(e) == IF e.type = "DEBIT" THEN -e.amount ELSE e.amount

(***************************************************************************)
(* An account statement is sound when every balanceAfter is the previous   *)
(* one moved by the entry, from the opening balance to the current one.    *)
(***************************************************************************)
BalanceBefore(stmt, opening, i) ==
    IF i = 1 THEN opening ELSE stmt[i - 1].balanceAfter

SoundStatement(stmt, opening, current) ==
    /\ \A i \in 1..Len(stmt) :
          stmt[i].balanceAfter = BalanceBefore(stmt, opening, i) + Signed(stmt[i])
    /\ current = IF stmt = << >> THEN opening ELSE stmt[Len(stmt)].balanceAfter
=============================================================================
