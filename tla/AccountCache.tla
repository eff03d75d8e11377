---------------------------- MODULE AccountCache ----------------------------
(***************************************************************************)
(* The account service over its Redis cache: one account, its row in the   *)
(* database, the two cache entries made from it, and requests that read it *)
(* while payments change the row and then delete the entries.  Accounts do *)
(* not share entries, so one account stands for all.                       *)
(*                                                                         *)
(* A row is its balance and its version; the balance entry keeps both, and *)
(* is filled from the details entry when that is there.                    *)
(***************************************************************************)
EXTENDS Naturals, Integers, FiniteSets

CONSTANTS
    Readers,       \* requests to the account service at a time
    Deposits,      \* opening deposits
    Amounts,       \* amounts that move
    MaxAttempts,   \* account numbers tried for a new account
    MaxVersions,   \* postings to the account
    MaxErrors      \* failed Redis commands

ASSUME AccountCacheAssumption ==
    /\ Deposits \subseteq Nat /\ Amounts \subseteq Nat \ {0}
    /\ MaxAttempts \in Nat \ {0} /\ MaxVersions \in Nat /\ MaxErrors \in Nat

Callers == {"owner", "stranger", "staff"}
Reads == {"balance", "details", "list"}
NoRow == [balance |-> 0, version |-> -1]
Row == [balance : Nat, version : 0 .. MaxVersions]
Idle == [pc |-> "idle", who |-> "owner", what |-> "balance", row |-> NoRow]

VARIABLES
    attempts,      \* numbers tried in createAccount; 0 when the account is open
    row,           \* the account in the database
    details, balance,  \* the two cache entries, NoRow when absent
    due,           \* payments that have posted and not yet deleted the entries
    reader,        \* the requests under way
    told,          \* what each request was last answered, and whom
    errors

cacheVars == <<attempts, row, details, balance, due, reader, told, errors>>

Nothing == [who |-> "owner", row |-> NoRow]
Allowed(who) == who # "stranger"
Answered(r, v) ==
    /\ reader' = [reader EXCEPT ![r] = Idle]
    /\ told' = [told EXCEPT ![r] = [who |-> reader[r].who, row |-> v]]
Goes(r, pc, v) ==
    /\ reader' = [reader EXCEPT ![r].pc = pc, ![r].row = v]
    /\ UNCHANGED told
RedisError == errors < MaxErrors /\ errors' = errors + 1

CacheInit ==
    /\ attempts = 1 /\ row = NoRow
    /\ details = NoRow /\ balance = NoRow /\ due = 0
    /\ reader = [r \in Readers |-> Idle] /\ told = [r \in Readers |-> Nothing]
    /\ errors = 0

-----------------------------------------------------------------------------
(* createAccount tries numbers until one is free. *)

Open ==
    /\ attempts > 0
    /\ \/ \E d \in Deposits : row' = [balance |-> d, version |-> 0] /\ attempts' = 0
       \/ attempts < MaxAttempts /\ attempts' = attempts + 1 /\ UNCHANGED row
    /\ UNCHANGED <<details, balance, due, reader, told, errors>>

(***************************************************************************)
(* The ledger commits a posting; the payment service deletes both entries  *)
(* before it answers, and goes on when Redis does not obey.  A posting     *)
(* that the ledger makes after the payment service has given it up is      *)
(* followed by no deletion: none is owed, see CacheFairness.               *)
(***************************************************************************)
Posted(n) ==
    /\ attempts = 0 /\ row.version < MaxVersions
    /\ row' = [balance |-> row.balance + n, version |-> row.version + 1]
    /\ due' = due + 1
    /\ UNCHANGED <<attempts, details, balance, reader, told, errors>>

InvalidateAccounts ==
    /\ due > 0 /\ due' = due - 1
    /\ \/ /\ details' = NoRow /\ balance' = NoRow
          /\ UNCHANGED errors
       \/ /\ RedisError
          /\ UNCHANGED <<details, balance>>
    /\ UNCHANGED <<attempts, row, reader, told>>

-----------------------------------------------------------------------------
(* A request: getAccountBalance, getAccountDetails or getUserAccounts. *)

Ask(r, who, what) ==
    /\ attempts = 0 /\ reader[r] = Idle
    /\ reader' = [reader EXCEPT ![r] =
           [pc |-> IF what = "balance" THEN "getBalance"
                   ELSE IF what = "details" THEN "getDetails" ELSE "find",
            who |-> who, what |-> what, row |-> NoRow]]
    /\ told' = [told EXCEPT ![r] = Nothing]
    /\ UNCHANGED <<attempts, row, details, balance, due, errors>>

\* Mutant for OwnersOnly: a hit of the balance entry is not checked.
GetBalanceUnchecked(r) ==
    /\ reader[r].pc = "getBalance"
    /\ \/ balance # NoRow /\ Answered(r, balance) /\ UNCHANGED errors
       \/ balance = NoRow /\ Goes(r, "getDetails", NoRow) /\ UNCHANGED errors
    /\ UNCHANGED <<attempts, row, details, balance, due>>

\* A hit is answered to those the entry's owner allows; an error is a miss.
GetBalance(r) ==
    /\ reader[r].pc = "getBalance"
    /\ \/ /\ balance # NoRow
          /\ Answered(r, IF Allowed(reader[r].who) THEN balance ELSE NoRow)
          /\ UNCHANGED errors
       \/ /\ (balance = NoRow /\ UNCHANGED errors) \/ (balance # NoRow /\ RedisError)
          /\ Goes(r, "getDetails", NoRow)
    /\ UNCHANGED <<attempts, row, details, balance, due>>

\* What getAccountDetails returns goes back to its caller.
Returns(r, v) ==
    IF reader[r].what = "balance" THEN Goes(r, "setBalance", v) ELSE Answered(r, v)

GetDetails(r) ==
    /\ reader[r].pc = "getDetails"
    /\ \/ /\ details # NoRow
          /\ IF Allowed(reader[r].who) THEN Returns(r, details) ELSE Answered(r, NoRow)
          /\ UNCHANGED errors
       \/ /\ (details = NoRow /\ UNCHANGED errors) \/ (details # NoRow /\ RedisError)
          /\ Goes(r, "find", NoRow)
    /\ UNCHANGED <<attempts, row, details, balance, due>>

Find(r) ==
    /\ reader[r].pc = "find" /\ reader[r].what # "list"
    /\ IF Allowed(reader[r].who) THEN Goes(r, "setDetails", row) ELSE Answered(r, NoRow)
    /\ UNCHANGED <<attempts, row, details, balance, due, errors>>

\* A customer's list has the customer's own accounts, the staff's has all of
\* them; neither is cached.
List(r) ==
    /\ reader[r].pc = "find" /\ reader[r].what = "list"
    /\ Answered(r, IF Allowed(reader[r].who) THEN row ELSE NoRow)
    /\ UNCHANGED <<attempts, row, details, balance, due, errors>>

SetDetails(r) ==
    /\ reader[r].pc = "setDetails"
    /\ \/ details' = reader[r].row /\ UNCHANGED errors
       \/ RedisError /\ UNCHANGED details
    /\ Returns(r, reader[r].row)
    /\ UNCHANGED <<attempts, row, balance, due>>

SetBalance(r) ==
    /\ reader[r].pc = "setBalance"
    /\ \/ balance' = reader[r].row /\ UNCHANGED errors
       \/ RedisError /\ UNCHANGED balance
    /\ Answered(r, reader[r].row)
    /\ UNCHANGED <<attempts, row, details, due>>

Reading(r) ==
    GetBalance(r) \/ GetDetails(r) \/ Find(r) \/ List(r) \/ SetDetails(r) \/ SetBalance(r)

-----------------------------------------------------------------------------
(* EX: details live five minutes, the balance thirty seconds. *)

\* Mutant for StaleEntriesDie: the details are stored without EX.
ExpireDetailsNever == FALSE /\ UNCHANGED cacheVars

ExpireDetails ==
    /\ details # NoRow /\ details' = NoRow
    /\ UNCHANGED <<attempts, row, balance, due, reader, told, errors>>

ExpireBalance ==
    /\ balance # NoRow /\ balance' = NoRow
    /\ UNCHANGED <<attempts, row, details, due, reader, told, errors>>

CacheNext ==
    \/ Open \/ \E n \in Amounts : Posted(n)
    \/ InvalidateAccounts
    \/ \E r \in Readers : \/ \E who \in Callers, what \in Reads : Ask(r, who, what)
                          \/ Reading(r)
    \/ ExpireDetails \/ ExpireBalance

\* Requests are carried on, and Redis drops what has expired.
CacheFairness ==
    /\ \A r \in Readers : WF_cacheVars(Reading(r))
    /\ WF_cacheVars(ExpireDetails) /\ WF_cacheVars(ExpireBalance)

CacheSpec == CacheInit /\ [][CacheNext]_cacheVars /\ CacheFairness

-----------------------------------------------------------------------------
(* The types of the variables. *)
CacheTypeOK ==
    /\ attempts \in 0 .. MaxAttempts
    /\ \A v \in {row, details, balance} : v \in Row \cup {NoRow}
    /\ due \in Nat /\ errors \in 0 .. MaxErrors
    /\ \A r \in Readers :
          /\ reader[r].pc \in {"idle", "getBalance", "getDetails", "find", "setDetails", "setBalance"}
          /\ reader[r].row \in Row \cup {NoRow}
          /\ told[r].row \in Row \cup {NoRow}

(***************************************************************************)
(* Nobody but the owner and the staff is ever told a balance, by whichever *)
(* of the five ways through the two entries the answer came and whoever    *)
(* filled them.                                                            *)
(***************************************************************************)
OwnersOnly ==
    /\ CacheTypeOK
    /\ \A r \in Readers : told[r].row # NoRow => Allowed(told[r].who)

(***************************************************************************)
(* A balance read before a posting and stored after its invalidation does  *)
(* not stay: however requests keep filling one entry from the other, both  *)
(* end up absent or equal to the row once the postings are over.           *)
(***************************************************************************)
StaleEntriesDie == <>[](details \in {NoRow, row} /\ balance \in {NoRow, row})
=============================================================================
