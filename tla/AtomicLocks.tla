---------------------------- MODULE AtomicLocks -----------------------------
(***************************************************************************)
(* What the lock service promises an operation: all the accounts it wants, *)
(* in one step, while no other operation has been granted any of them.     *)
(* A grant shrinks when the operation gives an account back, when it dies  *)
(* or, if it is slower than the time to live of its keys, when it loses one.*)
(***************************************************************************)
CONSTANTS
    Accounts,
    Operations,  \* calls that lock accounts
    Want,        \* the accounts each of them locks
    Slow         \* operations that may hold locks longer than their TTL

VARIABLE granted

LocksInit == granted = [p \in Operations |-> {}]

Grant(p, S) ==
    /\ granted[p] = {}
    /\ S \subseteq Want[p]
    /\ p \notin Slow => S = Want[p]
    /\ \A q \in Operations \ {p} : S \cap granted[q] = {}
    /\ granted' = [granted EXCEPT ![p] = S]

Shrink(p) ==
    \E S \in SUBSET granted[p] : granted' = [granted EXCEPT ![p] = S]

LocksNext ==
    \E p \in Operations : Shrink(p) \/ \E S \in SUBSET Want[p] : Grant(p, S)

LocksSpec == LocksInit /\ [][LocksNext]_granted
=============================================================================
