---------------------------- MODULE LockService -----------------------------
(***************************************************************************)
(* The shared LockService: one Redis key per account, set with NX and a    *)
(* time to live, deleted by a script that compares the random lock id.     *)
(*                                                                         *)
(* An operation is one call of acquireAccountLocks ... releaseAccountLocks *)
(* (withAccountLocks, or the try/finally of payment-service).  Every lock  *)
(* it takes has an id of its own, so "the id of p" identifies the caller.  *)
(* Account numbers are numerals of one length: their alphabetical order is *)
(* the order of the integers they denote.                                  *)
(***************************************************************************)
EXTENDS Integers, FiniteSets

CONSTANTS
    Accounts,
    Operations,
    Want,
    Slow,       \* the operations that may hold locks longer than their TTL
    Faults,     \* Redis calls may fail, processes may die
    Free        \* the value of a key that does not exist

ASSUME LockAssumption ==
    /\ Accounts \subseteq Int /\ IsFiniteSet(Accounts)
    /\ Free \notin Operations
    /\ Want \in [Operations -> SUBSET Accounts]
    /\ \A p \in Operations : Want[p] # {}
    /\ Slow \subseteq Operations
    /\ Faults \in BOOLEAN

VARIABLES
    redis,     \* the operation whose lock id each key holds
    pc,        \* where each operation is
    acquired   \* acquiredLocks, as each operation remembers it

vars == << redis, pc, acquired >>

Ended == {"done", "conflict", "crashed"}

TypeOK ==
    /\ redis \in [Accounts -> Operations \cup {Free}]
    /\ pc \in [Operations -> {"acquiring", "critical", "rollback", "releasing"} \cup Ended]
    /\ acquired \in [Operations -> SUBSET Accounts]

Init ==
    /\ redis = [a \in Accounts |-> Free]
    /\ pc = [p \in Operations |-> "acquiring"]
    /\ acquired = [p \in Operations |-> {}]

Goto(p, label) == pc' = [pc EXCEPT ![p] = label]

(* Mutant: no sort. *)
AnyOf(a, S) == a \in S

(* The first account of a set, in the order both loops walk. *)
IsFirst(a, S) == a \in S /\ \A b \in S : a <= b

Remaining(p) == Want[p] \ acquired[p]

(* Mutant: SET without NX. *)
TakeLockAnyway(p, a) ==
    /\ redis' = [redis EXCEPT ![a] = p]
    /\ acquired' = [acquired EXCEPT ![p] = @ \cup {a}]
    /\ Goto(p, IF Remaining(p) = {a} THEN "critical" ELSE "acquiring")

(* SET key id NX PX ttl, answered OK. *)
TakeLock(p, a) ==
    /\ redis[a] = Free
    /\ redis' = [redis EXCEPT ![a] = p]
    /\ acquired' = [acquired EXCEPT ![p] = @ \cup {a}]
    /\ Goto(p, IF Remaining(p) = {a} THEN "critical" ELSE "acquiring")

(* Anything but OK: the locks acquired so far go back, then 409. *)
GiveUp(p) == Goto(p, IF acquired[p] = {} THEN "conflict" ELSE "rollback")

DeniedLock(p, a) ==
    /\ redis[a] # Free
    /\ GiveUp(p)
    /\ UNCHANGED << redis, acquired >>

(* A Redis error reads as a denial, whether or not the SET was executed.   *)
FailedSet(p, a) ==
    /\ Faults
    /\ \/ UNCHANGED redis
       \/ redis[a] = Free /\ redis' = [redis EXCEPT ![a] = p]
    /\ GiveUp(p)
    /\ UNCHANGED acquired

Acquire(p) ==
    /\ pc[p] = "acquiring"
    /\ \E a \in Accounts :
          /\ IsFirst(a, Remaining(p))
          /\ TakeLock(p, a) \/ DeniedLock(p, a) \/ FailedSet(p, a)

(* The guarded work returns or throws; finally releases. *)
Finish(p) ==
    /\ pc[p] = "critical"
    /\ Goto(p, "releasing")
    /\ UNCHANGED << redis, acquired >>

(* Mutant: a plain DEL. *)
DeleteAny(p, a) == redis' = [redis EXCEPT ![a] = Free]

(* The release script deletes the key only if it still holds this id. *)
CompareAndDelete(p, a) ==
    redis' = IF redis[a] = p THEN [redis EXCEPT ![a] = Free] ELSE redis

Release(p) ==
    /\ pc[p] \in {"rollback", "releasing"}
    /\ \E a \in Accounts :
          /\ IsFirst(a, acquired[p])
          /\ \/ CompareAndDelete(p, a)
             \/ Faults /\ UNCHANGED redis
          /\ acquired' = [acquired EXCEPT ![p] = @ \ {a}]
          /\ IF acquired[p] # {a} THEN UNCHANGED pc
             ELSE Goto(p, IF pc[p] = "rollback" THEN "conflict" ELSE "done")

(* The process dies: what it remembered is gone, its keys are not. *)
Crash(p) ==
    /\ Faults
    /\ pc[p] \notin Ended
    /\ Goto(p, "crashed")
    /\ acquired' = [acquired EXCEPT ![p] = {}]
    /\ UNCHANGED redis

(* What an acquiring or working operation remembers to hold. *)
Relied(a) ==
    /\ redis[a] # Free
    /\ pc[redis[a]] \in {"acquiring", "critical"}
    /\ a \in acquired[redis[a]]

(* Mutant: SET without PX, a key for ever. *)
WithoutPX(a) == FALSE

(* PX: Redis keeps a key for its time to live.  An operation that is not   *)
(* slow has done with it before; one that failed or died has not.          *)
TtlOver(a) == Relied(a) => redis[a] \in Slow

Expire(a) ==
    /\ redis[a] # Free
    /\ TtlOver(a)
    /\ redis' = [redis EXCEPT ![a] = Free]
    /\ UNCHANGED << pc, acquired >>

Step(p) == Acquire(p) \/ Finish(p) \/ Release(p)

Next ==
    \/ \E p \in Operations : Step(p) \/ Crash(p)
    \/ \E a \in Accounts : Expire(a)

Spec == Init /\ [][Next]_vars

(* A running operation goes on, and Redis expires every key in the end. *)
FairSpec ==
    /\ Spec
    /\ \A p \in Operations : WF_vars(Step(p))
    /\ \A a \in Accounts : WF_vars(Expire(a))

-----------------------------------------------------------------------------
(* Two operations that work at the same time share no account, unless one  *)
(* of them outlasted its TTL.                                              *)
MutualExclusion ==
    \A p, q \in Operations \ Slow :
        p # q /\ pc[p] = "critical" /\ pc[q] = "critical" => Want[p] \cap Want[q] = {}

(* The sorted order: acquiring operations are never in each other's way in *)
(* a ring, in which all of them would be refused and none would run.       *)
Blocks(q, p) ==
    /\ pc[p] = "acquiring" /\ pc[q] = "acquiring"
    /\ \E a \in Accounts : IsFirst(a, Remaining(p)) /\ redis[a] = q

NoRingOfRefusals ==
    \A ring \in (SUBSET Operations) \ {{}} :
        \E p \in ring : \A q \in ring : ~Blocks(q, p)

(* A lock that an operation still relies on is taken from it by nobody but *)
(* the TTL, even after another operation's lock on the account expired and *)
(* that operation, late, releases it.                                      *)
OnlyTtlTakesLocks ==
    [][\A a \in Accounts :
          Relied(a) /\ redis'[a] # redis[a] /\ pc'[redis[a]] # "crashed"
              => UNCHANGED << pc, acquired >>]_vars

(* Nobody waits: every operation ends, granted or refused.                 *)
EveryOperationEnds == \A p \in Operations : <>(pc[p] \in Ended)

(* No account stays locked, whoever died holding it.                       *)
EveryAccountFreed == \A a \in Accounts : redis[a] # Free ~> redis[a] = Free

(* Both.                                                                   *)
NothingHangs == EveryOperationEnds /\ EveryAccountFreed

(* Seen through the operations that were granted their accounts, the       *)
(* protocol implements all-or-nothing locking.                             *)
Granted(p) ==
    IF pc[p] \in {"critical", "releasing"}
    THEN {a \in acquired[p] : redis[a] = p}
    ELSE {}

Atomic == INSTANCE AtomicLocks WITH granted <- [p \in Operations |-> Granted(p)]

ImplementsAtomicLocks == Atomic!LocksSpec
=============================================================================
