------------------------ MODULE LockService_proofs --------------------------
(***************************************************************************)
(* Theorems about LockService, for every set of accounts and operations.   *)
(***************************************************************************)
EXTENDS LockService, FiniteSetTheorems, WellFoundedInduction, TLAPS

(***************************************************************************)
(* The strengthening: what an operation remembers is part of what it       *)
(* wants, and comes first in it; a working operation has all of it; a key  *)
(* that carries an acquiring operation's id is remembered; and, unless the *)
(* operation is slow, the keys it relies on still carry its lock ids.      *)
(***************************************************************************)
AcquiredWanted == \A p \in Operations : acquired[p] \subseteq Want[p]

CriticalComplete == \A p \in Operations : pc[p] = "critical" => acquired[p] = Want[p]

KeysKept ==
    \A p \in Operations \ Slow :
        pc[p] \in {"acquiring", "critical"} => \A a \in acquired[p] : redis[a] = p

InOrder ==
    \A p \in Operations :
        pc[p] = "acquiring" => \A a \in acquired[p], b \in Remaining(p) : a < b

Remembered ==
    \A a \in Accounts : \A p \in Operations :
        redis[a] = p /\ pc[p] = "acquiring" => a \in acquired[p]

OrderInv == InOrder /\ Remembered

IInv == TypeOK /\ AcquiredWanted /\ CriticalComplete /\ KeysKept

LEMMA InitInv == Init => IInv
  BY LockAssumption DEF Init, IInv, TypeOK, AcquiredWanted, CriticalComplete, KeysKept

(* Acquiring the next account. *)
LEMMA AcquireInv ==
    ASSUME IInv, NEW p \in Operations, Acquire(p)
    PROVE  IInv'
  <1>1. pc[p] = "acquiring"
    BY DEF Acquire
  <1>2. PICK a \in Accounts :
           /\ IsFirst(a, Remaining(p))
           /\ TakeLock(p, a) \/ DeniedLock(p, a) \/ FailedSet(p, a)
    BY DEF Acquire
  <1>3. a \in Want[p] /\ a \notin acquired[p]
    BY <1>2 DEF IsFirst, Remaining
  <1>4. CASE TakeLock(p, a)
    <2>1. /\ redis[a] = Free
          /\ redis' = [redis EXCEPT ![a] = p]
          /\ acquired' = [acquired EXCEPT ![p] = @ \cup {a}]
          /\ \/ Remaining(p) = {a} /\ pc' = [pc EXCEPT ![p] = "critical"]
             \/ Remaining(p) # {a} /\ pc' = [pc EXCEPT ![p] = "acquiring"]
      BY <1>4 DEF TakeLock, Goto
    <2>2. TypeOK'
      BY <2>1 DEF IInv, TypeOK
    <2>3. AcquiredWanted'
      BY <1>3, <2>1 DEF IInv, TypeOK, AcquiredWanted
    <2>4. CriticalComplete'
      BY <1>1, <1>3, <2>1 DEF IInv, TypeOK, AcquiredWanted, CriticalComplete, Remaining
    <2>5. KeysKept'
      BY <1>1, <2>1, LockAssumption DEF IInv, TypeOK, KeysKept
    <2> QED
      BY <2>2, <2>3, <2>4, <2>5 DEF IInv
  <1>5. CASE DeniedLock(p, a) \/ FailedSet(p, a)
    <2>1. /\ redis' = redis \/ (redis[a] = Free /\ redis' = [redis EXCEPT ![a] = p])
          /\ acquired' = acquired
          /\ pc' = [pc EXCEPT ![p] = "conflict"] \/ pc' = [pc EXCEPT ![p] = "rollback"]
      BY <1>5 DEF DeniedLock, FailedSet, GiveUp, Goto
    <2>2. TypeOK'
      BY <2>1 DEF IInv, TypeOK, Ended
    <2>3. AcquiredWanted' /\ CriticalComplete'
      BY <2>1 DEF IInv, TypeOK, AcquiredWanted, CriticalComplete
    <2>4. KeysKept'
      BY <2>1, LockAssumption DEF IInv, TypeOK, KeysKept
    <2> QED
      BY <2>2, <2>3, <2>4 DEF IInv
  <1> QED
    BY <1>2, <1>4, <1>5

(* Giving accounts back. *)
LEMMA ReleaseInv ==
    ASSUME IInv, NEW p \in Operations, Release(p)
    PROVE  IInv'
  <1>1. PICK a \in Accounts :
           /\ redis' = redis \/ (redis[a] = p /\ redis' = [redis EXCEPT ![a] = Free])
           /\ acquired' = [acquired EXCEPT ![p] = @ \ {a}]
           /\ \/ pc' = pc
              \/ pc' = [pc EXCEPT ![p] = "conflict"]
              \/ pc' = [pc EXCEPT ![p] = "done"]
    BY DEF Release, CompareAndDelete, Goto
  <1>2. pc[p] \in {"rollback", "releasing"}
    BY DEF Release
  <1>3. TypeOK'
    BY <1>1 DEF IInv, TypeOK, Ended
  <1>4. AcquiredWanted' /\ CriticalComplete'
    BY <1>1, <1>2 DEF IInv, TypeOK, AcquiredWanted, CriticalComplete
  <1>5. KeysKept'
    BY <1>1, <1>2, LockAssumption DEF IInv, TypeOK, KeysKept
  <1> QED
    BY <1>3, <1>4, <1>5 DEF IInv

LEMMA StepInv == IInv /\ [Next]_vars => IInv'
  <1> SUFFICES ASSUME IInv, [Next]_vars PROVE IInv'
    OBVIOUS
  <1> USE DEF IInv, TypeOK, AcquiredWanted, CriticalComplete, KeysKept
  <1>1. ASSUME NEW p \in Operations, Acquire(p) PROVE IInv'
    BY <1>1, AcquireInv
  <1>2. ASSUME NEW p \in Operations, Finish(p) PROVE IInv'
    BY <1>2 DEF Finish, Goto
  <1>3. ASSUME NEW p \in Operations, Release(p) PROVE IInv'
    BY <1>3, ReleaseInv
  <1>4. ASSUME NEW p \in Operations, Crash(p) PROVE IInv'
    BY <1>4 DEF Crash, Goto, Ended
  <1>5. ASSUME NEW a \in Accounts, Expire(a) PROVE IInv'
    <2>1. redis' = [redis EXCEPT ![a] = Free] /\ UNCHANGED << pc, acquired >>
      BY <1>5 DEF Expire, TtlOver
    <2>2. Relied(a) => redis[a] \in Slow
      BY <1>5 DEF Expire, TtlOver
    <2>3. KeysKept'
      BY <1>5, <2>1, <2>2, LockAssumption DEF Relied, Expire, TtlOver
    <2> QED
      BY <2>1, <2>3
  <1>6. CASE UNCHANGED vars
    BY <1>6 DEF vars
  <1> QED
    BY <1>1, <1>2, <1>3, <1>4, <1>5, <1>6 DEF Next, Step

(* The variables of the lock service keep their types. *)
THEOREM TypeCorrect == Spec => []TypeOK
  <1>1. IInv => TypeOK
    BY DEF IInv
  <1> QED
    BY <1>1, InitInv, StepInv, PTL DEF Spec

LEMMA Exclusion == IInv => MutualExclusion
  BY LockAssumption DEF IInv, CriticalComplete, KeysKept, MutualExclusion

(* No two operations that end within the TTL of their locks ever work on   *)
(* the same account.                                                       *)
THEOREM LocksExclude == Spec => []MutualExclusion
  <1>1. IInv => MutualExclusion
    BY Exclusion
  <1> QED
    BY <1>1, InitInv, StepInv, PTL DEF Spec

-----------------------------------------------------------------------------
LEMMA OrderInit == Init => OrderInv
  BY LockAssumption DEF Init, OrderInv, InOrder, Remembered

LEMMA OrderStep == IInv /\ OrderInv /\ [Next]_vars => OrderInv'
  <1> SUFFICES ASSUME IInv, OrderInv, [Next]_vars PROVE OrderInv'
    OBVIOUS
  <1> USE DEF IInv, TypeOK, AcquiredWanted, OrderInv, InOrder, Remembered
  <1>1. ASSUME NEW p \in Operations, Acquire(p) PROVE OrderInv'
    <2>1. pc[p] = "acquiring"
      BY <1>1 DEF Acquire
    <2>2. PICK a \in Accounts :
             /\ IsFirst(a, Remaining(p))
             /\ TakeLock(p, a) \/ DeniedLock(p, a) \/ FailedSet(p, a)
      BY <1>1 DEF Acquire
    <2>3. CASE TakeLock(p, a)
      <3>1. /\ redis' = [redis EXCEPT ![a] = p]
            /\ acquired' = [acquired EXCEPT ![p] = @ \cup {a}]
            /\ \A q \in Operations \ {p} : pc'[q] = pc[q]
        BY <2>3 DEF TakeLock, Goto
      <3>2. ASSUME NEW q \in Operations, pc'[q] = "acquiring",
                   NEW b \in acquired'[q], NEW c \in Remaining(q)'
            PROVE  b < c
        <4>1. CASE q # p
          BY <3>1, <3>2, <4>1 DEF Remaining
        <4>2. CASE q = p
          <5>1. c \in Remaining(p) /\ c # a /\ a \in Int /\ c \in Int
            BY <2>2, <3>1, <3>2, <4>2, LockAssumption DEF Remaining
          <5>2. a < c
            BY <2>2, <5>1 DEF IsFirst
          <5> QED
            BY <2>1, <3>1, <3>2, <4>2, <5>1, <5>2
        <4> QED
          BY <4>1, <4>2
      <3>3. InOrder'
        BY <3>2
      <3>4. ASSUME NEW b \in Accounts, NEW q \in Operations,
                   redis'[b] = q, pc'[q] = "acquiring"
            PROVE  b \in acquired'[q]
        <4>1. CASE q = p
          BY <2>1, <3>1, <3>4, <4>1
        <4>2. CASE q # p
          BY <3>1, <3>4, <4>2
        <4> QED
          BY <4>1, <4>2
      <3> QED
        BY <3>3, <3>4
    <2>4. CASE DeniedLock(p, a) \/ FailedSet(p, a)
      <3>1. /\ redis' = redis \/ redis' = [redis EXCEPT ![a] = p]
            /\ acquired' = acquired
            /\ pc' = [pc EXCEPT ![p] = "conflict"] \/ pc' = [pc EXCEPT ![p] = "rollback"]
        BY <2>4 DEF DeniedLock, FailedSet, GiveUp, Goto
      <3> QED
        BY <3>1 DEF Remaining
    <2> QED
      BY <2>2, <2>3, <2>4
  <1>2. ASSUME NEW p \in Operations, Finish(p) PROVE OrderInv'
    BY <1>2 DEF Finish, Goto, Remaining
  <1>3. ASSUME NEW p \in Operations, Release(p) PROVE OrderInv'
    <2>1. PICK a \in Accounts :
             /\ redis' = redis \/ (redis[a] = p /\ redis' = [redis EXCEPT ![a] = Free])
             /\ acquired' = [acquired EXCEPT ![p] = @ \ {a}]
             /\ \/ pc' = pc
                \/ pc' = [pc EXCEPT ![p] = "conflict"]
                \/ pc' = [pc EXCEPT ![p] = "done"]
      BY <1>3 DEF Release, CompareAndDelete, Goto
    <2>2. pc[p] \in {"rollback", "releasing"}
      BY <1>3 DEF Release
    <2> QED
      BY <2>1, <2>2, LockAssumption DEF Remaining
  <1>4. ASSUME NEW p \in Operations, Crash(p) PROVE OrderInv'
    BY <1>4 DEF Crash, Goto, Remaining
  <1>5. ASSUME NEW a \in Accounts, Expire(a) PROVE OrderInv'
    BY <1>5, LockAssumption DEF Expire, TtlOver, Remaining
  <1>6. CASE UNCHANGED vars
    BY <1>6 DEF vars, Remaining
  <1> QED
    BY <1>1, <1>2, <1>3, <1>4, <1>5, <1>6 DEF Next, Step

(* A blocker stands further on in the sorted order than whom it blocks.     *)
Ahead ==
    \A p, q \in Operations : \A a, b \in Accounts :
        Blocks(q, p) /\ IsFirst(a, Remaining(p)) /\ IsFirst(b, Remaining(q)) => a < b

LEMMA OrderAhead == OrderInv => Ahead
  <1> SUFFICES ASSUME OrderInv,
                      NEW p \in Operations, NEW q \in Operations,
                      NEW a \in Accounts, NEW b \in Accounts, Blocks(q, p),
                      IsFirst(a, Remaining(p)), IsFirst(b, Remaining(q))
               PROVE  a < b
    BY DEF Ahead
  <1>1. PICK c \in Accounts : IsFirst(c, Remaining(p)) /\ redis[c] = q
    BY DEF Blocks
  <1>2. c = a
    BY <1>1, LockAssumption DEF IsFirst
  <1>3. pc[q] = "acquiring" /\ a \in acquired[q]
    BY <1>1, <1>2 DEF Blocks, OrderInv, Remembered
  <1> QED
    BY <1>3 DEF OrderInv, InOrder, IsFirst

LEMMA OrderInvariant == Spec => [](IInv /\ OrderInv)
  <1>1. Init => IInv /\ OrderInv
    BY InitInv, OrderInit
  <1>2. IInv /\ OrderInv /\ [Next]_vars => (IInv /\ OrderInv)'
    BY StepInv, OrderStep
  <1> QED
    BY <1>1, <1>2, PTL DEF Spec

(* An acquiring operation is only ever in the way of operations that are   *)
(* behind it in the sorted order.                                          *)
THEOREM BlockersAreAhead == Spec => []Ahead
  BY OrderInvariant, OrderAhead, PTL

(* A smallest counterexample, shorn of one element, would be smaller.      *)
LEMMA GreatestExists ==
    ASSUME NEW S \in SUBSET Int, IsFiniteSet(S), S # {}
    PROVE  \E m \in S : \A x \in S : x <= m
  <1> DEFINE HasGreatest(R) == \E m \in R : \A x \in R : x <= m
             Sizes == {n \in Nat : \E R \in SUBSET Int :
                         /\ IsFiniteSet(R) /\ Cardinality(R) = n
                         /\ R # {} /\ ~HasGreatest(R)}
  <1> SUFFICES ASSUME ~HasGreatest(S) PROVE FALSE
    OBVIOUS
  <1>1. Cardinality(S) \in Sizes
    BY FS_CardinalityType
  <1>2. PICK n \in Sizes : \A k \in Sizes : ~(k < n)
    <2> HIDE DEF HasGreatest
    <2> DEFINE T == Sizes
    <2>1. T \subseteq Nat /\ T # {}
      BY <1>1
    <2> HIDE DEF T
    <2>2. PICK n \in T : \A k \in T : ~(<<k, n>> \in OpToRel(<, Nat))
      BY <2>1, WFMin, NatLessThanWellFounded
    <2>3. \A k \in T : ~(k < n)
      BY <2>1, <2>2 DEF OpToRel
    <2> QED
      BY <2>3 DEF T
  <1>3. PICK R \in SUBSET Int : /\ IsFiniteSet(R) /\ Cardinality(R) = n
                                /\ R # {} /\ ~HasGreatest(R)
    BY <1>2
  <1>4. PICK y \in R : TRUE
    BY <1>3
  <1>5. /\ IsFiniteSet(R \ {y}) /\ Cardinality(R \ {y}) = n - 1
        /\ Cardinality(R \ {y}) \in Nat
    BY <1>3, <1>4, FS_RemoveElement, FS_CardinalityType
  <1>6. R \ {y} # {}
    BY <1>3, <1>4
  <1>7. HasGreatest(R \ {y})
    <2>1. n \in Nat /\ n - 1 < n
      BY <1>2
    <2>2. n - 1 \notin Sizes
      BY <1>2, <1>5, <2>1
    <2> QED
      BY <1>3, <1>5, <1>6, <2>2
  <1>8. PICK m \in R \ {y} : \A x \in R \ {y} : x <= m
    BY <1>7
  <1> QED
    BY <1>3, <1>4, <1>8

(* The blocked operation whose next account is the last of all is blocked  *)
(* by one that is past it, so it would not be the last.                    *)
LEMMA NoRing == Ahead => NoRingOfRefusals
  <1> SUFFICES ASSUME Ahead, NEW ring \in SUBSET Operations, ring # {},
                      \A p \in ring : \E q \in ring : Blocks(q, p)
               PROVE  FALSE
    BY DEF NoRingOfRefusals
  <1> DEFINE Awaited == {a \in Accounts : \E p \in ring : IsFirst(a, Remaining(p))}
  <1>1. \A p \in ring : \E a \in Awaited : IsFirst(a, Remaining(p))
    BY DEF Blocks
  <1>2. Awaited \in SUBSET Int /\ Awaited # {} /\ Awaited \in SUBSET Accounts
    BY <1>1, LockAssumption
  <1>3. IsFiniteSet(Awaited)
    BY <1>2, FS_Subset, LockAssumption
  <1>4. PICK a \in Awaited : \A b \in Awaited : b <= a
    BY <1>2, <1>3, GreatestExists
  <1>5. PICK p \in ring : IsFirst(a, Remaining(p))
    BY <1>4
  <1>6. PICK q \in ring : Blocks(q, p)
    BY <1>5
  <1>7. PICK b \in Awaited : IsFirst(b, Remaining(q))
    BY <1>1, <1>6
  <1>8. a < b
    BY <1>5, <1>6, <1>7 DEF Ahead
  <1> QED
    BY <1>2, <1>4, <1>7, <1>8

(* However many operations contend for however many accounts, they never   *)
(* stand in each other's way in a ring: one of them can go on.             *)
THEOREM RingsNeverForm == Spec => []NoRingOfRefusals
  BY BlockersAreAhead, NoRing, PTL

(* Only a SET with NX, a compare-and-delete and the TTL write keys; the    *)
(* first meets none that is relied on, the second only its own.            *)
LEMMA TakingStep ==
    ASSUME TypeOK, [Next]_vars, NEW a \in Accounts,
           Relied(a), redis'[a] # redis[a], pc'[redis[a]] # "crashed"
    PROVE  UNCHANGED << pc, acquired >>
  <1> USE DEF TypeOK
  <1>1. ASSUME NEW p \in Operations, Acquire(p) PROVE FALSE
    <2>1. PICK b \in Accounts : TakeLock(p, b) \/ DeniedLock(p, b) \/ FailedSet(p, b)
      BY <1>1 DEF Acquire
    <2> QED
      BY <2>1 DEF TakeLock, DeniedLock, FailedSet, Relied
  <1>2. ASSUME NEW p \in Operations, Release(p) PROVE FALSE
    <2>1. PICK b \in Accounts : CompareAndDelete(p, b) \/ UNCHANGED redis
      BY <1>2 DEF Release
    <2>2. pc[p] \notin {"acquiring", "critical"}
      BY <1>2 DEF Release
    <2> QED
      BY <2>1, <2>2 DEF CompareAndDelete, Relied
  <1>3. ASSUME NEW p \in Operations, Finish(p) \/ Crash(p) PROVE FALSE
    BY <1>3 DEF Finish, Crash
  <1>4. ASSUME NEW b \in Accounts, Expire(b) PROVE UNCHANGED << pc, acquired >>
    BY <1>4 DEF Expire, TtlOver
  <1>5. CASE UNCHANGED vars
    BY <1>5 DEF vars
  <1> QED
    BY <1>1, <1>2, <1>3, <1>4, <1>5 DEF Next, Step

(* Whoever expires, fails or releases late, a lock its holder relies on is *)
(* taken away by nothing but the end of its own TTL.                       *)
THEOREM LocksStay == Spec => OnlyTtlTakesLocks
  <1> DEFINE Stays ==
         \A a \in Accounts :
             Relied(a) /\ redis'[a] # redis[a] /\ pc'[redis[a]] # "crashed"
                 => UNCHANGED << pc, acquired >>
  <1>1. TypeOK /\ [Next]_vars => [Stays]_vars
    BY TakingStep
  <1>2. TypeOK' /\ TypeOK /\ [Next]_vars => [Stays]_vars
    BY <1>1
  <1> QED
    BY TypeCorrect, <1>2, PTL DEF Spec, OnlyTtlTakesLocks

-----------------------------------------------------------------------------
(***************************************************************************)
(* Refinement.  Only three things change what is granted: the last SET of  *)
(* an acquisition grants, and a release, a crash or an expiry shrinks.     *)
(***************************************************************************)
LEMMA RefineInit == Init => Atomic!LocksInit
  BY DEF Init, Atomic!LocksInit, Granted

(* What an operation is granted depends on its own locks alone.            *)
LEMMA SameGrant ==
    ASSUME NEW q \in Operations,
           pc'[q] \in {"critical", "releasing"} <=> pc[q] \in {"critical", "releasing"},
           acquired'[q] = acquired[q],
           \A b \in acquired[q] : redis'[b] = q <=> redis[b] = q
    PROVE  Granted(q)' = Granted(q)
  BY DEF Granted

(* A step that takes from the grant of one operation is a Shrink.          *)
LEMMA ShrinkStep ==
    ASSUME NEW p \in Operations,
           Granted(p)' \subseteq Granted(p),
           \A q \in Operations \ {p} : Granted(q)' = Granted(q)
    PROVE  Atomic!LocksNext
  <1> DEFINE G == [q \in Operations |-> Granted(q)]
             D == [q \in Operations |-> Granted(q)']
  <1>1. D = [G EXCEPT ![p] = Granted(p)']
    OBVIOUS
  <1>2. Granted(p)' \in SUBSET G[p]
    OBVIOUS
  <1>3. Atomic!Shrink(p)
    BY <1>1, <1>2 DEF Atomic!Shrink
  <1> QED
    BY <1>3 DEF Atomic!LocksNext

(* A step that changes no grant is a stutter.                              *)
LEMMA StutterStep ==
    ASSUME \A q \in Operations : Granted(q)' = Granted(q)
    PROVE  [p \in Operations |-> Granted(p)]' = [p \in Operations |-> Granted(p)]
  OBVIOUS

(* The last account of an acquisition grants them all.                     *)
LEMMA GrantStep ==
    ASSUME IInv, NEW p \in Operations, NEW a \in Accounts,
           pc[p] = "acquiring", TakeLock(p, a), Remaining(p) = {a}
    PROVE  Atomic!LocksNext
  <1> DEFINE G == [q \in Operations |-> Granted(q)]
             D == [q \in Operations |-> Granted(q)']
             S == {b \in Want[p] : redis'[b] = p}
  <1>1. /\ redis[a] = Free
        /\ redis' = [redis EXCEPT ![a] = p]
        /\ acquired' = [acquired EXCEPT ![p] = @ \cup {a}]
        /\ pc' = [pc EXCEPT ![p] = "critical"]
    BY DEF TakeLock, Goto
  <1>2. acquired'[p] = Want[p]
    BY <1>1 DEF IInv, TypeOK, AcquiredWanted, Remaining
  <1>3. Granted(p) = {} /\ Granted(p)' = S
    BY <1>1, <1>2 DEF Granted, IInv, TypeOK
  <1>4. \A q \in Operations \ {p} : Granted(q)' = Granted(q)
    BY <1>1, LockAssumption DEF Granted, IInv, TypeOK
  <1>5. p \notin Slow => S = Want[p]
    BY <1>1, <1>2, LockAssumption DEF IInv, TypeOK, KeysKept
  <1>6. \A q \in Operations \ {p} : S \cap Granted(q) = {}
    BY <1>1, LockAssumption DEF Granted, IInv, TypeOK
  <1>7. D = [G EXCEPT ![p] = S]
    BY <1>3, <1>4
  <1>8. Atomic!Grant(p, S)
    <2> HIDE DEF S
    <2>1. G[p] = {} /\ \A q \in Operations \ {p} : S \cap G[q] = {}
      BY <1>3, <1>6
    <2>2. S \subseteq Want[p]
      BY DEF S
    <2> QED
      BY <1>5, <1>7, <2>1, <2>2 DEF Atomic!Grant
  <1>9. S \in SUBSET Want[p]
    OBVIOUS
  <1> QED
    BY <1>8, <1>9 DEF Atomic!LocksNext

LEMMA RefineStep ==
    IInv /\ [Next]_vars => [Atomic!LocksNext]_[p \in Operations |-> Granted(p)]
  <1> SUFFICES ASSUME IInv, [Next]_vars
               PROVE  \/ Atomic!LocksNext
                      \/ \A q \in Operations : Granted(q)' = Granted(q)
    BY StutterStep
  <1> USE DEF IInv, TypeOK
  <1>1. ASSUME NEW p \in Operations, Acquire(p)
        PROVE  Atomic!LocksNext \/ \A q \in Operations : Granted(q)' = Granted(q)
    <2>1. pc[p] = "acquiring"
      BY <1>1 DEF Acquire
    <2>2. PICK a \in Accounts : TakeLock(p, a) \/ DeniedLock(p, a) \/ FailedSet(p, a)
      BY <1>1 DEF Acquire
    <2>3. CASE TakeLock(p, a) /\ Remaining(p) = {a}
      BY <2>1, <2>3, GrantStep
    <2>4. CASE TakeLock(p, a) /\ Remaining(p) # {a}
      BY <2>1, <2>4, LockAssumption DEF TakeLock, Goto, Granted
    <2>5. CASE DeniedLock(p, a) \/ FailedSet(p, a)
      <3>1. /\ redis' = redis \/ (redis[a] = Free /\ redis' = [redis EXCEPT ![a] = p])
            /\ acquired' = acquired
            /\ pc' = [pc EXCEPT ![p] = "conflict"] \/ pc' = [pc EXCEPT ![p] = "rollback"]
        BY <2>5 DEF DeniedLock, FailedSet, GiveUp, Goto
      <3>2. Granted(p)' = Granted(p)
        BY <2>1, <3>1 DEF Granted
      <3>3. ASSUME NEW q \in Operations \ {p} PROVE Granted(q)' = Granted(q)
        <4>1. \A b \in acquired[q] : redis'[b] = q <=> redis[b] = q
          BY <3>1, LockAssumption
        <4>2. pc'[q] = pc[q] /\ acquired'[q] = acquired[q]
          BY <3>1
        <4> QED
          BY <4>1, <4>2, SameGrant
      <3> QED
        BY <3>2, <3>3
    <2> QED
      BY <2>2, <2>3, <2>4, <2>5
  <1>2. ASSUME NEW p \in Operations, Finish(p)
        PROVE  \A q \in Operations : Granted(q)' = Granted(q)
    BY <1>2 DEF Finish, Goto, Granted
  <1>3. ASSUME NEW p \in Operations, Release(p) PROVE Atomic!LocksNext
    <2>1. PICK a \in Accounts :
             /\ redis' = redis \/ (redis[a] = p /\ redis' = [redis EXCEPT ![a] = Free])
             /\ acquired' = [acquired EXCEPT ![p] = @ \ {a}]
             /\ \/ pc' = pc
                \/ pc' = [pc EXCEPT ![p] = "conflict"]
                \/ pc' = [pc EXCEPT ![p] = "done"]
      BY <1>3 DEF Release, CompareAndDelete, Goto
    <2>2. Granted(p)' \subseteq Granted(p)
      BY <2>1, LockAssumption DEF Granted
    <2>3. ASSUME NEW q \in Operations \ {p} PROVE Granted(q)' = Granted(q)
      <3>1. \A b \in acquired[q] : redis'[b] = q <=> redis[b] = q
        BY <2>1, LockAssumption
      <3>2. pc'[q] = pc[q] /\ acquired'[q] = acquired[q]
        BY <2>1
      <3> QED
        BY <3>1, <3>2, SameGrant
    <2> QED
      BY <2>2, <2>3, ShrinkStep
  <1>4. ASSUME NEW p \in Operations, Crash(p) PROVE Atomic!LocksNext
    <2>1. Granted(p)' = {} /\ \A q \in Operations \ {p} : Granted(q)' = Granted(q)
      BY <1>4 DEF Crash, Goto, Granted
    <2> QED
      BY <2>1, ShrinkStep
  <1>5. ASSUME NEW a \in Accounts, Expire(a) PROVE Atomic!LocksNext
    <2>1. /\ redis[a] \in Operations
          /\ redis' = [redis EXCEPT ![a] = Free]
          /\ UNCHANGED << pc, acquired >>
      BY <1>5 DEF Expire, TtlOver
    <2>2. PICK p \in Operations : p = redis[a]
      BY <2>1
    <2>3. Granted(p)' \subseteq Granted(p)
      BY <2>1, <2>2, LockAssumption DEF Granted
    <2>4. ASSUME NEW q \in Operations \ {p} PROVE Granted(q)' = Granted(q)
      <3>1. \A b \in acquired[q] : redis'[b] = q <=> redis[b] = q
        BY <2>1, <2>2, LockAssumption
      <3> QED
        BY <2>1, <3>1, SameGrant
    <2> QED
      BY <2>3, <2>4, ShrinkStep
  <1>6. CASE UNCHANGED vars
    BY <1>6 DEF vars, Granted
  <1> QED
    BY <1>1, <1>2, <1>3, <1>4, <1>5, <1>6 DEF Next, Step

(* Whatever expires or dies, acquiring accounts one key at a time looks    *)
(* from outside like taking them all at once or not at all.                *)
THEOREM LocksImplementAtomic == Spec => ImplementsAtomicLocks
  <1>1. Init => IInv /\ Atomic!LocksInit
    BY InitInv, RefineInit
  <1>2. IInv /\ [Next]_vars => IInv'
    BY StepInv
  <1>3. IInv /\ [Next]_vars => [Atomic!LocksNext]_[p \in Operations |-> Granted(p)]
    BY RefineStep
  <1> QED
    BY <1>1, <1>2, <1>3, PTL DEF Spec, ImplementsAtomicLocks, Atomic!LocksSpec
=============================================================================
