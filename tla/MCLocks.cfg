SPECIFICATION FairSpec
CONSTANTS
    p1 = p1  p2 = p2  p3 = p3  p4 = p4
    Accounts = {1, 2, 3}
    Operations = {p1, p2, p3, p4}
    Want <- MCWant
    Slow = {p4}
    Faults = TRUE
    Free = Free
INVARIANTS MutualExclusion NoRingOfRefusals
PROPERTIES OnlyTtlTakesLocks ImplementsAtomicLocks NothingHangs
CHECK_DEADLOCK FALSE
