SPECIFICATION MCSpec
CONSTANTS
    Requests = {r1, r2, r3}
    FailureThreshold = 5
    SuccessThreshold = 3
    MaxSends = 3
    Replicas = {g1, g2}
    Payments = 1
    Generals = 2
    Limit <- MCLimit
    Window = 4
    Skew = 1
    Delay = 1
    Spare = 1
    MaxCalls = 2
    MaxOutages = 1
INVARIANTS QuotaHolds
PROPERTIES Recovers SerialCallersAreSafe EveryVisitEnds
CHECK_DEADLOCK FALSE
