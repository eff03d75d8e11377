SPECIFICATION FairSpec
CONSTANTS
    First = w1
    Second = w2
    Workers <- MCWorkers
    LastEvent = 2
    BatchSize = 2
    MaxRetries = 3
    Scenarios <- MCScenarios
INVARIANT RowsTellTruth
PROPERTY EveryEventSettled
CHECK_DEADLOCK FALSE
