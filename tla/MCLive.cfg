SPECIFICATION LiveSpec
CONSTANTS
    Gateways = {g1, g2}
    Deployments = {{g1}, {g1, g2}}
    Events = {paid, refused}
    Completed = {paid}
    MaxRing = 2
    MaxProcessed = 2
    MaxSeen = 2
    MaxAttempts = 1
    MaxDeliveries = 1
    MaxFaults = 1
    MaxClicks = 2
CHECK_DEADLOCK FALSE
INVARIANTS NothingOutOfReach
PROPERTIES HandledOnce CatchesUp
