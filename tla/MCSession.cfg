SPECIFICATION LiveSpec
CONSTANTS
    Users = {ann, bob}
    NoUser = nobody
    Returning = ann
    Data = {"r1", "r2"}
    Gets = {"r1"}
    MaxGen = 2
    MaxLogins = 1
    MaxFaults = 1
CHECK_DEADLOCK FALSE
INVARIANTS RefreshQueueSound TokenIsTheUsers
PROPERTIES LogoutEndsSession EveryRequestSettles
