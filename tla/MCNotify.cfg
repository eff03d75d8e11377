SPECIFICATION FairSpec
CONSTANTS
    Events = {paid}
    Queues = {email, sms}
    Live = live
    MaxRetries = 1
    Copies = 2
    MaxRestarts = 2
    Scenarios = {{"redis", "copies", "history"}, {"copies", "delivery"},
        {"redis", "history", "crash", "retried"}, {"redis", "delivery", "crash"},
        {"redis", "history", "db"},
        {"redis", "copies"}, {"redis", "db", "retried"},
        {"drop", "crash"}, {"drop", "retried"}}
INVARIANTS NothingVanishes RecordsTellTruth RetriesBounded
PROPERTIES EveryEventAudited
CHECK_DEADLOCK FALSE
