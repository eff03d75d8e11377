SPECIFICATION MCSpec
CONSTANTS
    a1 = a1  a2 = a2  c1 = c1  c2 = c2  back = back  cash = cash  draw = draw
    Accounts = {a1, a2}
    ActiveAccounts = {a1, a2}
    NoAccount = NoAccount
    Keys = {back, draw, cash}
    Request <- MCRequest
    InitialBalance <- MCInitialBalance
    Calls = {c1, c2}
    MaxAttempts = 3
    Scenarios <- MCScenarios
    Free = Free
INVARIANTS NothingClaimedFalsely PostingsBounded LocksSerialise RecordsMatchMoney
PROPERTIES KeepsLedgerPromise EverythingEnds
CHECK_DEADLOCK FALSE
