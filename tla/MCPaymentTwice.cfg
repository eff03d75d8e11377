SPECIFICATION Spec
CONSTANTS
    a1 = a1  a2 = a2  c1 = c1  c2 = c2  back = back  cash = cash  draw = draw
    Accounts = {a1, a2}
    ActiveAccounts = {a1, a2}
    NoAccount = NoAccount
    Keys = {back}
    Request <- MCRequest
    InitialBalance <- MCInitialBalance
    Calls = {c1}
    MaxAttempts = 3
    Scenarios = {{"timeout"}}
    Free = Free
INVARIANTS AtMostOnePosting
CHECK_DEADLOCK FALSE
