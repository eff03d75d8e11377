SPECIFICATION FairSpec
CONSTANTS
    a1 = a1  a2 = a2  frozen = frozen
    give = give  back = back  cash = cash  draw = draw  into = into  outof = outof
    Accounts = {a1, a2, frozen}
    ActiveAccounts = {a1, a2}
    NoAccount = NoAccount
    Keys = {give, back, into, outof, draw, cash}
    Request <- MCRequest
    InitialBalance <- MCInitialBalance
    Attempts = {t1, t2}
    NoAttempt = NoAttempt
INVARIANTS NoOverdraft SoundStatements PostedMeansRecorded CashPostedOnce
PROPERTIES ImplementsAtomicLedger EveryAttemptEnds
CHECK_DEADLOCK FALSE
