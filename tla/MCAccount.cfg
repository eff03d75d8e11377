SPECIFICATION MCSpec
CONSTANTS
    Readers = {r1, r2}
    Deposits = {2}
    Amounts = {1}
    MaxAttempts = 5
    MaxVersions = 2
    MaxErrors = 1
    Funds = {1}
    Kinds = {"transfer", "deposit", "withdraw"}
    Typed = {1}
    MaxSubmits = 2
INVARIANTS OwnersOnly ReceiptTells
PROPERTIES StaleEntriesDie
