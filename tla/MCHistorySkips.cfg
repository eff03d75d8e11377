SPECIFICATION HistorySpec
CONSTANTS
    Screens = {"ledger"}
    Views <- MCViews
    Base <- MCBase
    Home = "a"
    Shapes <- MCShapes
    Kinds = {"TRANSFER", "FEE"}
    Limit = 1
    FirstRows = 2
    MaxRows = 3
    MaxMoves = 3
INVARIANT NoRowSkipped
CHECK_DEADLOCK FALSE
