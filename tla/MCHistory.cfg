SPECIFICATION HistorySpec
CONSTANTS
    Screens = {"ledger", "transactions", "notifications"}
    Views <- MCViews
    Base <- MCBase
    Home = "a"
    Shapes <- MCShapes
    Kinds = {"TRANSFER", "FEE"}
    Limit = 1
    FirstRows = 2
    MaxRows = 3
    MaxMoves = 3
INVARIANTS PagesDescend CursorsAreOfThisView ReadStaysRead
CHECK_DEADLOCK FALSE
