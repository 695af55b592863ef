SPECIFICATION HistorySpec
CONSTANTS
    c1 = c1
    c2 = c2
    Clients <- MCClients
    MaxEdits = 2
    MaxNative = 2
    CopyClears = TRUE
    None = None
    Direct = Direct
SYMMETRY Symmetry
CHECK_DEADLOCK FALSE
INVARIANTS
    ListsAreDocument
    NoWorkLost
    BaselineIsDocument
