SPECIFICATION FairSpec
CONSTANTS
    Threads = {t1, t2}
    Sessions = {s1, s2}
    MaxCommands = 4
    None = None
    MaxSettled = 0
    MaxHistory = 2
    MaxEntries = 1
    MaxCrashes = 1
CHECK_DEADLOCK FALSE
INVARIANTS
    PointerNamesOpen
    
PROPERTIES
    RecordsStay
    RequestsEnd
