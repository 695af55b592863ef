SPECIFICATION Spec
CONSTANTS
    Cmds = {c1, c2}
    Closes = {k1, k2}
    Ackers = {a1, a2}
    Kinds = {"edit", "other", "export", "save"}
    PriorDirty = {FALSE}
    MaxFaults = 1
    Start = Start
    Recover = Recover
    None = None
CHECK_DEADLOCK FALSE
SYMMETRY Symmetry
INVARIANTS
    NeverDiscards
    CancelledNeverRan
    OneTimedOut
    ReleaseNeedsRecovery
PROPERTIES
    KeepsCustody
