SPECIFICATION AskingSpec
CONSTANTS
    Cmds = {c1, c2}
    Closes = {k1}
    Ackers = {a1}
    Kinds = {"edit"}
    PriorDirty = {FALSE}
    MaxFaults = 0
    Start = Start
    Recover = Recover
    None = None
CHECK_DEADLOCK FALSE
PROPERTIES
    TimedOutBecomesReconcilable
