SPECIFICATION Spec
CONSTANTS
    Threads = {t1, t2}
    Sessions = {s1, s2}
    None = None
    MaxOps = 5
    MaxFaults = 2
    MaxCrashes = 1
CHECK_DEADLOCK FALSE
SYMMETRY Symmetry
INVARIANTS
    ProjectionsAgree
    ClosedStaysClosed
PROPERTIES
    CommitsAdvance
    LateResultsSurvive
