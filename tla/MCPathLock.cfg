SPECIFICATION FairSpec
CONSTANTS
    t1 = t1
    t2 = t2
    t3 = t3
    api = api
    worker = worker
    Threads = {t1, t2, t3}
    Procs = {api, worker}
    ProcOf <- Home
    Locks = {l1, l2}
    None = None
    MaxOps = 3
    MaxCrashes = 1
CHECK_DEADLOCK FALSE
INVARIANTS
    Exclusive
    NoLostUpdate
    NeverTorn
PROPERTIES
    CallsReturn
