SPECIFICATION Spec
CONSTANTS
    Jobs <- MCJobs
    MaxAttempts = 2
    Primitives = 2
    MaxSilent = 1
    None = None
INVARIANTS
    FilesAreWhole
    ReadBackIsDelivered
    DeliveredTogether
    ProvedIsDelivered
