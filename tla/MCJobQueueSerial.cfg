SPECIFICATION FairSpec
CONSTANTS
    Jobs = {j1, j2}
    Runs = {r1, r2}
    MaxAttempts = 2
    Overlap = FALSE
    Punctual = TRUE
    None = None
CHECK_DEADLOCK FALSE
PROPERTIES
    SucceededIsFinal
    JobsSettle
    LostIsRecovered
