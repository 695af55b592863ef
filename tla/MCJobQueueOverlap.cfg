SPECIFICATION Spec
CONSTANTS
    Jobs = {j1, j2}
    Runs = {r1, r2}
    MaxAttempts = 2
    Overlap = TRUE
    Punctual = FALSE
    None = None
CHECK_DEADLOCK FALSE
SYMMETRY Symmetry
INVARIANTS
    NoForgottenClaim
    AttemptBudget
PROPERTIES
    SuccessIsCurrent
