CONSTANTS
    Commands <- MCCommands
    MaxSteps = 3
    MaxSilent = 1
SPECIFICATION Spec
INVARIANTS
    RefusalIsClean
    EditsAreDebt
    AskedIsDone
    CountIsExact
