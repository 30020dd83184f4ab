SPECIFICATION Spec
CONSTANTS
    K = 3
    MaxFaults = 2
    MaxEdits = 1
CHECK_DEADLOCK FALSE
INVARIANT TypeOK
INVARIANT RollbackRestores
INVARIANT UpdateIsComplete
INVARIANT NoGap
PROPERTY OthersKept
