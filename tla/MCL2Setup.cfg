SPECIFICATION Spec
CONSTANTS
    Nodes = {n1, n2}
    Manual = {remote}
    MaxIds = 2
    MaxRuns = 3
    MaxEvents = 4
CHECK_DEADLOCK FALSE
SYMMETRY NodeSymmetry
INVARIANT RewiredIsAllowed
PROPERTY NeverLocksOut
PROPERTY SuccessIsComplete
PROPERTY UnchangedIsNotRestarted
