SPECIFICATION Spec
CONSTANTS
    MaxFaults = 2
    MaxEdits = 2
    MaxInterrupts = 1
CHECK_DEADLOCK FALSE
INVARIANT TypeOK
INVARIANT FailureChangesNothing
INVARIANT SavedIsComplete
PROPERTY KeysNeverReplaced
PROPERTY NothingLost
