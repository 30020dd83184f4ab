SPECIFICATION FairSpec
CONSTANTS
    Attempts = 1
    MaxRuns = 1
    MaxChecks = 0
CHECK_DEADLOCK FALSE
PROPERTY FailureEndsTheRun
