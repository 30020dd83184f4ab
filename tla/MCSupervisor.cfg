SPECIFICATION FairSpec
CONSTANTS
    Attempts = 2
    MaxRuns = 2
    MaxChecks = 1
CHECK_DEADLOCK FALSE
INVARIANT TypeOK
INVARIANT TrackedStopGracefully
INVARIANT FailureIsReported
INVARIANT HealthyIsTrue
INVARIANT SyncIsHealthy
PROPERTY SeenFailureEndsTheRun
