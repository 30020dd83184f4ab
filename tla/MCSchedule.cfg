SPECIFICATION Spec
CONSTANTS
    N = 2
    Interval = 6
    Cooldown = 2
    Listing = 2
    MaxSample = 1
    Stall = 7
    MaxTime = 15
    MaxChanges = 1
    MaxRequests = 1
    MaxStalls = 1
    MaxFails = 1
CHECK_DEADLOCK FALSE
INVARIANT TypeOK
INVARIANT SlotKept
INVARIANT NoCatchUp
INVARIANT NeverStaleWhileQuiet
