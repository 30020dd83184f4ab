SPECIFICATION FairSpec
CONSTANTS
    Services = {s1}
    Peers = {p1}
    Handlers = {h1}
    NoKey = NoKey
    MaxContainers = 2
    ManagerIds = {}
    MaxRequests = 1
    MaxFaults = 1
INVARIANT QueueConsistent
PROPERTY EveryContainerIsSampled
PROPERTY LandedIsCurrent
