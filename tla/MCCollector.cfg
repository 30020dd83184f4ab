SPECIFICATION FairSpec
CONSTANTS
    Services = {s1}
    Peers = {}
    Handlers = {h1, h2}
    NoKey = NoKey
    MaxContainers = 2
    ManagerIds = {2}
    MaxRequests = 2
    MaxFaults = 1
INVARIANT TypeOK
INVARIANT WaiterHasOneTicket
INVARIANT PendingMeansWork
INVARIANT ManagersNeverSampled
PROPERTY AnsweredIsFresh
PROPERTY WaitersReturn
PROPERTY KeepsContract
