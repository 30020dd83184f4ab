SPECIFICATION Spec
CONSTANTS
    Services = {s1}
    Peers = {}
    Handlers = {h1, h2}
    NoKey = NoKey
    MaxContainers = 2
    ManagerIds = {}
    MaxRequests = 2
    MaxFaults = 0
SYMMETRY HandlerSymmetry
INVARIANT ShownIsThisContainer
