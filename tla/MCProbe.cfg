SPECIFICATION Spec
CONSTANTS
    MaxContainers = 2
    LogFresh = 2
    Memory = 3
PROPERTY SyncIsRecent
PROPERTY BusyIsNotBroken
PROPERTY AttentionKept
