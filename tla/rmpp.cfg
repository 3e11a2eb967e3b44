SPECIFICATION FairSpec
CONSTANTS
    N = 4
    Window = 2
    MaxRetries = 1
    TimeoutMs = {"none", "long"}
    MaxRecv = 2
    Faults = {"post", "send", "cancel"}
    Unregister = TRUE
INVARIANTS
    SendOwned
    NoUseAfterFree
    OwnedByClient
PROPERTIES
    Implements
    SendEnds
    RecvFreed
CHECK_DEADLOCK FALSE
