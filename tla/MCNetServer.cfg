SPECIFICATION FairSpec
CONSTANTS
    MaxFd    = 1
    MaxPid   = 3
    MaxQueue = 2
    MaxInq   = 2
INVARIANTS
    NoLostWakeup
    OpenIsOwned
    GateToldOnce
PROPERTIES
    ClosesItsOwn
    DataIsRead
