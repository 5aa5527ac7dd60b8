SPECIFICATION MCSpec
CONSTANTS
    Mss = 2
    MaxFrg = 2
    InitWnd = 1
    SndWnd = 2
    RcvWnd = 2
    Stream = {"server"}
    CacheSize = 3
    Sizes <- MCSizes
    MaxWrites <- MCWrites
    MaxNet <- MCNet
INVARIANTS
    NeverStuck
    AckedIsHeld
    WholeMessages
PROPERTIES
    PipeToServer
    PipeToClient
    Delivered
CHECK_DEADLOCK FALSE
