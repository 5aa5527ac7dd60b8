SPECIFICATION FairSpec
CONSTANTS
    CacheSize  = 6
    PrefixSize = 2
    CallSizes  = {1, 2}
    RecvSize   = 3
    MaxOut     = 2
    MaxIn      = 2
    MaxConn    = 3
INVARIANTS
    BufferInStep
    SentInOrder
    ReceivedInOrder
    OnlyWriterBlocksItself
PROPERTIES
    Reconnects
    GoesOn
CHECK_DEADLOCK FALSE
