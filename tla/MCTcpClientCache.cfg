SPECIFICATION Spec
CONSTANTS
    CacheSize  = 8
    PrefixSize = 2
    CallSizes  = {1, 2}
    RecvSize   = 3
    MaxOut     = 2
    MaxIn      = 1
    MaxConn    = 2
INVARIANT CachesFit
CHECK_DEADLOCK FALSE
