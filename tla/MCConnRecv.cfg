SPECIFICATION FairSpec
CONSTANTS
    RECV_BUFFER_SIZE = 5
    LIMIT = 3
    Sizes = {0, 1, 3}
    Ids = {0}
    Values = {3}
    MaxMsgs = 3
INVARIANT StreamSound
PROPERTY SmallIsDealt
CHECK_DEADLOCK FALSE
