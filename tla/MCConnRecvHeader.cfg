SPECIFICATION Spec
CONSTANTS
    RECV_BUFFER_SIZE = 4
    LIMIT = 3
    Sizes = {0, 1, 2}
    Ids = {0, 1}
    Values = {0, 3}
    MaxMsgs = 2
INVARIANT MsgidIsValid
CHECK_DEADLOCK FALSE
