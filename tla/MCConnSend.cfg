SPECIFICATION PushSpec
CONSTANTS
    BUFFER_SIZE = 3
    SEND_SIZE = 2
    SockRoom = 3
    Sizes = {1, 2, 4}
    MaxOwed = 6
INVARIANT RestSound
PROPERTY RestMoves
CHECK_DEADLOCK FALSE
