SPECIFICATION TrafficSpec
CONSTANTS
    c1 = c1
    c2 = c2
    c3 = c3
    NULL = NULL
    Conns <- MCConns
    InitPool <- MCInitPool
    MaxFd = 3
    MaxSess = 3
INVARIANTS
    TypeOK
    TablesAgree
    PoolSound
    BindMatchesPlayers
    IteratorValid
PROPERTIES
    ClosesOnlyItsSession
    ReapsOnlyExpired
    ExpiredIsReaped
CHECK_DEADLOCK FALSE
