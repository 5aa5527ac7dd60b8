SPECIFICATION GameSpec
CONSTANTS
    c1 = c1
    c2 = c2
    p1 = p1
    p2 = p2
    NULL = NULL
    Conns    <- MCConns
    InitPool <- MCInitPool
    Objs     <- MCObjs
    Rosters  <- MCRosters
    Rids     = {1, 2}
    Pids     = {11, 21}
    RoomIds  = {1, 2}
    MaxFd    = 2
    MaxSess  = 2
INVARIANTS
    RegistrationBinds
CHECK_DEADLOCK FALSE
