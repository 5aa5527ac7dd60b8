SPECIFICATION FairSpec
CONSTANTS
    Rids        <- MCRids
    Camp        <- MCCamp
    Rosters     <- MCRosters
    StartClocks <- MCStartClocks
    FrameTick = 2
    MsMod     = 8
    MaxGap    = 3
    MaxClock  = 14
    MaxCmds   = 2
INVARIANTS
    OverTellsLastFrame
    FramesAreCuts
    FollowsClock
    
PROPERTIES
    KeepsOneLog
    OverEnds
