SPECIFICATION Spec
CONSTANTS
    MaxFd    = 2
    MaxPid   = 3
    MaxQueue = 2
    MaxInq   = 1
PROPERTIES
    ForceClosesPid
