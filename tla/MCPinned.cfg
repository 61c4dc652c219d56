SPECIFICATION PinnedFairSpec
CONSTANTS
    Pcs = {p1}
    MaxCmds = 2
    MaxFaults = 2
    Daemon = p1
    Crowded = FALSE
PROPERTIES ReleaseCompletes KeyReachesBoard
CHECK_DEADLOCK FALSE
