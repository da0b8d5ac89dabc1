CONSTANTS
    Modes <- MCModes
    Wants <- MCWants
    MaxChunks <- MCChunks
    N = 2
    MaxCmds = 2
    MaxShots = 3
    MaxFaults = 1
CHECK_DEADLOCK FALSE
SPECIFICATION FairSpec
INVARIANTS TypeOK FilesWhole Cleaned
PROPERTY BothEnd
