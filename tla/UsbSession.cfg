SPECIFICATION FairSpec
CONSTANTS
    MaxBlocks = 2
    PipeMax = 3
    MaxFaults = 3
INVARIANTS
    TypeOK
    PipesInStep
PROPERTIES
    ConnectSyncs
    Reconnects
