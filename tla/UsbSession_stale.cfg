SPECIFICATION Spec
CONSTANTS
    MaxBlocks = 1
    PipeMax = 3
    MaxFaults = 1
INVARIANT
    OkMeansOwn
