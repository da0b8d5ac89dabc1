SPECIFICATION Spec
CONSTANTS
    RawFormats <- MCFormats
    RawHeight = 2
    RawFills <- MCFills
    RawValues <- MCValues
    RawOps = 3
    LiveSeeds = {0}
    LiveOps = 5
    LbufLen = 4
    LbufOps = 3
    PackStrings <- MCStrings
    PackArrays <- MCArrays
    PackDates <- MCDates
    PackSummer <- MCSummer
INVARIANTS
    TypeOK
    Decoded
    LiveSound
    DataSetsSound
PROPERTIES
    PatchSound
    LbufSound
\* A script makes a bounded number of calls.
CHECK_DEADLOCK FALSE
