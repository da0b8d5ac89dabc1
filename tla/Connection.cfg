SPECIFICATION Spec
CONSTANTS
    Cameras = {c1, c2}
    NoCam = NoCam
    MaxPlugs = 3
    MaxScripts = 2
    MaxFaults = 2
INVARIANTS
    TypeOK
    InUseSound
    ReconnectKeeps
    ExitClosesAll
\* The program ends.
CHECK_DEADLOCK FALSE
