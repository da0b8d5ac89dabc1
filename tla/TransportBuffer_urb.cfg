SPECIFICATION Spec
CONSTANTS
    BufSize = 2
    Urb = 4
    MaxControl = 3
    MaxData = 9
    MaxStream = 10
INVARIANT
    ExactData
