SPECIFICATION FairSpec
CONSTANTS
    Shape <- MCShape
    MaxUnits = 3
    BlockUnits = 2
    MaxFaults = 1
    MaxBacklog = 2
INVARIANTS
    TypeOK
    IpSyncKept
    Released
    
PROPERTIES
    IpConnectSyncs
    CallsReturn
