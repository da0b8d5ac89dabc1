SPECIFICATION FairSpec
CONSTANTS
    Gui = TRUE
    UserScripts = TRUE
    MaxScripts = 2
    MaxMsgs = 1
    QueueMax = 1
    MaxFaults = 1
INVARIANT
    SeenMsgIsThere
PROPERTY
    CallsReturn
