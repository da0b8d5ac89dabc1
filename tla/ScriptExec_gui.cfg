SPECIFICATION Spec
CONSTANTS
    Gui = TRUE
    UserScripts = FALSE
    MaxScripts = 2
    MaxMsgs = 1
    QueueMax = 2
    MaxFaults = 0
INVARIANT
    CompleteOnReturn
