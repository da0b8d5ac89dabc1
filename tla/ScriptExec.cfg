SPECIFICATION Spec
CONSTANTS
    Gui = FALSE
    UserScripts = TRUE
    MaxScripts = 3
    MaxMsgs = 1
    QueueMax = 2
    MaxFaults = 1
INVARIANTS
    TypeOK
    CompleteOnReturn
    MessagesOwn
PROPERTY
    NoClobber
