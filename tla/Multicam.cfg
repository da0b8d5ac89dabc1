SPECIFICATION FairSpec
CONSTANTS
    c1 = c1
    c2 = c2
    CamList <- MCCamList
    Ids = {1, 2}
    Budget = 2
    QueueMax = 1
    ListLen = 1
    Ticks = 2
INVARIANTS
    TypeOK
    OwnAnswers
    AnswersComplete
    IdsAgree
PROPERTY
    CallsReturn
