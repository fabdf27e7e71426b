SPECIFICATION FairSpec
CONSTANTS
    MaxStream = 2
    MaxWire = 2
    Requests <- MCRequests
    Answers <- MCAnswers
    ConnWindow = 3
    DefaultWindow = 2
    Windows = {1, 3}
    MaxWindow = 100
    DefaultFrame = 2
    FrameSizes = {3}
    ServerFrame = 4
    Habits = {}
INVARIANTS
    LegalFramesAccepted
    DispatchedAsSent
    StreamWindowRespected
PROPERTIES
    EventuallyAnswered
CHECK_DEADLOCK FALSE
