SPECIFICATION FairSpec
CONSTANTS
    MaxStream = 1
    MaxWire = 2
    Requests <- MCPlain
    Answers <- MCAnswers
    ConnWindow = 3
    DefaultWindow = 2
    Windows = {}
    MaxWindow = 100
    DefaultFrame = 2
    FrameSizes = {3}
    ServerFrame = 4
    Habits = {"segment"}
PROPERTIES
    EventuallyAnswered
CHECK_DEADLOCK FALSE
