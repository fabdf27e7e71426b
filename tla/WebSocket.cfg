SPECIFICATION FairSpec
CONSTANTS
    Scripts <- MCScripts
    ShortSize = 1
    MaxSize = 2
    BufferSize = 1
    Habits = {}
INVARIANTS
    MessagesAsSent
    EndToldOnce
PROPERTIES
    EventuallyDelivered
    ClosedIsReleased
CHECK_DEADLOCK FALSE
