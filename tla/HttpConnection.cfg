SPECIFICATION EitherSpec
CONSTANTS
    Scenarios <- MCServed
    BodyLen = 2
    BufferSize = 16
INVARIANTS
    SeenAsSent
    FinishedOnce
PROPERTIES
    EventuallyDispatched
    ShutdownCloses
    ClosedIsReleased
