SPECIFICATION FairSpec
CONSTANTS
    Processes = 2
    KillAfter = 1
    MaxSignals = 1
    MaxTouches = 1
    MaxDeaths = 2
INVARIANTS
    WorkersAccounted
    NoOrphan
PROPERTIES
    TerminationEnds
    WorkersReturn
CHECK_DEADLOCK FALSE
