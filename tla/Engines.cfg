SPECIFICATION FairSpec
CONSTANTS
    EngineSet = {main, other}
    Main = main
    Listeners = {tcp, local}
    Ssl = {}
    MaxSockets = 2
    Modes <- MCModes
    Fails = {main, other}
INVARIANTS
    WaitsForSockets
    TimeoutRuns
    ReadyWhenStarted
PROPERTIES
    ShutdownExits
CHECK_DEADLOCK FALSE
