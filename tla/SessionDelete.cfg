SPECIFICATION ClientsSpec
CONSTANTS
    MaxRequests = 4
    MaxSessions = 1
    Values <- MCValues
    Users = {"u", "v"}
    Realms = {"a", "b"}
    DefaultRealm = ""
    Peers = {"p", "q"}
    Threads = {"t", "u"}
    Lifetime = 1
    MaxTime = 3
    Scenarios <- MCDelete
    NoSid = NoSid
    NoPeer = NoPeer
    NoValue = NoValue
    None = None
INVARIANT
    DeletedIsGone
