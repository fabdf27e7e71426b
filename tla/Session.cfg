\* One value beside the missing key, two addresses, a lifetime of one tick, so
\* that a session expires while it is used within three.
SPECIFICATION ClientsSpec
CONSTANTS
    MaxRequests = 4
    MaxSessions = 1
    Values <- MCValues
    Users = {"u", "v"}
    Realms = {"a", "b"}
    DefaultRealm = ""
    Peers = {"p", "q"}
    Threads = {"t", "u"}
    Lifetime = 1
    MaxTime = 3
    Scenarios <- MCWellBehaved
    NoSid = NoSid
    NoPeer = NoPeer
    NoValue = NoValue
    None = None
INVARIANTS
    StoredIsKept
    DeletedIsGone
    StoredUnderOwnId
    UserAsAuthenticated
    MessageOnce
    FormAccepted
