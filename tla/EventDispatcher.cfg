SPECIFICATION Spec
CONSTANTS
    Timers = {t1}
    Zeros = {z1}
    Sockets = {s1}
    t1 = t1
    z1 = z1
    s1 = s1
    Initial <- MCInitial
    Calls <- MCCalls
    MaxDepth = 2
    MaxPosts = 2
INVARIANTS
    NoLostWakeUp
    NothingForgotten
PROPERTIES
    HandlersAlive
CHECK_DEADLOCK FALSE
