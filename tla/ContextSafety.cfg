\* A controller with a Begin and an Auto, a chain of two actions and an End,
\* two ASync objects and two forwards. The limit on the stack is reached by a
\* forward inside a forward inside the chain.
SPECIFICATION FairSpec
CONSTANTS
    A1 = A1
    A2 = A2
    NoASync = NoASync
    ASyncs <- MCASyncs
    Autos = 2
    Chained = 2
    HasEnd = TRUE
    Recursion = 3
    MaxForwards = 2
    BodyOps = {"escape", "handshake"}
    FinalizeWhenKept = TRUE
    FinalizeWhenFreed = FALSE
    AfterHookASync = FALSE
INVARIANTS
    NoLostWakeup
    NoDanglingContext
PROPERTIES
    NothingSkipped
    ImplementsPlan
    EventuallyAnswered
