SPECIFICATION Spec
CONSTANTS
    PathActions <- MCPathActions
    PathOf <- MCPathOf
    ChainedActions <- MCChainedActions
    ChainedTo <- MCChainedTo
    PathPart <- MCPathPart
    EndPoints <- MCEndPoints
    CaptureArgs <- MCCaptureArgs
    NumberOfArgs <- MCNumberOfArgs
    Requests <- MCRequests
    Links <- MCLinks
INVARIANTS
    PathChosen
    ChainIsBest
    LinksLeadBack
CHECK_DEADLOCK FALSE
