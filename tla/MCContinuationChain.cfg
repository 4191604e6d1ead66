SPECIFICATION FairSpec
CONSTANTS
    Users = {"u1", "u2"}
    Consumer = "u1"
    Policies = {"async"}
    Length = 2
    Depths <- ChainDepths
    MaxCalls = 2
    Throws = {}
PROPERTIES
    ReleaseReturns
CHECK_DEADLOCK FALSE
