SPECIFICATION FairSpec
CONSTANTS
    Users = {"u1", "u2"}
    Consumer = "u1"
    Policies = {"async", "deferred", "none"}
    Length = 1
    Depths <- MCDepths
    MaxCalls = 4
    Throws = {2}
INVARIANTS
    TypeOK
    ResultsInOrder
    DeletedWhenUnused
PROPERTIES
    LostOnlyAtFullResult
    ReleaseReturns
    ElementsProcessed
CHECK_DEADLOCK FALSE
