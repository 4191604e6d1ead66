SPECIFICATION FairSpec
CONSTANTS
    Users = {"u1", "u2"}
    Consumer = "u1"
    Policies = {"deferred"}
    Length = 2
    Depths <- VoidDepths
    MaxCalls = 3
    Throws = {2}
PROPERTIES
    EmptyThrowsNothing
CHECK_DEADLOCK FALSE
