SPECIFICATION FairSpec
CONSTANTS
    Users = {"u1", "u2"}
    Consumer = "u1"
    Policies = {"none"}
    Length = 2
    Depths <- PlainDepths
    MaxCalls = 2
    Throws = {}
INVARIANTS
    NoAccessAfterDelete
CHECK_DEADLOCK FALSE
