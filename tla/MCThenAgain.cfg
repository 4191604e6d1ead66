SPECIFICATION Spec
CONSTANTS
    Users = {"u1", "u2"}
    Consumer = "u1"
    Policies = {"async"}
    Length = 2
    Depths <- AsyncDepths
    MaxCalls = 2
    Throws = {}
INVARIANTS
    EndedByRelease
CHECK_DEADLOCK FALSE
