SPECIFICATION Spec
CONSTANTS
    p1 = p1
    p2 = p2
    NoData = NoData
    Producers = {p1, p2}
    Length = 2
    Calls <- MCCalls
    ConsumerCalls = {"empty", "pop_wait"}
    MaxCalls <- MCMaxCalls
INVARIANTS
    WithinCapacity
    SlotOwnership
    AssertionsHold
    PreviousDataSufficient
PROPERTIES
    OwnedFrontStable
    ImplementsFifo
CHECK_DEADLOCK FALSE
