SPECIFICATION Spec
CONSTANTS
    p1 = p1
    p2 = p2
    NoData = NoData
    Producers = {p1, p2}
    Length = 2
    Calls <- MCCalls
    ConsumerCalls = {"pop", "wait"}
    MaxCalls <- MCMaxCalls
INVARIANTS
    TypeOK
    SlotOwnership
    AssertionsHold
    ProducerOrder
    ResultTellsArrival
    PublishedBelowMax
    ReadAvailableExact
    PreviousDataExact
PROPERTIES
    ReadIndexMaxMonotone
    RefusedOnlyWhenFull
CHECK_DEADLOCK FALSE
