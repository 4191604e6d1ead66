SPECIFICATION FilledSpec
CONSTANTS
    p1 = p1
    p2 = p2
    NoData = NoData
    Producers = {p1, p2}
    Length = 2
    Calls <- MCCalls
    ConsumerCalls = {"pop_wait", "wait"}
    MaxCalls <- MCMaxCalls
PROPERTIES
    WaitIsServed
    CallsReturn
CHECK_DEADLOCK FALSE
