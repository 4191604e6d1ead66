SPECIFICATION FairSpec
CONSTANTS
    p1 = p1
    p2 = p2
    Nobody = Nobody
    Producers = {p1, p2}
    Queues <- MCQueues
    Length <- MCLength
    Targets <- MCTargets
    Overwriters <- MCOverwriters
    MaxPushes <- MCMaxPushes
    Modes = {"all"}
PROPERTY
    AllServed
CHECK_DEADLOCK FALSE
