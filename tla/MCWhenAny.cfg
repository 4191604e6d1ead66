SPECIFICATION FairSpec
CONSTANTS
    p1 = p1
    p2 = p2
    Nobody = Nobody
    Producers = {p1, p2}
    Queues <- MCQueues
    Length <- MCLength
    Targets <- MCTargets
    Overwriters <- MCOverwriters
    MaxPushes <- MCMaxPushes
    Modes = {"any", "all", "then"}
INVARIANTS
    AnnouncedOnce
    NotificationsFit
    NotifiedAvailableUnlessRaced
    NoSleepOverData
    NotifiedIsComing
PROPERTIES
    NotifiedIsServed
    AllServedUnlessRaced
    ReleaseReturns
CHECK_DEADLOCK FALSE
