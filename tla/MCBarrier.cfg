SPECIFICATION FairSpec
CONSTANTS
    Threads = {t1, t2, t3, t4, t5}
    MaxWaits = 2
INVARIANT
    NobodyLeavesEarly
    SleepersAreAwaiting
PROPERTY
    EverybodyPasses
CHECK_DEADLOCK FALSE
