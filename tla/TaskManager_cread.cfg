\* One CRead, nothing hangs and nothing fails.
CONSTANTS
    s1 = s1
    s2 = s2
    th1 = th1
    th2 = th2
    Slots <- OneSlot
    Threads <- TwoThreads
    Modes <- CReadOnly
    EarlyModes <- NoModes
    MaxTid = 1
    MaxPosts = 2
    MaxHangs = 0
SPECIFICATION FairSpec
PROPERTIES EveryCallReported
CHECK_DEADLOCK FALSE
