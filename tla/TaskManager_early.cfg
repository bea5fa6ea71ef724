\* One caller, a Delete that may fail and a Create after it.
CONSTANTS
    s1 = s1
    s2 = s2
    th1 = th1
    th2 = th2
    Slots <- OneSlot
    Threads <- TwoThreads
    Modes <- CreateAndDelete
    EarlyModes <- DeleteOnly
    MaxTid = 2
    MaxPosts = 2
    MaxHangs = 0
SPECIFICATION FairSpec
PROPERTIES AsyncSpec
CHECK_DEADLOCK FALSE
