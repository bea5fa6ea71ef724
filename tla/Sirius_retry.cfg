\* One Create in the slow tier, which WatchTasks posts again.
CONSTANTS
    s1 = s1
    th1 = th1
    th2 = th2
    h1 = h1
    h2 = h2
    o1 = o1
    v1 = v1
    Slots <- OneSlot
    Threads <- TwoThreads
    Modes <- TheModes
    EarlyModes <- ModesEarly
    Sessions <- TwoSessions
    NoSession = NoSession
    Objects <- OneObject
    Values <- OneValue
    Empty = Empty
    NoObject = NoObject
    Nothing = Nothing
    InitialTiers <- NowhereYet
    Scripts <- CreateBelow
    MaxTid = 1
    MaxPosts = 2
    MaxHangs = 0
SPECIFICATION LibSpec
INVARIANTS AnsweredHolds
CHECK_DEADLOCK FALSE
