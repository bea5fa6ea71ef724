\* One caller and two pool threads, of which one may hang; every call may be
\* posted again while it is running.
CONSTANTS
    s1 = s1
    th1 = th1
    th2 = th2
    h1 = h1
    h2 = h2
    o1 = o1
    v1 = v1
    Slots <- OneSlot
    Threads <- TwoThreads
    Modes <- TheModes
    EarlyModes <- ModesEarly
    Sessions <- TwoSessions
    NoSession = NoSession
    Objects <- OneObject
    Values <- OneValue
    Empty = Empty
    NoObject = NoObject
    Nothing = Nothing
    InitialTiers <- InFast
    Scripts <- AllCalls
    MaxTid = 3
    MaxPosts = 2
    MaxHangs = 1
SPECIFICATION LibFairSpec
INVARIANTS OwnSession AnsweredHolds ReadIsOwn
PROPERTIES CallsEnd
CHECK_DEADLOCK FALSE
