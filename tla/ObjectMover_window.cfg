\* Two threads promote the same object.
CONSTANTS
    th1 = th1
    th2 = th2
    th3 = th3
    o1 = o1
    v1 = v1
    v2 = v2
    Empty = Empty
    NoObject = NoObject
    Values <- TwoValues
    Threads <- TwoThreads
    Objects <- OneObject
    Requests <- Promotions
    BuildRequests <- SameForBoth
    InitialTiers <- InSlow
    InitialData = v1
    Writers <- Nobody
    MaxOps = 2
    MaxWrites = 0
    MaxFaults = 0
    MaxCrashes = 0
SPECIFICATION BuildSpec
SYMMETRY Symmetry
INVARIANTS NoAbort
CHECK_DEADLOCK FALSE
