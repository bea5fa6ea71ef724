\* One thread: an object of the fast tier is moved down and up again.
CONSTANTS
    th1 = th1
    th2 = th2
    th3 = th3
    o1 = o1
    v1 = v1
    v2 = v2
    Empty = Empty
    NoObject = NoObject
    Values <- TwoValues
    Threads <- OneThread
    Objects <- OneObject
    Requests <- FastAndSlow
    BuildRequests <- SameForBoth
    InitialTiers <- InFast
    InitialData = v1
    Writers <- Nobody
    MaxOps = 2
    MaxWrites = 0
    MaxFaults = 0
    MaxCrashes = 0
SPECIFICATION BuildSpec
SYMMETRY Symmetry
INVARIANTS MovedAsReported
CHECK_DEADLOCK FALSE
