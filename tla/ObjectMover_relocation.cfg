\* Three threads move an object of any tier to any tier; operations may fail
\* and the process may crash and start again; both builds.
CONSTANTS
    th1 = th1
    th2 = th2
    th3 = th3
    o1 = o1
    v1 = v1
    v2 = v2
    Empty = Empty
    NoObject = NoObject
    Values <- TwoValues
    Threads <- ThreeThreads
    Objects <- OneObject
    Requests <- AllMoves
    BuildRequests <- SameForBoth
    InitialTiers <- Anywhere
    InitialData = v1
    Writers <- Nobody
    MaxOps = 5
    MaxWrites = 0
    MaxFaults = 2
    MaxCrashes = 1
SPECIFICATION BuildSpec
SYMMETRY Symmetry
INVARIANTS DataKept LockExclusion
CHECK_DEADLOCK FALSE
