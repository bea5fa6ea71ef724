\* Ten objects, the nine pairs of tiers, nothing fails: what the programs run.
CONSTANTS
    th1 = th1
    th2 = th2
    v1 = v1
    v2 = v2
    Empty = Empty
    NoObject = NoObject
    Values <- TwoValues
    Threads <- TwoThreads
    Objects <- TenObjects
    Requests <- AllRequests
    BuildRequests <- SameForBoth
    Rewritten = v2
    InitialTiers <- NowhereYet
    InitialData = v1
    Writers <- Nobody
    MaxOps = 34
    MaxWrites = 1
    MaxFaults = 0
    MaxCrashes = 0
SPECIFICATION TestSpec
INVARIANTS TestPasses ReadsBack NoAbort MovedAsReported NothingLeft LeftUnlocked
CHECK_DEADLOCK FALSE
