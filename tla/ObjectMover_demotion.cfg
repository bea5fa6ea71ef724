\* Three threads demote an object of the fast tier while applications write it,
\* for ever if they like (MaxWrites is renewed); an operation may fail and the
\* process may crash and start again; both builds.
CONSTANTS
    th1 = th1
    th2 = th2
    th3 = th3
    o1 = o1
    v1 = v1
    v2 = v2
    Empty = Empty
    NoObject = NoObject
    Values <- TwoValues
    Threads <- ThreeThreads
    Objects <- OneObject
    Requests <- Demotions
    BuildRequests <- DemotionsOfBuild
    InitialTiers <- InFast
    InitialData = v1
    Writers <- TwoValues
    MaxOps = 3
    MaxWrites = 1
    MaxFaults = 1
    MaxCrashes = 1
SPECIFICATION FairWritingSpec
INVARIANTS TypeOK AbortsOnlyOnFailure LocksReleased
PROPERTIES RegisterSpec DemotionEnds
CHECK_DEADLOCK FALSE
