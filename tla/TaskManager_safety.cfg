\* Two callers, two pool threads, three calls of Create or CRead, so that a
\* caller reuses its result variable; up to two copies of one task at once.
\* Without fairness a thread may stop anywhere, so no thread needs to hang.
CONSTANTS
    s1 = s1
    s2 = s2
    th1 = th1
    th2 = th2
    Slots <- TwoSlots
    Threads <- TwoThreads
    Modes <- CreateAndCRead
    EarlyModes <- NoModes
    MaxTid = 3
    MaxPosts = 2
    MaxHangs = 0
SPECIFICATION Spec
SYMMETRY Symmetry
INVARIANTS TypeOK ReportIsAwaited AwaitedIsTracked TidUnused
PROPERTIES AsyncSpec
CHECK_DEADLOCK FALSE
