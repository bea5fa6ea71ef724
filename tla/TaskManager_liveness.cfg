\* One caller with two calls, so that retries of a Delete that failed go on
\* during the second call; two threads of which one may hang: the other one
\* serves the retries.  MaxPosts exceeds MaxHangs, so a task can always be posted again.
CONSTANTS
    s1 = s1
    s2 = s2
    th1 = th1
    th2 = th2
    Slots <- OneSlot
    Threads <- TwoThreads
    Modes <- CreateAndDelete
    EarlyModes <- DeleteOnly
    MaxTid = 2
    MaxPosts = 2
    MaxHangs = 1
SPECIFICATION FairSpec
INVARIANTS AwaitedIsTracked
PROPERTIES EveryCallReported
CHECK_DEADLOCK FALSE
