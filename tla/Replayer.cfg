\* Two calls in flight, three objects, so that a variable is used again.
CONSTANTS
    thread_num = 2
    object_num = 3
    Modes <- ReadAndWrite
    ReadAnswers <- BytesOrError
    WriteAnswers <- ZeroOrError
SPECIFICATION FairSpec
INVARIANTS TypeOK EachObjectOnce
PROPERTIES ClientSpec ClientEnds
CHECK_DEADLOCK FALSE
