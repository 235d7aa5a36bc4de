SPECIFICATION Spec
CONSTANTS
    Documents <- MCShown
    IntKeys = {"thread_count", "max_queue_size"}
    Initial <- MCInitial
    Default <- MCInitial
    StackValues = {0, 3}
    IntBits = 3
    LongBits = 5
    ThreadOptions = {1}
    Workers = {1, 2}
    Callers = {reactor}
    MaxJobs = 3
    LineSize = 1
    RollSize = 3
    MaxLines = 5
    MaxSecond = 1
INVARIANT DocumentedIsLoaded
CHECK_DEADLOCK FALSE
