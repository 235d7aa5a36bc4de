SPECIFICATION Spec
CONSTANTS
    Documents <- MCDocuments
    IntKeys = {"thread_count", "max_queue_size"}
    Initial <- MCInitial
    Default <- MCInitial
    StackValues = {0, 3}
    IntBits = 3
    LongBits = 5
    ThreadOptions = {1}
    Workers = {1, 2}
    Callers = {reactor}
    MaxJobs = 3
    LineSize = 1
    RollSize = 3
    MaxLines = 5
    MaxSecond = 1
INVARIANTS LoadsWhatItSays NoStrandedWaiter NothingLostAtExit
PROPERTIES LoadReturns PoolServes LogInOrder ShutdownEnds
CHECK_DEADLOCK FALSE
