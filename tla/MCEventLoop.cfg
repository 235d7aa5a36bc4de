SPECIFICATION FairSpec
CONSTANTS
    Threads = {t1, t2}
    Reactor = reactor
    MaxDeferredPerRound = 2
    MaxTasks = 4
INVARIANTS NoLostWakeup
PROPERTIES RunsInOrder EveryTaskRuns
CHECK_DEADLOCK FALSE
