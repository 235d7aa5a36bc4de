SPECIFICATION MCFairSpec
CONSTANTS
    Conns = {c1, c2}
    Fds = {f1, f2}
    NoFd = nofd
    None = none
    Workers = {w1}
    ConnectionLimits = {0, 1}
    MaxQueueSize = 1
    MaxDeferredPerRound = 1
    MaxUnits = 2
    Rude = {c1}
INVARIANTS OneAnswerUnderWay AnswersInOrder NoInputForgotten TablesAgree
PROPERTIES RequestsFinish IdleIsClosed
