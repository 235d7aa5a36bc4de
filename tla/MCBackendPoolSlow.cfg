SPECIFICATION ForwardSpec
CONSTANTS
    Workers = {w1, w2}
    Conns = {k1, k2, k3}
    None = none
    MaxIdle = 1
    Chunks = 2
    ContentLength = TRUE
    Slow = TRUE
    MaxRequests = 2
INVARIANT OwnAnswer
CHECK_DEADLOCK FALSE
