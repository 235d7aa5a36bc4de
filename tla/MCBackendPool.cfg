SPECIFICATION FairForwardSpec
CONSTANTS
    Workers = {w1, w2}
    Conns = {k1, k2, k3}
    None = none
    MaxIdle = 1
    Chunks = 2
    ContentLength = TRUE
    Slow = FALSE
    MaxRequests = 3
INVARIANTS LeasesExact WholeAnswer IdleIsQuiet
PROPERTY ForwardReturns
CHECK_DEADLOCK FALSE
