SPECIFICATION MCSpec
CONSTANTS
    Workers = {w1, w2, w3, w4}
    FailureThreshold = 2
    ResetTimeout = 2
    HalfOpenMaxRequests = 2
    MaxFailures = 5
    Keys = {k1, k2}
    NoKey = nokey
    Cost = 2
    Capacity = 4
    IdleTime = 4
    MaxTime = 9
INVARIANT ProbesBounded
