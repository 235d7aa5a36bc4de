SPECIFICATION Spec
CONSTANTS
    Workers = {w1, w2}
    b1 = b1
    b2 = b2
    b3 = b3
    Backends <- MCBackends
    Routes <- MCRoutes
    Requests <- MCRequests
    Responses <- MCResponses
    MaxRequests = 3
INVARIANTS
    OneAnswerEach CallsReported OneBreaker CountersAddUp
    LongestPrefix AnswerAsRead
CHECK_DEADLOCK FALSE
