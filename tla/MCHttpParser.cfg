SPECIFICATION ParserSpec
CONSTANTS
    Requests <- MCRequests
    Garbage <- MCGarbage
    Form <- MCForm
    MaxSize = 25
    MaxMessages = 2
INVARIANTS DeliversExactly NothingHeldBack FailsExactlyOnBad OneShotAgrees
CHECK_DEADLOCK FALSE
