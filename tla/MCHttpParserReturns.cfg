SPECIFICATION FairParserSpec
CONSTANTS
    Requests <- MCRequests
    Garbage <- MCGarbage
    Form <- MCForm
    MaxSize = 25
    MaxMessages = 1
PROPERTY ParseReturns
CHECK_DEADLOCK FALSE
