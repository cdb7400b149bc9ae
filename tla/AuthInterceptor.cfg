CONSTANTS
    Requests = {r1, r2, r3}
    Public = {r3}
    Retryable = {r1, r3}
    maxRetries = 2
    MaxToken = 1
SPECIFICATION Spec
CHECK_DEADLOCK FALSE
INVARIANTS TypeOK SendsAreBounded UnauthorizedIsTold
PROPERTIES EveryRequestEnds
