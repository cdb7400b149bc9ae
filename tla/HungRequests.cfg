CONSTANTS
    Requests = {r1, r2}
    Public = {}
    Retryable = {r1}
    maxRetries = 1
    MaxToken = 1
SPECIFICATION Spec
CHECK_DEADLOCK FALSE
PROPERTIES FailureRejects
