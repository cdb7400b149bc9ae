CONSTANTS
    Requests = {r1, r2}
    Public = {}
    Retryable = {}
    maxRetries = 2
    MaxToken = 2
SPECIFICATION Spec
CHECK_DEADLOCK FALSE
PROPERTIES QueuedIsReplayed
