SPECIFICATION Spec
CONSTANTS
    Requests = {r1, r2}
    Roles = {"merchant", "courier"}
    Allowed = {"merchant"}
    AuthReplies = {200, 401}
    None = None
    Settings = {None, 0, 3, 5}
    DefaultSeconds = 1
    Second = 2
    Half = 8
INVARIANTS
    TypeOK
    OnlyAdmitted
    AnswerIsLogged
    EveryLossIsExplained
PROPERTIES
    SignalEndsProcess
CHECK_DEADLOCK FALSE
