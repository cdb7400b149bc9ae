CONSTANTS
    Accounts = {a1}
    Tokens = {t1}
    Empty = Empty
    Calls = {c1}
    None = None
SPECIFICATION Spec
INVARIANTS OtpPairIsFull
