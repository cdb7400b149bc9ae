CONSTANTS
    Accounts = {a1}
    Tokens = {t1}
    Empty = Empty
    Calls = {c1, c2}
    None = None
SPECIFICATION Spec
INVARIANTS TypeOK StateIsAttended
PROPERTIES ClosedIsNoticed
