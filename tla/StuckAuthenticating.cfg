CONSTANTS
    Accounts = {a1, a2}
    Tokens = {t1, t2, t3}
    Empty = Empty
    Calls = {c1}
    None = None
SPECIFICATION FaultsSpec
SYMMETRY Symmetry
INVARIANTS AuthenticatingIsInFlight
