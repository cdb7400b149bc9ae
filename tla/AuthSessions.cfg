CONSTANTS
    Accounts = {a1, a2}
    Agents = {g1}
    Calls = {c1, c2}
    Tokens = {t1, t2, t3}
    None = None
    AccessTTL = 1
    RefreshTTL = 2
SPECIFICATION Spec
SYMMETRY Symmetry
INVARIANTS TypeOK GrantsOnlyWhileActive OneLivePerLogin
PROPERTIES EndedStaysEnded SuccessorsReplaceLiveTokens ImplementsRotatingTokens
