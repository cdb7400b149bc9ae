CONSTANTS
    Accounts = {a1}
    Agents = {g1}
    Calls = {c1, c2}
    Tokens = {t1, t2, t3}
    None = None
    AccessTTL = 1
    RefreshTTL = 2
SPECIFICATION Spec
PROPERTIES OvertakenRefreshAccepted
