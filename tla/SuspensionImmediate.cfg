CONSTANTS
    Accounts = {a1}
    Agents = {g1}
    Calls = {c1}
    Tokens = {t1, t2}
    None = None
    AccessTTL = 1
    RefreshTTL = 2
SPECIFICATION Spec
INVARIANTS SuspensionIsImmediate
