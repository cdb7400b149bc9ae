CONSTANTS
    Accounts = {a1}
    Tokens = {t1, t2}
    Empty = Empty
    Calls = {c1}
    None = None
SPECIFICATION Spec
PROPERTIES GraceSurvivesOutage
