CONSTANTS
    Calls = {c1}
    Pins = {p1, p2}
    Salts = {s1, s2}
    None = None
    maxPinAttempts = 5
    lockoutDuration = 2
SPECIFICATION Spec
INVARIANTS LimitClearsPin
