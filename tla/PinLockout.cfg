CONSTANTS
    Calls = {c1, c2}
    Pins = {p1, p2}
    Salts = {s1, s2}
    None = None
    maxPinAttempts = 3
    lockoutDuration = 2
SPECIFICATION Spec
INVARIANTS LockoutAtLimit
