CONSTANTS
    Phones = {p1}
    Purposes = {"auth", "phone_verify"}
    Codes = {k1, k2}
    OtpIds = {o1, o2}
    Calls = {c1, c2}
    None = None
    otpTTL = 1
    otpMaxAttempts = 2
SPECIFICATION Spec
SYMMETRY Symmetry
INVARIANTS TypeOK AtMostOneActive AttemptsOvershoot EveryMissIsCounted
PROPERTIES UnusableStaysUnusable ImplementsOneTimeCodes
