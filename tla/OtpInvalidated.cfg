CONSTANTS
    Phones = {p1}
    Purposes = {"auth"}
    Codes = {k1, k2}
    OtpIds = {o1, o2}
    Calls = {c1, c2}
    None = None
    otpTTL = 2
    otpMaxAttempts = 2
SPECIFICATION Spec
PROPERTIES InvalidatedIsNotVerified
