CONSTANTS
    Phones = {p1}
    Purposes = {"auth"}
    Codes = {k1}
    OtpIds = {o1}
    Calls = {c1}
    None = None
    otpTTL = 2
    otpMaxAttempts = 2
SPECIFICATION Spec
PROPERTIES ExpiredIsReported
