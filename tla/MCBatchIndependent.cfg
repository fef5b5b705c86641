SPECIFICATION SpecNoCrash
CONSTANTS
    Keys = {k1, k2}
    Payloads = {p1}
    Events = {1, 2}
    Malformed = {}
    Owners = {w1, w2}
    Tokens = {t1, t2, t3, t4}
    NULL = NULL
    LeaseSeconds = 1
    BatchSize = 2
    MaxAttempts = 1
    BaseBackoff = 1
    MaxBackoff = 1
    Instants = {}
    MaxTime = 2
    MaxClaims = 2
    MaxMalformedClaims = 2
CONSTRAINT ClaimBound
PROPERTIES
    BatchIndependent
