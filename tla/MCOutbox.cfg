SPECIFICATION Spec
CONSTANTS
    Keys = {k1, k2}
    Payloads = {p1}
    Events = {1, 2}
    Malformed = {2}
    Owners = {w1, w2}
    Tokens = {t1, t2, t3, t4}
    NULL = NULL
    LeaseSeconds = 1
    BatchSize = 2
    MaxAttempts = 3
    BaseBackoff = 1
    MaxBackoff = 1
    Instants = {0, 2}
    MaxTime = 1
    MaxClaims = 3
    MaxMalformedClaims = 1
SYMMETRY Symmetry
CONSTRAINT ClaimBound
INVARIANTS InductiveInv RestartAccepts AttemptsDistinct
    ExclusiveLease
    SentWasAcknowledged
    DeadLetterExhausted
PROPERTIES LeaseHonoured TerminalStable NoEarlyRetry
    ImplementsLifecycle
