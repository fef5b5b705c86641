SPECIFICATION LiveSpec
CONSTANTS
    Keys = {1, 2}
    Payloads = {p1}
    Events = {1, 2}
    Malformed = {2}
    Owners = {w1, w2}
    Tokens = {t1, t2, t3}
    NULL = NULL
    LeaseSeconds = 2
    BatchSize = 2
    MaxAttempts = 3
    BaseBackoff = 1
    MaxBackoff = 1
    Instants = {}
    MaxTime = 2
    MaxCrashes = 1
INVARIANTS
    AttemptsPerCrash
    ProgressInv
PROPERTIES
    EventuallySettled
