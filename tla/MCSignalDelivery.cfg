SPECIFICATION SignalSpec
CONSTANTS
    Keys <- MCKeys
    Payloads <- MCPayloads
    Events = {1, 2}
    KeyOf <- MCKeyOf
    EventOf <- MCEventOf
    DecisionOf <- MCDecisionOf
    Malformed = {}
    Writers = {x, y}
    Owners = {w1}
    Tokens = {t1, t2}
    NULL = NULL
    LeaseSeconds = 1
    BatchSize = 1
    MaxAttempts = 2
    BaseBackoff = 1
    MaxBackoff = 1
    Instants = {}
    MaxTime = 1
    MaxClaims = 2
SYMMETRY Symmetry
CONSTRAINT ClaimBound
INVARIANTS
    SignalHasOutbox
    OnlySignalsSent
PROPERTIES
    CollisionJustified
    ImplementsLog
    ImplementsDelivery
