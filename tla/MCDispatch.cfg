SPECIFICATION Spec
CONSTANTS
    Threads = {t1, t2}
    Bodies = {"a", "b", "c"}
    Keys = {1, 2}
    Events = {1, 2}
    KeyOf <- MCKeyOf
    EventOf <- MCEventOf
    OwnerOf <- MCOwnerOf
    Sharing = TRUE
    LeaseSeconds = 1
    NULL = NULL
    MaxTime = 2
    MaxTokens = 2
SYMMETRY Symmetry
INVARIANTS
    DispatchInv
    SoleOwner
    DeliveredWasAccepted
PROPERTIES RunningLeaseKept
    DeliveredByOwner
