SPECIFICATION Spec
CONSTANTS
    Threads = {t1, t2}
    Bodies = {"a"}
    Keys = {1, 2}
    Events = {1}
    KeyOf <- MCKeyOf
    EventOf <- MCEventOf
    OwnerOf <- MCOwnerOf
    Sharing = FALSE
    LeaseSeconds = 1
    NULL = NULL
    MaxTime = 2
    MaxTokens = 1
SYMMETRY Symmetry
PROPERTIES
    ExpiredCannotMark
