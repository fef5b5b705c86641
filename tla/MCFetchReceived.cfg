SPECIFICATION Spec
CONSTANTS
    Adapters = {"orderbook"}
    MaxTime = 3
    MaxRows = 2
    BAD = BAD
    NULL = NULL
INVARIANT WhollyReceived
