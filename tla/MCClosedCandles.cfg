SPECIFICATION Spec
CONSTANTS
    Adapters = {"kline"}
    MaxTime = 3
    MaxRows = 2
    BAD = BAD
    NULL = NULL
INVARIANT OnlyClosedCandles
