SPECIFICATION Spec
CONSTANTS
    Duration <- MCDuration
    Symbols = {"BTC", "ETH"}
    Symbol = "BTC"
    Shapes <- HighPrices
    Fed <- SignalFed
    Histories <- SignalHistories
    StartTime = 192
    MaxTime = 196
    NULL = NULL
INVARIANTS EligibleExactly NoRepaint
PROPERTY StaysEligible
CHECK_DEADLOCK FALSE
