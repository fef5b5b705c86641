SPECIFICATION MarketSpec
CONSTANTS
    Duration <- MCDuration
    Symbols = {"BTC", "ETH"}
    Timeframe = "2h"
    Instants = {0, 2, 3, 4, 5, 6}
    NULL = NULL
    MaxCandles = 3
    Threads = {t1, t2}
    Requests <- MCRequests
    Contents = {"first", "second", "bad"}
    NonPositive = {"bad"}
    Rank <- MCRank
SYMMETRY Symmetry
INVARIANTS AlignmentExact AnswersAgree AlignedIsLast
CHECK_DEADLOCK FALSE
