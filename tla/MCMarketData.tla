---------------------------- MODULE MCMarketData ----------------------------
EXTENDS MarketData, TLC

MCDuration == [tf \in {"2h", "3h"} |-> IF tf = "2h" THEN 2 ELSE 3]

MCRank == "BTC" :> 1 @@ "ETH" :> 2 @@ "2h" :> 1 @@ "3h" :> 2

\* One pair, two symbols, and two timeframes at an earlier time.
MCRequests ==
    {[symbols |-> {"BTC"}, timeframes |-> {"2h"}, reference_time |-> 6],
     [symbols |-> {"BTC", "ETH"}, timeframes |-> {"2h"}, reference_time |-> 6],
     [symbols |-> {"BTC"}, timeframes |-> {"2h"}, reference_time |-> 5],
     [symbols |-> {"BTC"}, timeframes |-> {"2h", "3h"}, reference_time |-> 5]}

Symmetry == Permutations(Threads)
=============================================================================
