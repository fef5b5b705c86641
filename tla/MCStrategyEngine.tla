-------------------------- MODULE MCStrategyEngine --------------------------
(***************************************************************************)
(* Times in units of 15 minutes.  All candles are flat: one price, given   *)
(* as a number.                                                            *)
(***************************************************************************)
EXTENDS StrategyEngine

MCDuration == [tf \in {"4h", "1h", "15m"} |->
                 CASE tf = "4h" -> 16 [] tf = "1h" -> 4 [] tf = "15m" -> 1]

Flat(p) == [high |-> p, low |-> p, close |-> p]

\* A series with these prices that ends before the candle that is due.
Past(p, prices) ==
    [i \in DOMAIN prices |->
       LET closes == StartTime - (Len(prices) + 1 - i) * Duration[p[2]]
       IN  [symbol |-> p[1], timeframe |-> p[2],
            open_time |-> closes - Duration[p[2]], close_time |-> closes,
            high |-> prices[i], low |-> prices[i], close |-> prices[i]]]

\* Prices mirrored at 5.
Mirror(prices) == [i \in DOMAIN prices |-> 10 - prices[i]]

\* A low at 2, a high at 6, then higher ones at 3 and 8.
Rising == <<5, 4, 2, 4, 6, 4, 3, 5, 8, 6, 5>>

\* A confirmed low at 2 and high at 6, not broken.
Range == <<5, 4, 2, 4, 6, 4, 5>>

\* The same, and a break of the high.
Broken == Append(Range, 7)

\* A confirmed low at 2 and high at 4, not broken: a close at 5 is a break, and
\* a higher swing can hide it.
LowRange == <<4, 3, 2, 3, 4, 3, 3>>

\* Series around a signal.  The other symbol of the snapshot has a 1h series
\* too, with or without a gap.
SignalHistory(trend, structure, entry, other) ==
    [p \in Pairs |->
       CASE p[1] = Symbol /\ p[2] = "4h"  -> Past(p, trend)
         [] p[1] = Symbol /\ p[2] = "1h"  -> Past(p, structure)
         [] p[1] = Symbol /\ p[2] = "15m" -> Past(p, entry)
         [] OTHER -> IF p[2] = "1h" THEN other ELSE <<>>]

Intact == Past(<<"ETH", "1h">>, <<5, 5, 5>>)

WithGap == <<Intact[1], Intact[3]>>

SignalHistories ==
    {SignalHistory(Rising, structure, entry, Intact) :
        structure \in {Range, Broken}, entry \in {LowRange, Broken}}
    \cup {SignalHistory(Mirror(Rising), Mirror(Broken), Mirror(Broken), Intact),
          SignalHistory(Rising, Broken, Broken, WithGap)}

SignalFed == {<<Symbol, "1h">>, <<Symbol, "15m">>}

HighPrices == {Flat(1), Flat(5), Flat(9)}
=============================================================================
