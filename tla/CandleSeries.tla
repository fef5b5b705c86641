---------------------------- MODULE CandleSeries ----------------------------
(***************************************************************************)
(* Candle series (src/src/tabdeal_signal/data/series.py): a sequence of    *)
(* candles.  A candle has a symbol, a timeframe and two times; prices play *)
(* no part here.  Times are integers, in a unit that divides every         *)
(* timeframe.  The report of the checks is abstracted to whether it is     *)
(* valid.                                                                  *)
(***************************************************************************)
EXTENDS Integers, Sequences

CONSTANT Duration    \* the timeframes TimeframeSpec.parse accepts, with their length

Timeframes == DOMAIN Duration

ASSUME DurationAssumption == \A tf \in Timeframes : Duration[tf] \in Nat \ {0}

\* tuple(candles) == tuple(sorted(candles)), a stable sort by open_time.
Ordered(c) ==
    \A i, j \in DOMAIN c : i < j => c[i].open_time <= c[j].open_time

HasDuplicate(c) ==
    \E i, j \in DOMAIN c :
        /\ i # j
        /\ c[i].symbol = c[j].symbol
        /\ c[i].timeframe = c[j].timeframe
        /\ c[i].open_time = c[j].open_time

WrongDuration(c, tf) ==
    \E i \in DOMAIN c :
        c[i].timeframe = tf /\ c[i].close_time - c[i].open_time # Duration[tf]

\* Mutant of Contiguous: only an overlap is an error.
ContiguousOrGap(c) ==
    \A i \in 1..(Len(c) - 1) : c[i + 1].open_time >= c[i].close_time

\* Neither OVERLAPPING_CANDLES nor CANDLE_GAP.  The code compares the
\* neighbours of the sorted series, which is this one when it is Ordered.
Contiguous(c) ==
    \A i \in 1..(Len(c) - 1) : c[i + 1].open_time = c[i].close_time

\* validate_candle_series
ValidSeries(c, tf) ==
    /\ c # <<>>
    /\ tf \in Timeframes
    /\ \A i \in DOMAIN c : c[i].timeframe = tf
    /\ Ordered(c)
    /\ ~HasDuplicate(c)
    /\ ~WrongDuration(c, tf)
    /\ Contiguous(c)
=============================================================================
