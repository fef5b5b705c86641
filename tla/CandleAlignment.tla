-------------------------- MODULE CandleAlignment --------------------------
(***************************************************************************)
(* align_latest_closed_candle                                              *)
(* (src/src/tabdeal_signal/data/alignment.py) over every series a caller   *)
(* can put together: in any order, with gaps, overlaps, duplicates, wrong  *)
(* durations and candles of another symbol or timeframe.                   *)
(***************************************************************************)
EXTENDS CandleSeries, FiniteSets

CONSTANTS
    Symbols,
    Timeframe,       \* the timeframe asked for
    Instants,        \* times of the candles, of the reference and of the anchor
    NULL,            \* None
    MaxCandles       \* bound on the length of a series

VARIABLE candles

\* Candle.__post_init__ refuses a candle that does not close after it opens.
Candle ==
    {k \in [symbol : Symbols, timeframe : Timeframes,
            open_time : Instants, close_time : Instants] :
        k.open_time < k.close_time}

ASSUME AlignmentAssumption ==
    /\ Timeframe \in Timeframes
    /\ Instants \subseteq Int
    /\ NULL \notin Candle

Init == candles = <<>>

AddCandle(k) ==
    /\ Len(candles) < MaxCandles
    /\ candles' = Append(candles, k)

----------------------------------------------------------------------------
\* Mutant of Contains: the anchor's phase is ignored.
ContainsAnyPhase(k, anchor) ==
    /\ k.timeframe = Timeframe
    /\ k.open_time >= anchor

\* AlignmentPolicy.contains
Contains(k, anchor) ==
    /\ k.timeframe = Timeframe
    /\ k.open_time >= anchor
    /\ (k.open_time - anchor) % Duration[Timeframe] = 0

\* select_closed_candles
SelectClosed(c, time) == {i \in DOMAIN c : c[i].close_time < time}

Blocked(reason) == [candle |-> NULL, reason |-> reason]

\* align_latest_closed_candle
Align(c, time, anchor) ==
    LET eligible == SelectClosed(c, time)
        latest   == {i \in eligible :
                        \A j \in eligible : c[j].close_time <= c[i].close_time}
    IN  CASE ~ValidSeries(c, Timeframe) -> Blocked("INVALID_SERIES")
          [] ValidSeries(c, Timeframe) /\ \E i \in DOMAIN c : ~Contains(c[i], anchor)
                -> Blocked("CANDLE_BOUNDARY_MISMATCH")
          [] OTHER ->
                CASE eligible = {} -> Blocked("NO_CLOSED_CANDLE")
                  [] Cardinality(latest) = 1 ->
                       [candle |-> c[CHOOSE i \in latest : TRUE], reason |-> NULL]
                  [] OTHER -> Blocked("AMBIGUOUS_CANDLE_ALIGNMENT")

----------------------------------------------------------------------------
\* Reference: the series covers the slots first, first + 1, ... of the grid
\* that starts at the anchor, each once and in order; nothing is asked of
\* the symbols.
Tiles(c, anchor) ==
    /\ c # <<>>
    /\ \E first \in 0..(c[1].open_time - anchor) : \A i \in DOMAIN c :
          LET opens == anchor + (first + i - 1) * Duration[Timeframe]
          IN  /\ c[i].timeframe = Timeframe
              /\ c[i].open_time = opens
              /\ c[i].close_time = opens + Duration[Timeframe]

IsLatestClosed(k, c, time) ==
    \E i \in DOMAIN c :
        /\ k = c[i]
        /\ c[i].close_time < time
        /\ i < Len(c) => c[i + 1].close_time >= time

\* align_latest_closed_candle answers exactly when the series tiles the
\* anchor's grid and its first candle has closed, and then with the last
\* closed candle; the five separate checks of validate_candle_series and the
\* boundary check let nothing else through and keep nothing of this out.  In
\* particular AMBIGUOUS_CANDLE_ALIGNMENT is never answered.
AlignmentExact ==
    \A time, anchor \in Instants :
        LET answer == Align(candles, time, anchor)
        IN  IF Tiles(candles, anchor) /\ candles[1].close_time < time
            THEN /\ answer.candle # NULL
                 /\ IsLatestClosed(answer.candle, candles, time)
            ELSE /\ answer.candle = NULL
                 /\ answer.reason # "AMBIGUOUS_CANDLE_ALIGNMENT"
=============================================================================
