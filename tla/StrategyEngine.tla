--------------------------- MODULE StrategyEngine ---------------------------
(***************************************************************************)
(* MultiTimeframeStrategyEvaluator                                         *)
(* (src/src/tabdeal_signal/strategy/engine.py) on the snapshots of a       *)
(* market whose candles close one after the other.                         *)
(*                                                                         *)
(* series[<<symbol, timeframe>>] is what a snapshot with reference time    *)
(* `clock' holds: MarketSnapshot refuses a candle that does not close      *)
(* strictly before it, so a candle that closes at time T is delivered by   *)
(* the tick to T + 1.  The source may fail to deliver it.  Swings and      *)
(* break events, tuples in the code, are sets of indexes and of records:   *)
(* index and close_time give back their order.                             *)
(***************************************************************************)
EXTENDS CandleSeries

CONSTANTS
    Symbols,
    Symbol,          \* the evaluators' symbol
    Shapes,          \* the prices a candle may have: high, low, close
    Fed,             \* the pairs of symbol and timeframe the source delivers
    Histories,       \* what series may be at StartTime
    StartTime,
    MaxTime,         \* bound on the clock
    NULL             \* None

ASSUME MarketAssumption ==
    /\ Timeframes = {"4h", "1h", "15m"}
    /\ Shapes \subseteq [high : Int, low : Int, close : Int]
    /\ Symbol \in Symbols

VARIABLES
    series,
    clock,
    live             \* the structure found by the last evaluation, and when

vars == <<series, clock, live>>

Directions == {"LONG", "SHORT"}

Pairs == Symbols \X Timeframes

Candle == [symbol : Symbols, timeframe : Timeframes,
           open_time : Int, close_time : Int, high : Int, low : Int, close : Int]

\* What MarketSnapshot accepts from this market, as candles_for returns it:
\* the candles of each pair without duplicates, in the order of their times,
\* and closed before the reference time.
IsSnapshot(s, time) ==
    /\ s \in [Pairs -> Seq(Candle)]
    /\ \A p \in Pairs : \A i \in DOMAIN s[p] :
          /\ s[p][i].symbol = p[1] /\ s[p][i].timeframe = p[2]
          /\ s[p][i].close_time < time
          /\ \A j \in DOMAIN s[p] : i < j => s[p][i].close_time < s[p][j].close_time

ASSUME NullAssumption ==
    NULL \notin Directions /\ NULL \notin [at : Int, direction : Directions]

ASSUME HistoryAssumption ==
    /\ StartTime \in Int
    /\ Fed \subseteq Pairs
    /\ \A h \in Histories : IsSnapshot(h, StartTime)

----------------------------------------------------------------------------
(***************************************************************************)
(* The structure of a series.                                              *)
(***************************************************************************)
Value(c, i, side) == IF side = "high" THEN c[i].high ELSE c[i].low

Beyond(x, y, side) == IF side = "high" THEN x > y ELSE x < y

\* _confirmed_swings: the indexes of the points.
ConfirmedSwings(c, side) ==
    {i \in 3..(Len(c) - 2) :
        \A j \in {i - 2, i - 1, i + 1, i + 2} :
            Beyond(Value(c, i, side), Value(c, j, side), side)}

ConfirmedAt(c, i) == c[i + 2].close_time

\* _pit_swings
PitSwings(c, side, time) ==
    {i \in ConfirmedSwings(c, side) : ConfirmedAt(c, i) < time}

Last(S) == CHOOSE i \in S : \A j \in S : j <= i

LastTwo(S) == <<Last(S \ {Last(S)}), Last(S)>>

\* _trend
Trend(c, time) ==
    LET highs == PitSwings(c, "high", time)
        lows  == PitSwings(c, "low", time)
        Moves(S, side, dir) ==
            /\ \E i, j \in S : i # j
            /\ Beyond(Value(c, LastTwo(S)[2], side), Value(c, LastTwo(S)[1], side), dir)
    IN  IF Moves(highs, "high", "high") /\ Moves(lows, "low", "high") THEN "LONG"
        ELSE IF Moves(highs, "high", "low") /\ Moves(lows, "low", "low") THEN "SHORT"
        ELSE NULL

\* Mutant of Prior: a swing counts before the candles that confirm it closed.
PriorUnconfirmed(c, side, k) == {i \in ConfirmedSwings(c, side) : i < k}

\* prior_highs and prior_lows of the candle at k.
Prior(c, side, k) ==
    {i \in ConfirmedSwings(c, side) : i < k /\ ConfirmedAt(c, i) < c[k].close_time}

\* The close is beyond the last of them.
Breaks(c, k, side) ==
    \E i \in Prior(c, side, k) :
        /\ \A j \in Prior(c, side, k) : j <= i
        /\ Beyond(c[k].close, Value(c, i, side), side)

\* _break_events; if / elif: a break of both swings is an upward one.
BreakEvents(c, time) ==
    LET closed == {k \in DOMAIN c : c[k].close_time < time}
        up     == {k \in closed : Breaks(c, k, "high")}
        down   == {k \in closed \ up : Breaks(c, k, "low")}
    IN  {[at |-> c[k].close_time, direction |-> "LONG"] : k \in up}
          \cup {[at |-> c[k].close_time, direction |-> "SHORT"] : k \in down}

LastEvent(E) == CHOOSE e \in E : \A f \in E : f.at <= e.at

\* Mutant of LatestBos: the first break of the direction.
LatestBosFirst(E, d) ==
    LET same == {e \in E : e.direction = d}
    IN  IF same = {} THEN NULL ELSE CHOOSE e \in same : \A f \in same : e.at <= f.at

\* _latest_bos_and_choch, its first result.
LatestBos(E, d) ==
    LET same == {e \in E : e.direction = d}
    IN  IF same = {} THEN NULL ELSE LastEvent(same)

\* Its second result is not None.
HasChoch(E, d) ==
    \E e \in E : e.at > LatestBos(E, d).at /\ e.direction # d

----------------------------------------------------------------------------
(***************************************************************************)
(* evaluate.                                                               *)
(***************************************************************************)
\* validate_snapshot_series: the series of every symbol in the snapshot.
ValidSnapshot(s, tf) ==
    /\ \E sym \in Symbols : s[<<sym, tf>>] # <<>>
    /\ \A sym \in Symbols :
          s[<<sym, tf>>] # <<>> => ValidSeries(s[<<sym, tf>>], tf)

\* Mutant of Breakout: the last 15m event decides.
BreakoutLast(E, d, bos) ==
    E # {} /\ LastEvent(E).direction = d /\ LastEvent(E).at > bos.at

Breakout(E, d, bos) == \E e \in E : e.direction = d /\ e.at > bos.at

Reason(s, time, d) ==
    LET trend    == Trend(s[<<Symbol, "4h">>], time)
        events1h == BreakEvents(s[<<Symbol, "1h">>], time)
        bos      == LatestBos(events1h, d)
    IN  IF \E tf \in Timeframes : s[<<Symbol, tf>>] = <<>>
          THEN "INSUFFICIENT_SWING_CONTEXT"
        ELSE IF \E tf \in Timeframes : ~ValidSnapshot(s, tf) THEN "INVALID_SERIES"
        ELSE IF trend # d THEN IF trend = NULL THEN "TREND_NEUTRAL" ELSE "TREND_OPPOSITE"
        ELSE IF bos = NULL THEN "ENTRY_NOT_CONFIRMED"
        ELSE IF HasChoch(events1h, d) THEN "STRUCTURE_CHOCH_INVALIDATED"
        ELSE IF ~Breakout(BreakEvents(s[<<Symbol, "15m">>], time), d, bos)
          THEN "ENTRY_NOT_CONFIRMED"
        ELSE "ENTRY_BREAKOUT"

Eligible(s, time, d) == Reason(s, time, d) = "ENTRY_BREAKOUT"

\* The structure an evaluation at `time' works with.
Structure(s, time) ==
    [p \in Pairs |-> [highs  |-> PitSwings(s[p], "high", time),
                      lows   |-> PitSwings(s[p], "low", time),
                      events |-> BreakEvents(s[p], time)]]

----------------------------------------------------------------------------
Init ==
    /\ series \in Histories
    /\ clock = StartTime
    /\ live = [time |-> StartTime, structure |-> Structure(series, StartTime)]

\* The series whose candle closes at the time the clock shows.
Due == {p \in Fed : clock % Duration[p[2]] = 0}

NewCandle(p, shape) ==
    [symbol     |-> p[1],
     timeframe  |-> p[2],
     open_time  |-> clock - Duration[p[2]],
     close_time |-> clock,
     high |-> shape.high, low |-> shape.low, close |-> shape.close]

\* Time passes; the candles in `delivered' are received, the others that
\* are due are lost.
Tick ==
    /\ clock < MaxTime
    /\ clock' = clock + 1
    /\ \E delivered \in SUBSET Due : \E shape \in [delivered -> Shapes] :
          series' = [p \in Pairs |-> IF p \in delivered
                                     THEN Append(series[p], NewCandle(p, shape[p]))
                                     ELSE series[p]]
    /\ UNCHANGED live

Evaluate ==
    /\ live' = [time |-> clock, structure |-> Structure(series, clock)]
    /\ UNCHANGED <<series, clock>>

Next == Tick \/ Evaluate

Spec == Init /\ [][Next]_vars

----------------------------------------------------------------------------
(***************************************************************************)
(* Properties.                                                             *)
(***************************************************************************)
\* No look-ahead and no repainting: the swings and break events a later
\* evaluation dates before an earlier reference time are exactly those the
\* earlier evaluation found; candles that close later neither add to, nor
\* take from, nor redirect them.
NoRepaint == live.structure = Structure(series, live.time)

\* What NoRepaint rests on: every step leaves a snapshot MarketSnapshot would
\* accept at the current time, and no evaluation is dated in the future.
MarketInv ==
    /\ clock \in Int
    /\ live.time \in Int
    /\ live.time <= clock
    /\ IsSnapshot(series, clock)
    /\ NoRepaint

\* A series that misses no candle.
Unbroken(c, tf) ==
    \A i \in DOMAIN c :
        /\ c[i].close_time = c[1].close_time + (i - 1) * Duration[tf]
        /\ c[i].open_time = c[i].close_time - Duration[tf]

\* The reference reading of "a BOS that no CHOCH invalidates": the last break
\* is in the direction.
LastBreak(E, d) == E # {} /\ LastEvent(E).direction = d

\* The reference reading of a signal: no series of the snapshot misses a
\* candle, the 4h trend and the last 1h break are in the direction and a 15m
\* break in the direction came after every 1h break.
Signal(s, time, d) ==
    LET events1h == BreakEvents(s[<<Symbol, "1h">>], time)
    IN  /\ \A tf \in Timeframes : s[<<Symbol, tf>>] # <<>>
        /\ \A p \in Pairs : Unbroken(s[p], p[2])
        /\ Trend(s[<<Symbol, "4h">>], time) = d
        /\ LastBreak(events1h, d)
        /\ \E e \in BreakEvents(s[<<Symbol, "15m">>], time) :
              /\ e.direction = d
              /\ \A f \in events1h : f.at < e.at

\* A side is eligible exactly when it is a signal in that reading, which the
\* code does not compute in that way.  Both sides never are.
EligibleExactly ==
    /\ \A d \in Directions : Eligible(series, clock, d) <=> Signal(series, clock, d)
    /\ ~(Eligible(series, clock, "LONG") /\ Eligible(series, clock, "SHORT"))

StaysEligibleStep ==
    \A d \in Directions :
        /\ Eligible(series, clock, d)
        /\ \A p \in Pairs : p # <<Symbol, "15m">> => series'[p] = series[p]
        /\ Unbroken(series'[<<Symbol, "15m">>], "15m")
        => Eligible(series', clock', d)

\* An eligible side stays eligible, whatever the 15m candles that follow do,
\* until a 1h or 4h candle closes or one is lost.
StaysEligible == [][StaysEligibleStep]_vars
=============================================================================
