------------------------ MODULE StrategyEngineProofs ------------------------
(***************************************************************************)
(* No look-ahead, for every market: a candle that closes later changes no  *)
(* swing and no break event dated before it.                               *)
(***************************************************************************)
EXTENDS StrategyEngine, DataTheorems, TLAPS

\* What Append does to a series.
LEMMA Appended ==
    ASSUME NEW c \in Seq(Candle), NEW x \in Candle
    PROVE  /\ Append(c, x) \in Seq(Candle)
           /\ Len(Append(c, x)) = Len(c) + 1
           /\ Len(c) \in Nat
           /\ DOMAIN c = 1..Len(c)
           /\ DOMAIN Append(c, x) = 1..(Len(c) + 1)
           /\ \A i \in 1..Len(c) : Append(c, x)[i] = c[i]
           /\ Append(c, x)[Len(c) + 1] = x
  OBVIOUS

\* _confirmed_swings: whether a candle is a swing depends on the two candles
\* before and after it and on no later one.
LEMMA SwingsKept ==
    ASSUME NEW c \in Seq(Candle), NEW x \in Candle, NEW side,
           NEW i \in 1..(Len(c) - 2)
    PROVE  i \in ConfirmedSwings(Append(c, x), side) <=> i \in ConfirmedSwings(c, side)
  <1> DEFINE d == Append(c, x)
  <1>1. /\ Len(d) = Len(c) + 1
        /\ Len(c) \in Nat
        /\ \A j \in 1..Len(c) : d[j] = c[j]
    BY Appended
  <1> HIDE DEF d
  <1>2. CASE i < 3
    BY <1>1, <1>2 DEF ConfirmedSwings, d
  <1>3. CASE i >= 3
    <2>1. \A j \in {i, i - 2, i - 1, i + 1, i + 2} : d[j] = c[j]
      BY <1>1, <1>3
    <2>2. \A j \in {i - 2, i - 1, i + 1, i + 2} :
             Beyond(Value(d, i, side), Value(d, j, side), side)
               = Beyond(Value(c, i, side), Value(c, j, side), side)
      BY <2>1 DEF Value
    <2>3. i \in 3..(Len(d) - 2) /\ i \in 3..(Len(c) - 2)
      BY <1>1, <1>3
    <2> QED
      BY <2>2, <2>3 DEF ConfirmedSwings, d
  <1> QED
    BY <1>2, <1>3

\* A swing of the longer series that is not yet one of the shorter is
\* confirmed by the new candle.
LEMMA SwingRange ==
    ASSUME NEW c \in Seq(Candle), NEW x \in Candle, NEW side,
           NEW i \in ConfirmedSwings(Append(c, x), side)
    PROVE  /\ i \in 1..(Len(c) - 1)
           /\ i = Len(c) - 1 => ConfirmedAt(Append(c, x), i) = x.close_time
           /\ i # Len(c) - 1 => ConfirmedAt(Append(c, x), i) = ConfirmedAt(c, i)
  BY Appended DEF ConfirmedSwings, ConfirmedAt

LEMMA SwingBounds ==
    ASSUME NEW c \in Seq(Candle), NEW side, NEW i \in ConfirmedSwings(c, side),
           NEW x \in Candle
    PROVE  i \in 1..(Len(c) - 2) /\ ConfirmedAt(Append(c, x), i) = ConfirmedAt(c, i)
  BY Appended DEF ConfirmedSwings, ConfirmedAt

\* The swings confirmed before a time, when the new candle does not close
\* before it.
LEMMA PitKept ==
    ASSUME NEW c \in Seq(Candle), NEW x \in Candle, NEW side, NEW time \in Int,
           ~(x.close_time < time)
    PROVE  PitSwings(Append(c, x), side, time) = PitSwings(c, side, time)
  <1> DEFINE d == Append(c, x)
  <1>1. ASSUME NEW i \in PitSwings(d, side, time) PROVE i \in PitSwings(c, side, time)
    <2>1. i \in ConfirmedSwings(d, side) /\ ConfirmedAt(d, i) < time
      BY <1>1 DEF PitSwings
    <2>2. i # Len(c) - 1 /\ i \in 1..(Len(c) - 1) /\ ConfirmedAt(d, i) = ConfirmedAt(c, i)
      BY <2>1, SwingRange
    <2>3. i \in 1..(Len(c) - 2)
      BY <2>2, Appended
    <2> QED
      BY <2>1, <2>2, <2>3, SwingsKept DEF PitSwings
  <1>2. ASSUME NEW i \in PitSwings(c, side, time) PROVE i \in PitSwings(d, side, time)
    <2>1. i \in ConfirmedSwings(c, side) /\ ConfirmedAt(c, i) < time
      BY <1>2 DEF PitSwings
    <2>2. i \in 1..(Len(c) - 2) /\ ConfirmedAt(d, i) = ConfirmedAt(c, i)
      BY <2>1, SwingBounds
    <2> QED
      BY <2>1, <2>2, SwingsKept DEF PitSwings
  <1> QED
    BY <1>1, <1>2 DEF PitSwings

\* prior_highs and prior_lows of a candle that closed before the new one.
LEMMA PriorKept ==
    ASSUME NEW c \in Seq(Candle), NEW x \in Candle, NEW side, NEW k \in DOMAIN c,
           c[k].close_time < x.close_time
    PROVE  Prior(Append(c, x), side, k) = Prior(c, side, k)
  <1> DEFINE d == Append(c, x)
  <1>0. d[k] = c[k] /\ c[k] \in Candle
    BY Appended
  <1>1. ASSUME NEW i \in Prior(d, side, k) PROVE i \in Prior(c, side, k)
    <2>1. /\ i \in ConfirmedSwings(d, side)
          /\ i < k
          /\ ConfirmedAt(d, i) < c[k].close_time
      BY <1>0, <1>1 DEF Prior
    <2>2. i # Len(c) - 1 /\ i \in 1..(Len(c) - 1) /\ ConfirmedAt(d, i) = ConfirmedAt(c, i)
      <3>1. x.close_time \in Int /\ c[k].close_time \in Int
        BY <1>0 DEF Candle
      <3> QED
        BY <2>1, <3>1, SwingRange
    <2>3. i \in 1..(Len(c) - 2)
      BY <2>2, Appended
    <2> QED
      BY <2>1, <2>2, <2>3, SwingsKept DEF Prior
  <1>2. ASSUME NEW i \in Prior(c, side, k) PROVE i \in Prior(d, side, k)
    <2>1. /\ i \in ConfirmedSwings(c, side)
          /\ i < k
          /\ ConfirmedAt(c, i) < c[k].close_time
      BY <1>2 DEF Prior
    <2>2. i \in 1..(Len(c) - 2) /\ ConfirmedAt(d, i) = ConfirmedAt(c, i)
      BY <2>1, SwingBounds
    <2> QED
      BY <1>0, <2>1, <2>2, SwingsKept DEF Prior
  <1> QED
    BY <1>1, <1>2 DEF Prior

LEMMA BreaksKept ==
    ASSUME NEW c \in Seq(Candle), NEW x \in Candle, NEW side, NEW k \in DOMAIN c,
           c[k].close_time < x.close_time
    PROVE  Breaks(Append(c, x), k, side) <=> Breaks(c, k, side)
  <1>1. Prior(Append(c, x), side, k) = Prior(c, side, k)
    BY PriorKept
  <1>2. \A i \in Prior(c, side, k) : Value(Append(c, x), i, side) = Value(c, i, side)
    <2> TAKE i \in Prior(c, side, k)
    <2>1. i \in 1..(Len(c) - 2)
      BY SwingBounds DEF Prior
    <2>2. Append(c, x)[i] = c[i]
      BY <2>1, Appended
    <2> QED
      BY <2>2 DEF Value
  <1>3. Append(c, x)[k] = c[k]
    BY Appended
  <1> QED
    BY <1>1, <1>2, <1>3 DEF Breaks

\* _break_events: the events dated before a time, when the new candle does
\* not close before it.
LEMMA EventsKept ==
    ASSUME NEW c \in Seq(Candle), NEW x \in Candle, NEW time \in Int,
           ~(x.close_time < time),
           \A k \in DOMAIN c : c[k].close_time < x.close_time
    PROVE  BreakEvents(Append(c, x), time) = BreakEvents(c, time)
  <1> DEFINE d == Append(c, x)
             Closed(e) == {k \in DOMAIN e : e[k].close_time < time}
             Up(e) == {k \in Closed(e) : Breaks(e, k, "high")}
             Down(e) == {k \in Closed(e) \ Up(e) : Breaks(e, k, "low")}
  <1>1. Closed(d) = Closed(c)
    BY Appended
  <1>2. \A k \in Closed(c) : d[k] = c[k]
    BY Appended
  <1>3. \A k \in Closed(c) : /\ Breaks(d, k, "high") <=> Breaks(c, k, "high")
                             /\ Breaks(d, k, "low") <=> Breaks(c, k, "low")
    BY BreaksKept
  <1>4. Up(d) = Up(c) /\ Down(d) = Down(c)
    BY <1>1, <1>3
  <1>5. Up(c) \subseteq Closed(c) /\ Down(c) \subseteq Closed(c)
    OBVIOUS
  <1>6. /\ BreakEvents(d, time) =
             {[at |-> d[k].close_time, direction |-> "LONG"] : k \in Up(d)}
               \cup {[at |-> d[k].close_time, direction |-> "SHORT"] : k \in Down(d)}
        /\ BreakEvents(c, time) =
             {[at |-> c[k].close_time, direction |-> "LONG"] : k \in Up(c)}
               \cup {[at |-> c[k].close_time, direction |-> "SHORT"] : k \in Down(c)}
    BY DEF BreakEvents
  <1> HIDE DEF d, Closed, Up, Down
  <1> QED
    BY <1>2, <1>4, <1>5, <1>6 DEF d

\* The whole structure, when only some series get a candle.
LEMMA StructureKept ==
    ASSUME NEW s \in [Pairs -> Seq(Candle)], NEW t \in [Pairs -> Seq(Candle)],
           NEW now \in Int, NEW time \in Int, time <= now,
           \A p \in Pairs : \A k \in DOMAIN s[p] : s[p][k].close_time < now,
           \A p \in Pairs :
              \/ t[p] = s[p]
              \/ \E x \in Candle : x.close_time = now /\ t[p] = Append(s[p], x)
    PROVE  Structure(t, time) = Structure(s, time)
  <1>1. ASSUME NEW p \in Pairs
        PROVE  /\ PitSwings(t[p], "high", time) = PitSwings(s[p], "high", time)
               /\ PitSwings(t[p], "low", time) = PitSwings(s[p], "low", time)
               /\ BreakEvents(t[p], time) = BreakEvents(s[p], time)
    <2>1. CASE t[p] = s[p]
      BY <2>1
    <2>2. ASSUME NEW x \in Candle, x.close_time = now, t[p] = Append(s[p], x)
          PROVE  /\ PitSwings(t[p], "high", time) = PitSwings(s[p], "high", time)
                 /\ PitSwings(t[p], "low", time) = PitSwings(s[p], "low", time)
                 /\ BreakEvents(t[p], time) = BreakEvents(s[p], time)
      <3>1. s[p] \in Seq(Candle) /\ ~(x.close_time < time)
        BY <2>2
      <3>2. \A k \in DOMAIN s[p] : s[p][k].close_time < x.close_time
        BY <2>2
      <3> QED
        BY <2>2, <3>1, <3>2, PitKept, EventsKept
    <2> QED
      BY <2>1, <2>2
  <1> QED
    BY <1>1 DEF Structure

\* A tick appends candles that close at the time it leaves.
LEMMA TickAppends ==
    ASSUME IsSnapshot(series, clock), clock \in Int, Tick
    PROVE  /\ series' \in [Pairs -> Seq(Candle)]
           /\ \A p \in Pairs :
                 \/ series'[p] = series[p]
                 \/ \E x \in Candle :
                       /\ x.symbol = p[1] /\ x.timeframe = p[2] /\ x.close_time = clock
                       /\ series'[p] = Append(series[p], x)
  <1>1. PICK delivered \in SUBSET Due : \E shape \in [delivered -> Shapes] :
           series' = [p \in Pairs |-> IF p \in delivered
                                      THEN Append(series[p], NewCandle(p, shape[p]))
                                      ELSE series[p]]
    BY DEF Tick
  <1>2. PICK shape \in [delivered -> Shapes] :
           series' = [p \in Pairs |-> IF p \in delivered
                                      THEN Append(series[p], NewCandle(p, shape[p]))
                                      ELSE series[p]]
    BY <1>1
  <1>3. series \in [Pairs -> Seq(Candle)]
    BY DEF IsSnapshot
  <1>4. ASSUME NEW p \in delivered
        PROVE  /\ NewCandle(p, shape[p]) \in Candle
               /\ NewCandle(p, shape[p]).symbol = p[1]
               /\ NewCandle(p, shape[p]).timeframe = p[2]
               /\ NewCandle(p, shape[p]).close_time = clock
    <2>1. p \in Pairs
      BY HistoryAssumption DEF Due
    <2>2. p[1] \in Symbols /\ p[2] \in Timeframes
      BY <2>1 DEF Pairs
    <2>3. Duration[p[2]] \in Nat
      BY <2>2, DurationAssumption
    <2>4. shape[p] \in [high : Int, low : Int, close : Int]
      BY MarketAssumption
    <2> QED
      BY <2>2, <2>3, <2>4 DEF NewCandle, Candle
  <1>5. ASSUME NEW p \in Pairs
        PROVE  /\ series'[p] \in Seq(Candle)
               /\ \/ series'[p] = series[p]
                  \/ \E x \in Candle :
                        /\ x.symbol = p[1] /\ x.timeframe = p[2] /\ x.close_time = clock
                        /\ series'[p] = Append(series[p], x)
    BY <1>2, <1>3, <1>4, Appended
  <1> QED
    BY <1>2, <1>5

\* A tick leaves a snapshot that MarketSnapshot accepts at the new time.
LEMMA TickSnapshot ==
    ASSUME IsSnapshot(series, clock), clock \in Int, Tick
    PROVE  IsSnapshot(series', clock')
  <1>1. clock' = clock + 1
    BY DEF Tick
  <1>2. ASSUME NEW p \in Pairs, NEW i \in DOMAIN series'[p]
        PROVE  /\ series'[p][i].symbol = p[1] /\ series'[p][i].timeframe = p[2]
               /\ series'[p][i].close_time < clock'
               /\ \A j \in DOMAIN series'[p] :
                     i < j => series'[p][i].close_time < series'[p][j].close_time
    <2>0. /\ series[p] \in Seq(Candle)
          /\ \A k \in DOMAIN series[p] :
                /\ series[p][k] \in Candle
                /\ series[p][k].symbol = p[1] /\ series[p][k].timeframe = p[2]
                /\ series[p][k].close_time \in Int
                /\ series[p][k].close_time < clock
                /\ \A j \in DOMAIN series[p] :
                      k < j => series[p][k].close_time < series[p][j].close_time
      <3>1. series \in [Pairs -> Seq(Candle)]
        BY DEF IsSnapshot
      <3>2. \A k \in DOMAIN series[p] :
               /\ series[p][k].symbol = p[1] /\ series[p][k].timeframe = p[2]
               /\ series[p][k].close_time < clock
               /\ \A j \in DOMAIN series[p] :
                     k < j => series[p][k].close_time < series[p][j].close_time
        BY DEF IsSnapshot
      <3>3. series[p] \in Seq(Candle)
        BY <3>1
      <3>4. \A k \in DOMAIN series[p] : series[p][k] \in Candle
        BY <3>3
      <3>5. \A k \in DOMAIN series[p] : series[p][k].close_time \in Int
        BY <3>4 DEF Candle
      <3> QED
        BY <3>2, <3>3, <3>4, <3>5
    <2>1. CASE series'[p] = series[p]
      BY <1>1, <2>0, <2>1
    <2>2. ASSUME NEW x \in Candle,
                 x.symbol = p[1], x.timeframe = p[2], x.close_time = clock,
                 series'[p] = Append(series[p], x)
          PROVE  /\ series'[p][i].symbol = p[1] /\ series'[p][i].timeframe = p[2]
                 /\ series'[p][i].close_time < clock'
                 /\ \A j \in DOMAIN series'[p] :
                       i < j => series'[p][i].close_time < series'[p][j].close_time
      <3>1. /\ DOMAIN series[p] = 1..Len(series[p])
            /\ Len(series[p]) \in Nat
            /\ DOMAIN series'[p] = 1..(Len(series[p]) + 1)
            /\ \A j \in 1..Len(series[p]) : series'[p][j] = series[p][j]
            /\ series'[p][Len(series[p]) + 1] = x
        BY <2>0, <2>2, Appended
      <3> QED
        BY <1>1, <2>0, <2>2, <3>1
    <2> QED
      BY <2>1, <2>2, TickAppends
  <1>3. series' \in [Pairs -> Seq(Candle)]
    BY TickAppends
  <1> QED
    BY <1>2, <1>3 DEF IsSnapshot

\* MarketInv is inductive.
LEMMA MarketStep == MarketInv /\ [Next]_vars => MarketInv'
  <1> SUFFICES ASSUME MarketInv, [Next]_vars PROVE MarketInv'
    OBVIOUS
  <1>1. CASE Tick
    <2>1. /\ clock \in Int /\ live.time \in Int /\ live.time <= clock
          /\ IsSnapshot(series, clock)
      BY DEF MarketInv
    <2>2. clock' = clock + 1 /\ live' = live
      BY <1>1 DEF Tick
    <2>3. IsSnapshot(series', clock')
      BY <1>1, <2>1, TickSnapshot
    <2>4. Structure(series', live.time) = Structure(series, live.time)
      <3>1. series \in [Pairs -> Seq(Candle)]
        BY <2>1 DEF IsSnapshot
      <3>2. \A p \in Pairs : \A k \in DOMAIN series[p] :
               series[p][k].close_time < clock
        BY <2>1 DEF IsSnapshot
      <3> QED
        BY <1>1, <2>1, <3>1, <3>2, TickAppends, StructureKept
    <2>5. NoRepaint'
      BY <2>2, <2>4 DEF MarketInv, NoRepaint
    <2> QED
      BY <2>1, <2>2, <2>3, <2>5 DEF MarketInv
  <1>2. CASE Evaluate
    BY <1>2 DEF MarketInv, Evaluate, NoRepaint
  <1>3. CASE UNCHANGED vars
    BY <1>3 DEF MarketInv, NoRepaint, vars
  <1> QED
    BY <1>1, <1>2, <1>3 DEF Next

\* MarketInv holds for every history, every set of prices, every choice of
\* the candles that are lost and however long the market runs.
THEOREM MarketInvHolds == Spec => []MarketInv
  <1>1. Init => MarketInv
    BY HistoryAssumption DEF Init, MarketInv, NoRepaint
  <1> QED
    BY <1>1, MarketStep, PTL DEF Spec

\* No evaluation is ever contradicted by a later one about the time before
\* it: what _confirmed_swings, _pit_swings and _break_events date before a
\* reference time is settled at that time.
THEOREM NeverRepaints == Spec => []NoRepaint
  BY MarketInvHolds, PTL DEF MarketInv

----------------------------------------------------------------------------
(***************************************************************************)
(* What evaluate decides.                                                  *)
(***************************************************************************)
\* The candles of one pair of a snapshot.
IsSeries(c, p, time) ==
    /\ c \in Seq(Candle)
    /\ \A i \in DOMAIN c :
          /\ c[i].symbol = p[1] /\ c[i].timeframe = p[2]
          /\ c[i].close_time < time
          /\ \A j \in DOMAIN c : i < j => c[i].close_time < c[j].close_time

LEMMA SnapshotSeries ==
    ASSUME NEW s, NEW time, IsSnapshot(s, time), NEW p \in Pairs
    PROVE  IsSeries(s[p], p, time)
  BY DEF IsSnapshot, IsSeries

LEMMA SeriesTypes ==
    ASSUME NEW c \in Seq(Candle)
    PROVE  /\ Len(c) \in Nat /\ DOMAIN c = 1..Len(c)
           /\ \A i \in DOMAIN c : c[i].close_time \in Int /\ c[i].open_time \in Int
           /\ c # <<>> <=> 1 \in DOMAIN c
  <1>1. \A i \in DOMAIN c : c[i] \in Candle
    OBVIOUS
  <1>2. Len(c) \in Nat /\ DOMAIN c = 1..Len(c) /\ (c # <<>> <=> 1 \in DOMAIN c)
    OBVIOUS
  <1> QED
    BY <1>1, <1>2 DEF Candle

\* validate_candle_series compares neighbours; the places of all candles
\* follow by induction.
LEMMA ValidIsUnbroken ==
    ASSUME NEW c \in Seq(Candle), NEW tf \in Timeframes, ValidSeries(c, tf)
    PROVE  Unbroken(c, tf)
  <1> DEFINE n == Len(c)
             f == [i \in 1..n |-> c[i].close_time]
  <1>1. /\ n \in Nat /\ DOMAIN c = 1..n
        /\ \A i \in 1..n : c[i].close_time \in Int /\ c[i].open_time \in Int
        /\ 1 \in 1..n
    BY SeriesTypes DEF ValidSeries
  <1>2. PICK D \in Int : D = Duration[tf]
    BY DurationAssumption
  <1> HIDE DEF n
  <1>3. \A i \in 1..n : c[i].close_time - c[i].open_time = D
    BY <1>1, <1>2 DEF ValidSeries, WrongDuration
  <1>4. \A i \in 1..(n - 1) : c[i + 1].open_time = c[i].close_time
    BY DEF ValidSeries, Contiguous, n
  <1>5. \A i \in 1..(n - 1) : c[i + 1].close_time = c[i].close_time + D
    BY <1>1, <1>2, <1>3, <1>4
  <1>6. f \in [1..n -> Int] /\ \A i \in 1..(n - 1) : f[i + 1] = f[i] + D
    BY <1>1, <1>5
  <1>7. \A i \in 1..n : f[i] = f[1] + (i - 1) * D
    BY <1>1, <1>2, <1>6, Progression
  <1>8. \A i \in 1..n : c[i].close_time = c[1].close_time + (i - 1) * D
    BY <1>1, <1>7
  <1>9. \A i \in 1..n : c[i].open_time = c[i].close_time - D
    BY <1>1, <1>2, <1>3
  <1> QED
    BY <1>1, <1>2, <1>8, <1>9 DEF Unbroken

\* A series that misses no candle passes the five checks.
LEMMA UnbrokenIsValid ==
    ASSUME NEW c, NEW p \in Pairs, NEW time, IsSeries(c, p, time), c # <<>>,
           Unbroken(c, p[2])
    PROVE  ValidSeries(c, p[2])
  <1> DEFINE n == Len(c)
             open(i) == c[i].open_time
             close(i) == c[i].close_time
  <1>1. /\ n \in Nat /\ DOMAIN c = 1..n /\ 1 \in 1..n
        /\ \A i \in 1..n : close(i) \in Int /\ open(i) \in Int
        /\ \A i \in 1..n : c[i].timeframe = p[2]
        /\ \A i, j \in 1..n : i < j => close(i) < close(j)
    BY SeriesTypes DEF IsSeries
  <1>2. p[2] \in Timeframes
    BY DEF Pairs
  <1>3. PICK D \in Int : D = Duration[p[2]]
    BY <1>2, DurationAssumption
  <1> HIDE DEF n
  <1>4. \A i \in 1..n : open(i) = close(i) - D
    BY <1>1, <1>3 DEF Unbroken
  <1>5. \A i \in 1..n : close(i) = close(1) + (i - 1) * D
    BY <1>1, <1>3 DEF Unbroken
  <1>6. ASSUME NEW i \in 1..n, NEW j \in 1..n, i < j
        PROVE  open(i) < open(j)
    <2>1. /\ open(i) = close(i) - D /\ open(j) = close(j) - D
          /\ close(i) < close(j)
          /\ close(i) \in Int /\ close(j) \in Int
      BY <1>1, <1>4, <1>6
    <2> HIDE DEF open, close
    <2> QED
      BY <1>3, <2>1
  <1>7. ASSUME NEW i \in 1..(n - 1)
        PROVE  open(i + 1) = close(i)
    <2>1. i \in 1..n /\ i + 1 \in 1..n /\ i - 1 \in Int /\ 1 \in 1..n
      BY <1>1
    <2>2. i * D = (i - 1) * D + D /\ (i - 1) * D \in Int
      <3>1. (i - 1 + 1) * D = (i - 1) * D + D /\ (i - 1) * D \in Int
        BY <1>3, <2>1, NextMultiple
      <3>2. i - 1 + 1 = i
        BY <2>1
      <3> QED
        BY <3>1, <3>2
    <2>3. i + 1 - 1 = i
      BY <2>1
    <2>4. /\ close(i) = close(1) + (i - 1) * D
          /\ close(i + 1) = close(1) + i * D
      <3>1. close(i + 1) = close(1) + (i + 1 - 1) * D
        BY <1>5, <2>1
      <3> QED
        BY <1>5, <2>1, <2>3, <3>1
    <2>5. open(i + 1) = close(i + 1) - D
      BY <1>4, <2>1
    <2>6. close(1) \in Int
      BY <1>1
    <2> DEFINE m == (i - 1) * D
    <2>7. m \in Int /\ close(i) = close(1) + m /\ close(i + 1) = close(1) + (m + D)
      BY <2>2, <2>4
    <2> HIDE DEF open, close, m
    <2> QED
      BY <1>3, <2>5, <2>6, <2>7
  <1>8. Ordered(c) /\ ~HasDuplicate(c)
    <2>1. \A i, j \in 1..n : i # j => i < j \/ j < i
      OBVIOUS
    <2>2. \A i, j \in 1..n : i < j => open(i) < open(j)
      BY <1>6
    <2>3. Ordered(c)
      BY <1>1, <2>2 DEF Ordered
    <2>4. ~HasDuplicate(c)
      BY <1>1, <2>1, <2>2 DEF HasDuplicate
    <2> QED
      BY <2>3, <2>4
  <1>9. ~WrongDuration(c, p[2])
    <2>1. ASSUME NEW i \in 1..n
          PROVE  close(i) - open(i) = D
      <3>1. open(i) = close(i) - D /\ close(i) \in Int
        BY <1>1, <1>4, <2>1
      <3> HIDE DEF open, close
      <3> QED
        BY <1>3, <3>1
    <2> QED
      BY <1>1, <1>3, <2>1 DEF WrongDuration
  <1> QED
    BY <1>1, <1>2, <1>7, <1>8, <1>9 DEF ValidSeries, Contiguous, n

\* What _break_events returns: at most one event for each candle.
LEMMA EventsOfCandles ==
    ASSUME NEW c, NEW p, NEW time, IsSeries(c, p, time)
    PROVE  /\ \A e \in BreakEvents(c, time) :
                 /\ e \in [at : Int, direction : Directions]
                 /\ \E k \in DOMAIN c : e.at = c[k].close_time
           /\ \A e, f \in BreakEvents(c, time) : e.at = f.at => e = f
  <1> DEFINE closed == {k \in DOMAIN c : c[k].close_time < time}
             up == {k \in closed : Breaks(c, k, "high")}
             down == {k \in closed \ up : Breaks(c, k, "low")}
             Event(k, d) == [at |-> c[k].close_time, direction |-> d]
  <1>1. BreakEvents(c, time) =
          {Event(k, "LONG") : k \in up} \cup {Event(k, "SHORT") : k \in down}
    BY DEF BreakEvents
  <1>2. /\ up \subseteq DOMAIN c /\ down \subseteq DOMAIN c
        /\ \A k \in up : k \notin down
    OBVIOUS
  <1>3. \A k \in DOMAIN c : c[k].close_time \in Int
    BY SeriesTypes DEF IsSeries
  <1>4. \A j, k \in DOMAIN c : c[j].close_time = c[k].close_time => j = k
    <2>1. DOMAIN c \subseteq Nat
      BY SeriesTypes DEF IsSeries
    <2>2. \A j, k \in DOMAIN c : j < k => c[j].close_time < c[k].close_time
      BY DEF IsSeries
    <2> QED
      BY <1>3, <2>1, <2>2
  <1> HIDE DEF up, down
  <1>5. \A e \in BreakEvents(c, time) :
           \E k \in DOMAIN c :
              \/ k \in up /\ e = Event(k, "LONG")
              \/ k \in down /\ e = Event(k, "SHORT")
    BY <1>1, <1>2
  <1>6. ASSUME NEW e \in BreakEvents(c, time)
        PROVE  /\ e \in [at : Int, direction : Directions]
               /\ \E k \in DOMAIN c : e.at = c[k].close_time
    BY <1>3, <1>5 DEF Directions
  <1>7. ASSUME NEW e \in BreakEvents(c, time), NEW f \in BreakEvents(c, time),
               e.at = f.at
        PROVE  e = f
    <2>1. PICK j \in DOMAIN c :
                 \/ j \in up /\ e = Event(j, "LONG")
                 \/ j \in down /\ e = Event(j, "SHORT")
      BY <1>5
    <2>2. PICK k \in DOMAIN c :
                 \/ k \in up /\ f = Event(k, "LONG")
                 \/ k \in down /\ f = Event(k, "SHORT")
      BY <1>5
    <2>3. j = k
      BY <1>4, <1>7, <2>1, <2>2
    <2> QED
      BY <1>2, <2>1, <2>2, <2>3
  <1> QED
    BY <1>6, <1>7

\* There is a last one among any of them.
LEMMA LastIsLast ==
    ASSUME NEW c, NEW p, NEW time, IsSeries(c, p, time),
           NEW F \in SUBSET BreakEvents(c, time), F # {}
    PROVE  LastEvent(F) \in F /\ \A f \in F : f.at <= LastEvent(F).at
  <1> DEFINE n == Len(c)
             S == {k \in 1..n : \E f \in F : f.at = c[k].close_time}
  <1>1. /\ n \in Nat /\ DOMAIN c = 1..n
        /\ \A k \in 1..n : c[k].close_time \in Int
    BY SeriesTypes DEF IsSeries
  <1>2. \A j, k \in 1..n : j < k => c[j].close_time < c[k].close_time
    BY <1>1 DEF IsSeries
  <1>3. \A f \in F : \E k \in S : f.at = c[k].close_time
    BY <1>1, EventsOfCandles
  <1> HIDE DEF n
  <1>4. S # {} /\ S \in SUBSET (1..n)
    BY <1>3
  <1>5. PICK last \in S : \A k \in S : k <= last
    <2> HIDE DEF S
    <2> QED
      BY <1>1, <1>4, Greatest
  <1>6. \A k \in S : c[k].close_time <= c[last].close_time
    <2>1. \A k \in S : k = last \/ k < last
      BY <1>4, <1>5
    <2> QED
      BY <1>1, <1>2, <2>1
  <1>7. PICK e \in F : e.at = c[last].close_time
    OBVIOUS
  <1>8. \A f \in F : f.at <= e.at
    BY <1>3, <1>6, <1>7
  <1> QED
    BY <1>8 DEF LastEvent

\* The series checks of evaluate, on all of a snapshot.
LEMMA ValidSnapshots ==
    ASSUME NEW s, NEW time, IsSnapshot(s, time),
           \A tf \in Timeframes : s[<<Symbol, tf>>] # <<>>
    PROVE  (\A tf \in Timeframes : ValidSnapshot(s, tf))
             <=> (\A p \in Pairs : Unbroken(s[p], p[2]))
  <1>1. ASSUME \A tf \in Timeframes : ValidSnapshot(s, tf), NEW p \in Pairs
        PROVE  Unbroken(s[p], p[2])
    <2>1. p[1] \in Symbols /\ p[2] \in Timeframes /\ p = <<p[1], p[2]>>
      BY DEF Pairs
    <2>2. CASE s[p] = <<>>
      BY <2>2 DEF Unbroken
    <2>3. CASE s[p] # <<>>
      <3>1. ValidSeries(s[p], p[2])
        BY <1>1, <2>1, <2>3 DEF ValidSnapshot
      <3>2. s[p] \in Seq(Candle)
        BY DEF IsSnapshot
      <3> QED
        BY <2>1, <3>1, <3>2, ValidIsUnbroken
    <2> QED
      BY <2>2, <2>3
  <1>2. ASSUME \A p \in Pairs : Unbroken(s[p], p[2]), NEW tf \in Timeframes
        PROVE  ValidSnapshot(s, tf)
    <2>1. ASSUME NEW sym \in Symbols, s[<<sym, tf>>] # <<>>
          PROVE  ValidSeries(s[<<sym, tf>>], tf)
      <3>1. <<sym, tf>> \in Pairs /\ <<sym, tf>>[2] = tf
        BY DEF Pairs
      <3> QED
        BY <1>2, <2>1, <3>1, SnapshotSeries, UnbrokenIsValid
    <2> QED
      BY <2>1, MarketAssumption DEF ValidSnapshot
  <1> QED
    BY <1>1, <1>2

\* _latest_bos_and_choch: a BOS in the direction that no later CHOCH
\* invalidates is a last break in the direction.
LEMMA BosWithoutChoch ==
    ASSUME NEW c, NEW p, NEW time, IsSeries(c, p, time), NEW d \in Directions,
           NEW E, E = BreakEvents(c, time)
    PROVE  /\ LatestBos(E, d) # NULL /\ ~HasChoch(E, d) <=> LastBreak(E, d)
           /\ LatestBos(E, d) # NULL =>
                 LatestBos(E, d) \in E /\ LatestBos(E, d).direction = d
           /\ LastBreak(E, d) => \A f \in E : f.at <= LatestBos(E, d).at
  <1> DEFINE same == {e \in E : e.direction = d}
             bos == LatestBos(E, d)
  <1>1. /\ \A e \in E : e.at \in Int /\ e # NULL
        /\ \A e, f \in E : e.at = f.at => e = f
    BY EventsOfCandles, NullAssumption
  <1>2. same # {} => bos \in same /\ \A f \in same : f.at <= bos.at
    BY LastIsLast DEF LatestBos
  <1>3. bos # NULL <=> same # {}
    BY <1>1, <1>2 DEF LatestBos
  <1>4. E # {} => LastEvent(E) \in E /\ \A f \in E : f.at <= LastEvent(E).at
    BY LastIsLast
  <1>5. ASSUME bos # NULL, ~HasChoch(E, d)
        PROVE  LastBreak(E, d)
    <2>1. bos \in same /\ \A f \in same : f.at <= bos.at
      BY <1>2, <1>3, <1>5
    <2>2. LastEvent(E) \in E /\ bos.at <= LastEvent(E).at
      BY <1>4, <2>1
    <2>3. CASE LastEvent(E).at = bos.at
      BY <1>1, <2>1, <2>2, <2>3 DEF LastBreak
    <2>4. CASE LastEvent(E).at > bos.at
      BY <1>5, <2>2, <2>4 DEF HasChoch, LastBreak
    <2> QED
      BY <1>1, <2>1, <2>2, <2>3, <2>4
  <1>6. ASSUME LastBreak(E, d)
        PROVE  /\ bos # NULL
               /\ ~HasChoch(E, d)
               /\ \A f \in E : f.at <= bos.at
    <2>1. LastEvent(E) \in same /\ \A f \in E : f.at <= LastEvent(E).at
      BY <1>4, <1>6 DEF LastBreak
    <2>2. bos \in same /\ LastEvent(E).at <= bos.at
      BY <1>2, <2>1
    <2>3. \A f \in E : f.at <= bos.at
      <3> TAKE f \in E
      <3>1. /\ f.at \in Int /\ LastEvent(E).at \in Int /\ bos.at \in Int
            /\ f.at <= LastEvent(E).at /\ LastEvent(E).at <= bos.at
        BY <1>1, <2>1, <2>2
      <3> HIDE DEF bos
      <3> QED
        BY <3>1
    <2>4. ~HasChoch(E, d)
      BY <1>1, <2>2, <2>3 DEF HasChoch
    <2> QED
      BY <1>3, <2>2, <2>3, <2>4
  <1>7. bos # NULL => bos \in E /\ bos.direction = d
    BY <1>2, <1>3
  <1> HIDE DEF bos, same
  <1> QED
    BY <1>5, <1>6, <1>7 DEF bos

\* evaluate accepts a side exactly when it is a signal in the reference
\* reading, on every snapshot that MarketSnapshot accepts.
LEMMA EligibleIsSignal ==
    ASSUME NEW s, NEW time, IsSnapshot(s, time), NEW d \in Directions
    PROVE  Eligible(s, time, d) <=> Signal(s, time, d)
  <1> DEFINE E == BreakEvents(s[<<Symbol, "1h">>], time)
             F == BreakEvents(s[<<Symbol, "15m">>], time)
             bos == LatestBos(E, d)
             full == \A tf \in Timeframes : s[<<Symbol, tf>>] # <<>>
             unbroken == \A p \in Pairs : Unbroken(s[p], p[2])
             trend == Trend(s[<<Symbol, "4h">>], time)
             after == \E e \in F : e.direction = d /\ \A f \in E : f.at < e.at
  <1>1. <<Symbol, "1h">> \in Pairs /\ <<Symbol, "15m">> \in Pairs
    BY MarketAssumption DEF Pairs
  <1>2. /\ IsSeries(s[<<Symbol, "1h">>], <<Symbol, "1h">>, time)
        /\ IsSeries(s[<<Symbol, "15m">>], <<Symbol, "15m">>, time)
    BY <1>1, SnapshotSeries
  <1>3. full => (unbroken <=> \A tf \in Timeframes : ValidSnapshot(s, tf))
    BY ValidSnapshots
  <1>4. Eligible(s, time, d) <=>
          /\ full
          /\ \A tf \in Timeframes : ValidSnapshot(s, tf)
          /\ trend = d
          /\ bos # NULL
          /\ ~HasChoch(E, d)
          /\ Breakout(F, d, bos)
    <2> HIDE DEF E, F, bos, trend
    <2> QED
      BY DEF Eligible, Reason, E, F, bos, trend
  <1>5. Signal(s, time, d) <=>
          full /\ unbroken /\ trend = d /\ LastBreak(E, d) /\ after
    BY DEF Signal
  <1>6. /\ bos # NULL /\ ~HasChoch(E, d) <=> LastBreak(E, d)
        /\ bos # NULL => bos \in E
        /\ LastBreak(E, d) => \A f \in E : f.at <= bos.at
    BY <1>2, BosWithoutChoch
  <1>7. ASSUME LastBreak(E, d)
        PROVE  Breakout(F, d, bos) <=> after
    <2>1. bos \in E /\ \A f \in E : f.at <= bos.at
      BY <1>6, <1>7
    <2>2. (\A e \in E : e.at \in Int) /\ (\A e \in F : e.at \in Int)
      BY <1>2, EventsOfCandles
    <2> HIDE DEF E, F, bos
    <2>3. \A e \in F : e.at > bos.at <=> \A f \in E : f.at < e.at
      BY <2>1, <2>2
    <2> QED
      BY <2>3 DEF Breakout
  <1> HIDE DEF E, F, bos, full, unbroken, trend, after
  <1> QED
    BY <1>3, <1>4, <1>5, <1>6, <1>7

\* EligibleExactly, for every market.
THEOREM EligibleExactlyHolds == Spec => []EligibleExactly
  <1>1. MarketInv => EligibleExactly
    <2> SUFFICES ASSUME MarketInv PROVE EligibleExactly
      OBVIOUS
    <2>1. \A d \in Directions : Eligible(series, clock, d) <=> Signal(series, clock, d)
      BY EligibleIsSignal DEF MarketInv
    <2>2. \A d \in Directions :
             Eligible(series, clock, d) => Trend(series[<<Symbol, "4h">>], clock) = d
      BY <2>1 DEF Signal
    <2>3. "LONG" \in Directions /\ "SHORT" \in Directions /\ "LONG" # "SHORT"
      BY DEF Directions
    <2> QED
      BY <2>1, <2>2, <2>3 DEF EligibleExactly
  <1> QED
    BY <1>1, MarketInvHolds, PTL

----------------------------------------------------------------------------
(***************************************************************************)
(* A decision outlives the candles that do not concern it.                 *)
(***************************************************************************)
\* Time alone changes nothing: all candles of a snapshot have closed.
LEMMA SettledLater ==
    ASSUME NEW c, NEW p, NEW time \in Int, IsSeries(c, p, time)
    PROVE  /\ \A side : PitSwings(c, side, time + 1) = PitSwings(c, side, time)
           /\ BreakEvents(c, time + 1) = BreakEvents(c, time)
           /\ Trend(c, time + 1) = Trend(c, time)
  <1>1. /\ c \in Seq(Candle)
        /\ \A k \in DOMAIN c : c[k].close_time \in Int /\ c[k].close_time < time
    BY SeriesTypes DEF IsSeries
  <1>2. \A k \in DOMAIN c : c[k].close_time < time + 1
    BY <1>1
  <1>3. ASSUME NEW side
        PROVE  PitSwings(c, side, time + 1) = PitSwings(c, side, time)
    <2>1. \A i \in ConfirmedSwings(c, side) : i + 2 \in DOMAIN c
      BY <1>1 DEF ConfirmedSwings
    <2> QED
      BY <1>1, <1>2, <2>1 DEF PitSwings, ConfirmedAt
  <1>4. {k \in DOMAIN c : c[k].close_time < time + 1}
          = {k \in DOMAIN c : c[k].close_time < time}
    BY <1>1, <1>2
  <1>5. BreakEvents(c, time + 1) = BreakEvents(c, time)
    BY <1>4 DEF BreakEvents
  <1>6. Trend(c, time + 1) = Trend(c, time)
    BY <1>3 DEF Trend
  <1> QED
    BY <1>3, <1>5, <1>6

\* No event is taken back.
LEMMA EventsStay ==
    ASSUME NEW c \in Seq(Candle), NEW time \in Int
    PROVE  BreakEvents(c, time) \subseteq BreakEvents(c, time + 1)
  <1> DEFINE Closed(t) == {k \in DOMAIN c : c[k].close_time < t}
             Up(t) == {k \in Closed(t) : Breaks(c, k, "high")}
             Down(t) == {k \in Closed(t) \ Up(t) : Breaks(c, k, "low")}
  <1>1. \A k \in DOMAIN c : c[k].close_time \in Int
    BY SeriesTypes
  <1>2. Closed(time) \subseteq Closed(time + 1)
    BY <1>1
  <1>3. Up(time) \subseteq Up(time + 1) /\ Down(time) \subseteq Down(time + 1)
    <2> HIDE DEF Closed
    <2> QED
      BY <1>2
  <1>4. \A t : BreakEvents(c, t) =
                 {[at |-> c[k].close_time, direction |-> "LONG"] : k \in Up(t)}
                   \cup {[at |-> c[k].close_time, direction |-> "SHORT"] : k \in Down(t)}
    BY DEF BreakEvents
  <1> HIDE DEF Up, Down
  <1> QED
    BY <1>3, <1>4

\* A tick that appends a candle to no series but the evaluator's 15m one.
LEMMA StaysSignal ==
    ASSUME MarketInv, Tick, NEW d \in Directions, Signal(series, clock, d),
           \A p \in Pairs : p # <<Symbol, "15m">> => series'[p] = series[p],
           Unbroken(series'[<<Symbol, "15m">>], "15m")
    PROVE  Signal(series', clock', d)
  <1> DEFINE p4 == <<Symbol, "4h">>
             p1 == <<Symbol, "1h">>
             p15 == <<Symbol, "15m">>
  <1>1. /\ p4 \in Pairs /\ p1 \in Pairs /\ p15 \in Pairs
        /\ p4 # p15 /\ p1 # p15 /\ p15[2] = "15m"
        /\ \A tf \in Timeframes : <<Symbol, tf>> \in Pairs
    BY MarketAssumption DEF Pairs
  <1>2. clock \in Int /\ clock' = clock + 1 /\ IsSnapshot(series, clock)
    BY DEF MarketInv, Tick
  <1>3. \A p \in Pairs : IsSeries(series[p], p, clock)
    BY <1>2, SnapshotSeries
  <1>4. series'[p4] = series[p4] /\ series'[p1] = series[p1]
    BY <1>1
  <1>5. /\ Trend(series'[p4], clock') = Trend(series[p4], clock)
        /\ BreakEvents(series'[p1], clock') = BreakEvents(series[p1], clock)
    BY <1>1, <1>2, <1>3, <1>4, SettledLater
  <1>6. \/ series'[p15] = series[p15]
        \/ \E x \in Candle : x.close_time = clock /\ series'[p15] = Append(series[p15], x)
    BY <1>1, <1>2, TickAppends
  <1>7. /\ series[p15] \in Seq(Candle) /\ series'[p15] \in Seq(Candle)
        /\ \A k \in DOMAIN series[p15] : series[p15][k].close_time < clock
    BY <1>1, <1>2, <1>3, TickAppends DEF IsSeries
  <1>8. /\ BreakEvents(series'[p15], clock) = BreakEvents(series[p15], clock)
        /\ series'[p15] # <<>>
    <2> DEFINE c == series[p15]
    <2>1. c # <<>>
      BY MarketAssumption DEF Signal
    <2>2. CASE series'[p15] = c
      BY <2>1, <2>2
    <2>3. ASSUME NEW x \in Candle, x.close_time = clock, series'[p15] = Append(c, x)
          PROVE  /\ BreakEvents(series'[p15], clock) = BreakEvents(c, clock)
                 /\ series'[p15] # <<>>
      <3>1. ~(x.close_time < clock) /\ \A k \in DOMAIN c : c[k].close_time < x.close_time
        <4>1. ~(clock < clock)
          BY <1>2
        <4>2. \A k \in DOMAIN c : c[k].close_time < clock
          BY <1>7
        <4> HIDE DEF c
        <4> QED
          BY <2>3, <4>1, <4>2
      <3>2. c \in Seq(Candle)
        BY <1>7
      <3> HIDE DEF c
      <3>3. BreakEvents(Append(c, x), clock) = BreakEvents(c, clock)
        BY <1>2, <3>1, <3>2, EventsKept
      <3>4. Append(c, x) # <<>>
        <4>1. Len(Append(c, x)) = Len(c) + 1 /\ Len(c) \in Nat
          BY <3>2
        <4>2. Len(Append(c, x)) # 0 /\ Len(<<>>) = 0
          BY <4>1
        <4> QED
          BY <4>2
      <3> QED
        BY <2>3, <3>3, <3>4
    <2> QED
      BY <1>6, <2>2, <2>3
  <1>9. BreakEvents(series[p15], clock) \subseteq BreakEvents(series'[p15], clock')
    BY <1>2, <1>7, <1>8, EventsStay
  <1>10. ASSUME NEW tf \in Timeframes
         PROVE  series'[<<Symbol, tf>>] # <<>>
    <2>1. series[<<Symbol, tf>>] # <<>>
      BY DEF Signal
    <2>2. CASE tf = "15m"
      BY <1>8, <2>2
    <2>3. CASE tf # "15m"
      BY <1>1, <2>1, <2>3
    <2> QED
      BY <2>2, <2>3
  <1>11. ASSUME NEW p \in Pairs
         PROVE  Unbroken(series'[p], p[2])
    <2>1. Unbroken(series[p], p[2])
      BY DEF Signal
    <2> QED
      BY <1>1, <2>1
  <1>12. \E e \in BreakEvents(series[p15], clock) :
            /\ e.direction = d
            /\ \A f \in BreakEvents(series[p1], clock) : f.at < e.at
    BY DEF Signal
  <1>13. \E e \in BreakEvents(series'[p15], clock') :
            /\ e.direction = d
            /\ \A f \in BreakEvents(series'[p1], clock') : f.at < e.at
    BY <1>5, <1>9, <1>12
  <1>14. /\ Trend(series[p4], clock) = d
         /\ LastBreak(BreakEvents(series[p1], clock), d)
    BY DEF Signal
  <1> QED
    BY <1>5, <1>10, <1>11, <1>13, <1>14 DEF Signal

\* StaysEligible, for every market.
THEOREM StaysEligibleHolds == Spec => StaysEligible
  <1>1. MarketInv /\ MarketInv' /\ [Next]_vars => StaysEligibleStep
    <2> SUFFICES ASSUME MarketInv, MarketInv', [Next]_vars,
                        NEW d \in Directions,
                        Eligible(series, clock, d),
                        \A p \in Pairs : p # <<Symbol, "15m">> => series'[p] = series[p],
                        Unbroken(series'[<<Symbol, "15m">>], "15m")
                 PROVE  Eligible(series', clock', d)
      BY DEF StaysEligibleStep
    <2>1. CASE Tick
      <3>1. Signal(series, clock, d)
        BY EligibleIsSignal DEF MarketInv
      <3>2. Signal(series', clock', d)
        BY <2>1, <3>1, StaysSignal
      <3> QED
        BY <3>2, EligibleIsSignal DEF MarketInv
    <2>2. CASE UNCHANGED <<series, clock>>
      BY <2>2
    <2> QED
      BY <2>1, <2>2 DEF Next, Evaluate, vars
  <1> QED
    BY <1>1, MarketInvHolds, PTL DEF Spec, StaysEligible
=============================================================================
