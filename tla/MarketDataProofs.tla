-------------------------- MODULE MarketDataProofs --------------------------
(***************************************************************************)
(* Proofs about MarketData, for every set of threads, requests and         *)
(* candles, and about the alignment of series of any length.               *)
(***************************************************************************)
EXTENDS MarketData, DataTheorems, TLAPS

\* An answer is what is registered for its request: registering is the only
\* step that could change it, and it only fills an empty place.
AnswerInv ==
    /\ snapshots = [r \in Requests |-> snapshots[r]]
    /\ \A a \in answered :
          /\ a.request \in Requests
          /\ a.snapshot # NULL
          /\ a.snapshot = snapshots[a.request]

LEMMA AnswerInit == MarketInit => AnswerInv
  BY DEF MarketInit, AnswerInv

LEMMA AnswerKept ==
  ASSUME AnswerInv, UNCHANGED <<snapshots, answered>>
  PROVE  AnswerInv'
  BY DEF AnswerInv

\* A thread that comes second registers nothing new.
LEMMA StoreFillsEmpty ==
  ASSUME AnswerInv, NEW t \in Threads, Store(t)
  PROVE  AnswerInv'
<1> DEFINE r == call[t].request
           s == call[t].snapshot
<1>1. answered' = answered
  BY DEF Store
<1>2. CASE Registrable(r, s)
  <2>1. snapshots' = [snapshots EXCEPT ![r] = s]
    BY <1>2 DEF Store
  <2>2. snapshots' = [q \in Requests |-> snapshots'[q]]
    BY <2>1 DEF AnswerInv
  <2>3. ASSUME NEW a \in answered
        PROVE  a.snapshot = snapshots'[a.request]
    <3>1. a.request \in Requests /\ a.snapshot # NULL /\ a.snapshot = snapshots[a.request]
      BY DEF AnswerInv
    <3>2. CASE a.request = r
      BY <1>2, <2>1, <3>1, <3>2 DEF Registrable, AnswerInv
    <3>3. CASE a.request # r
      BY <2>1, <3>1, <3>3 DEF AnswerInv
    <3> QED
      BY <3>2, <3>3
  <2> QED
    BY <1>1, <2>2, <2>3 DEF AnswerInv
<1>3. CASE ~Registrable(r, s)
  BY <1>1, <1>3, AnswerKept DEF Store
<1> QED
  BY <1>2, <1>3

LEMMA IngestAnswers ==
  ASSUME AnswerInv, NEW r \in Requests, Ingest(r)
  PROVE  AnswerInv'
  BY DEF AnswerInv, Ingest

LEMMA AnswerStep == AnswerInv /\ [MarketNext]_marketVars => AnswerInv'
<1> SUFFICES ASSUME AnswerInv, [MarketNext]_marketVars PROVE AnswerInv'
  OBVIOUS
<1>1. CASE \/ \E k \in Candle : Assemble(k)
           \/ \E s \in Snapshots : \E t \in Threads, r \in Requests : Register(t, r, s)
           \/ UNCHANGED marketVars
  BY <1>1, AnswerKept DEF Assemble, Register, marketVars
<1>2. CASE \E t \in Threads : Store(t)
  BY <1>2, StoreFillsEmpty
<1>3. CASE \E r \in Requests : Ingest(r)
  BY <1>3, IngestAnswers
<1> QED
  BY <1>1, <1>2, <1>3 DEF MarketNext

\* Whatever the threads of InMemoryMarketDataSource register in whatever
\* order, two answers to one request are the same snapshot.
THEOREM AnswersAlwaysAgree == MarketSpec => []AnswersAgree
<1>1. AnswerInv => AnswersAgree
  BY DEF AnswerInv, AnswersAgree
<1> QED
  BY <1>1, AnswerInit, AnswerStep, PTL DEF MarketSpec

(***************************************************************************)
(* A series that passes the checks.                                        *)
(***************************************************************************)
LEMMA SeriesTypes ==
  ASSUME NEW c \in Seq(Candle)
  PROVE  /\ Len(c) \in Nat /\ DOMAIN c = 1..Len(c)
         /\ \A i \in DOMAIN c :
               /\ c[i] \in Candle /\ c[i].timeframe \in Timeframes
               /\ c[i].open_time \in Int /\ c[i].close_time \in Int
               /\ c[i].open_time < c[i].close_time
         /\ c # <<>> <=> 1 \in DOMAIN c
<1>1. \A i \in DOMAIN c : c[i] \in Candle
  OBVIOUS
<1>2. Len(c) \in Nat /\ DOMAIN c = 1..Len(c) /\ (c # <<>> <=> 1 \in DOMAIN c)
  OBVIOUS
<1> QED
  BY <1>1, <1>2, AlignmentAssumption DEF Candle

LEMMA TimeframeLength == Duration[Timeframe] \in Nat \ {0}
BY AlignmentAssumption, DurationAssumption

\* Each candle of a valid series closes before the later ones.
LEMMA ClosesAscend ==
  ASSUME NEW c \in Seq(Candle), ValidSeries(c, Timeframe),
         NEW i \in DOMAIN c, NEW j \in DOMAIN c, i < j
  PROVE  c[i].close_time < c[j].close_time
<1>1. i \in 1..(Len(c) - 1) /\ i + 1 \in DOMAIN c /\ i + 1 <= j
  BY SeriesTypes
<1>2. c[i + 1].open_time = c[i].close_time
  BY <1>1 DEF ValidSeries, Contiguous
<1>3. i + 1 = j \/ c[i + 1].open_time <= c[j].open_time
  BY <1>1, SeriesTypes DEF ValidSeries, Ordered
<1>4. /\ c[j].open_time < c[j].close_time
      /\ c[i].close_time \in Int /\ c[j].open_time \in Int /\ c[j].close_time \in Int
  BY SeriesTypes
<1> QED
  BY <1>2, <1>3, <1>4

\* The candles that have closed by a time are the first ones of a valid
\* series, and the last of them is the only latest.
LEMMA LatestClosed ==
  ASSUME NEW c \in Seq(Candle), ValidSeries(c, Timeframe), NEW time \in Int,
         SelectClosed(c, time) # {}
  PROVE  \E m \in SelectClosed(c, time) :
            /\ \A i \in SelectClosed(c, time) : i <= m
            /\ {i \in SelectClosed(c, time) :
                  \A j \in SelectClosed(c, time) : c[j].close_time <= c[i].close_time}
                 = {m}
<1> DEFINE closed == SelectClosed(c, time)
<1>1. closed \in SUBSET (1..Len(c)) /\ Len(c) \in Nat
  BY SeriesTypes DEF SelectClosed
<1>2. PICK m \in closed : \A i \in closed : i <= m
  <2> HIDE DEF closed
  <2> QED
    BY <1>1, Greatest DEF closed
<1>3. ASSUME NEW i \in closed, i # m
      PROVE  c[i].close_time < c[m].close_time
  BY <1>1, <1>2, <1>3, SeriesTypes, ClosesAscend
<1>4. \A i \in closed : c[i].close_time \in Int
  BY <1>1, SeriesTypes
<1> HIDE DEF closed
<1>5. {i \in closed : \A j \in closed : c[j].close_time <= c[i].close_time} = {m}
  BY <1>2, <1>3, <1>4
<1> QED
  BY <1>2, <1>5 DEF closed

\* What align_latest_closed_candle answers, by cases.
LEMMA AlignCases ==
  ASSUME NEW c \in Seq(Candle), NEW time \in Int, NEW anchor
  PROVE  /\ ~ValidSeries(c, Timeframe) => Align(c, time, anchor) = Blocked("INVALID_SERIES")
         /\ ValidSeries(c, Timeframe) =>
             /\ (\E i \in DOMAIN c : ~Contains(c[i], anchor)) =>
                   Align(c, time, anchor) = Blocked("CANDLE_BOUNDARY_MISMATCH")
             /\ (\A i \in DOMAIN c : Contains(c[i], anchor)) =>
                  IF SelectClosed(c, time) = {}
                  THEN Align(c, time, anchor) = Blocked("NO_CLOSED_CANDLE")
                  ELSE \E m \in SelectClosed(c, time) :
                          /\ \A i \in SelectClosed(c, time) : i <= m
                          /\ Align(c, time, anchor) = [candle |-> c[m], reason |-> NULL]
<1> DEFINE closed == SelectClosed(c, time)
           latest == {i \in closed : \A j \in closed : c[j].close_time <= c[i].close_time}
           grid == \A i \in DOMAIN c : Contains(c[i], anchor)
           valid == ValidSeries(c, Timeframe)
<1>1. Align(c, time, anchor) =
        CASE ~valid -> Blocked("INVALID_SERIES")
          [] valid /\ ~grid -> Blocked("CANDLE_BOUNDARY_MISMATCH")
          [] OTHER -> CASE closed = {} -> Blocked("NO_CLOSED_CANDLE")
                        [] Cardinality(latest) = 1 ->
                             [candle |-> c[CHOOSE i \in latest : TRUE], reason |-> NULL]
                        [] OTHER -> Blocked("AMBIGUOUS_CANDLE_ALIGNMENT")
  BY DEF Align
<1>2. ASSUME valid, closed # {}
      PROVE  \E m \in closed : /\ \A i \in closed : i <= m
                               /\ latest = {m} /\ Cardinality(latest) = 1
                               /\ (CHOOSE i \in latest : TRUE) = m
  <2>1. PICK m \in closed : (\A i \in closed : i <= m) /\ latest = {m}
    BY <1>2, LatestClosed
  <2>2. Cardinality({m}) = 1
    BY FS_Singleton
  <2> HIDE DEF latest, closed
  <2> QED
    BY <2>1, <2>2
<1> HIDE DEF closed, latest, grid, valid
<1>3. ASSUME valid, grid, closed # {}
      PROVE  \E m \in closed : /\ \A i \in closed : i <= m
                               /\ Align(c, time, anchor) = [candle |-> c[m], reason |-> NULL]
  <2>1. PICK m \in closed : /\ \A i \in closed : i <= m
                            /\ Cardinality(latest) = 1
                            /\ (CHOOSE i \in latest : TRUE) = m
    BY <1>2, <1>3
  <2>2. Align(c, time, anchor) = [candle |-> c[CHOOSE i \in latest : TRUE], reason |-> NULL]
    BY <1>1, <1>3, <2>1
  <2> QED
    BY <2>1, <2>2
<1>4. ASSUME ~valid
      PROVE  Align(c, time, anchor) = Blocked("INVALID_SERIES")
  BY <1>1, <1>4
<1>5. ASSUME valid, ~grid
      PROVE  Align(c, time, anchor) = Blocked("CANDLE_BOUNDARY_MISMATCH")
  BY <1>1, <1>5
<1>6. ASSUME valid, grid, closed = {}
      PROVE  Align(c, time, anchor) = Blocked("NO_CLOSED_CANDLE")
  <2>1. latest = {} /\ Cardinality({}) = 0
    BY <1>6, FS_EmptySet DEF latest
  <2> QED
    BY <1>1, <1>6, <2>1
<1> QED
  BY <1>3, <1>4, <1>5, <1>6 DEF closed, grid, valid

\* The grid of the reference passes the five checks and the boundary check.
LEMMA TilesPass ==
  ASSUME NEW c \in Seq(Candle), NEW anchor \in Int, Tiles(c, anchor)
  PROVE  ValidSeries(c, Timeframe) /\ \A i \in DOMAIN c : Contains(c[i], anchor)
<1> DEFINE n == Len(c)
           open(i) == c[i].open_time
           close(i) == c[i].close_time
<1>1. PICK D \in Nat \ {0} : D \in Int /\ D = Duration[Timeframe]
  BY TimeframeLength
<1>2. /\ n \in Nat /\ DOMAIN c = 1..n /\ 1 \in 1..n
      /\ \A i \in 1..n : open(i) \in Int /\ close(i) \in Int
  BY SeriesTypes DEF Tiles
<1>3. PICK first \in 0..(open(1) - anchor) : \A i \in 1..n :
         /\ c[i].timeframe = Timeframe
         /\ open(i) = anchor + (first + i - 1) * D
         /\ close(i) = anchor + (first + i - 1) * D + D
  BY <1>1, <1>2 DEF Tiles
<1> DEFINE g(i) == (first + i - 1) * D
<1>4. first \in Nat
  BY <1>2
<1>5. ASSUME NEW i \in 1..n
      PROVE  /\ g(i) \in Int /\ g(i) >= 0 /\ g(i) % D = 0
             /\ open(i) = anchor + g(i) /\ close(i) = open(i) + D
  <2>1. first + i - 1 \in Int /\ first + i - 1 >= 0
    BY <1>4
  <2>2. g(i) \in Int /\ g(i) >= first + i - 1 /\ g(i) % D = 0
    BY <1>1, <2>1, Multiples
  <2>3. open(i) = anchor + g(i) /\ close(i) = anchor + g(i) + D
    BY <1>3
  <2> HIDE DEF g, open, close
  <2> QED
    BY <1>1, <2>1, <2>2, <2>3
<1>6. ASSUME NEW i \in 1..n, NEW j \in 1..n, i < j
      PROVE  g(i) + D <= g(j)
  <2> DEFINE x == first + i - 1
             y == first + j - 1
  <2>1. x \in Int /\ y \in Int /\ x < y
    BY <1>4, <1>6
  <2> HIDE DEF x, y
  <2>2. x * D + D <= y * D
    BY <1>1, <2>1, Multiples
  <2> QED
    BY <2>2 DEF x, y
<1>7. ASSUME NEW i \in 1..(n - 1)
      PROVE  g(i + 1) = g(i) + D
  <2> DEFINE x == first + i - 1
  <2>1. x \in Int /\ first + (i + 1) - 1 = x + 1
    BY <1>4
  <2>2. g(i + 1) = (x + 1) * D
    BY <2>1
  <2> HIDE DEF x
  <2>3. (x + 1) * D = x * D + D
    BY <1>1, <2>1, NextMultiple
  <2> QED
    BY <2>2, <2>3 DEF x
<1> HIDE DEF g, n
<1>8. ASSUME NEW i \in 1..n, NEW j \in 1..n, i < j
      PROVE  open(i) < open(j)
  <2>1. /\ open(i) = anchor + g(i) /\ open(j) = anchor + g(j) /\ g(i) + D <= g(j)
        /\ g(i) \in Int /\ g(j) \in Int
    BY <1>5, <1>6, <1>8
  <2> HIDE DEF open
  <2> QED
    BY <1>1, <2>1
<1>9. ASSUME NEW i \in 1..(n - 1)
      PROVE  open(i + 1) = close(i)
  <2>1. i \in 1..n /\ i + 1 \in 1..n
    BY <1>2
  <2>2. /\ open(i) = anchor + g(i) /\ open(i + 1) = anchor + g(i + 1)
        /\ close(i) = open(i) + D /\ g(i + 1) = g(i) + D /\ g(i) \in Int
    BY <1>5, <1>7, <2>1
  <2> HIDE DEF open, close
  <2> QED
    BY <1>1, <2>2
<1>10. ASSUME NEW i \in 1..n
       PROVE  /\ close(i) - open(i) = D
              /\ open(i) >= anchor /\ (open(i) - anchor) % D = 0
  <2>1. /\ open(i) = anchor + g(i) /\ close(i) = open(i) + D
        /\ g(i) \in Int /\ g(i) >= 0 /\ g(i) % D = 0
    BY <1>5
  <2> HIDE DEF open, close
  <2>2. open(i) - anchor = g(i)
    BY <2>1
  <2> QED
    BY <1>1, <2>1, <2>2
<1>11. Ordered(c) /\ ~HasDuplicate(c)
  <2>1. \A i, j \in 1..n : i # j => i < j \/ j < i
    BY <1>2
  <2>2. Ordered(c)
    BY <1>2, <1>8 DEF Ordered
  <2>3. ~HasDuplicate(c)
    BY <1>2, <1>8, <2>1 DEF HasDuplicate
  <2> QED
    BY <2>2, <2>3
<1>12. ~WrongDuration(c, Timeframe) /\ Contiguous(c)
  BY <1>1, <1>2, <1>9, <1>10 DEF WrongDuration, Contiguous, n
<1>13. /\ c # <<>> /\ \A i \in DOMAIN c : c[i].timeframe = Timeframe
       /\ \A i \in DOMAIN c : Contains(c[i], anchor)
  BY <1>1, <1>2, <1>3, <1>10 DEF Contains, Tiles
<1> QED
  BY <1>11, <1>12, <1>13, AlignmentAssumption DEF ValidSeries

\* And nothing else does.
LEMMA PassTiles ==
  ASSUME NEW c \in Seq(Candle), NEW anchor \in Int, ValidSeries(c, Timeframe),
         \A i \in DOMAIN c : Contains(c[i], anchor)
  PROVE  Tiles(c, anchor)
<1> DEFINE n == Len(c)
           open(i) == c[i].open_time
           close(i) == c[i].close_time
           f == [i \in 1..n |-> c[i].open_time]
<1>1. PICK D \in Nat \ {0} : D \in Int /\ D = Duration[Timeframe]
  BY TimeframeLength
<1>2. /\ n \in Nat /\ DOMAIN c = 1..n /\ 1 \in 1..n /\ c # <<>>
      /\ \A i \in 1..n : open(i) \in Int /\ close(i) \in Int
      /\ \A i \in 1..n : c[i].timeframe = Timeframe
  BY SeriesTypes DEF ValidSeries
<1>3. \A i \in 1..n : close(i) - open(i) = D
  BY <1>1, <1>2 DEF ValidSeries, WrongDuration
<1>4. \A i \in 1..(n - 1) : open(i + 1) = close(i)
  BY DEF ValidSeries, Contiguous
<1>5. /\ open(1) - anchor \in Nat
      /\ (open(1) - anchor) % D = 0
  <2>1. Contains(c[1], anchor)
    BY <1>2
  <2>2. open(1) >= anchor /\ (open(1) - anchor) % D = 0
    BY <1>1, <2>1 DEF Contains
  <2> QED
    BY <1>2, <2>2
<1>6. PICK first \in 0..(open(1) - anchor) : open(1) - anchor = first * D
  <2> HIDE DEF open
  <2> QED
    BY <1>1, <1>5, Quotient
<1> HIDE DEF n
<1>7. f \in [1..n -> Int] /\ \A i \in 1..(n - 1) : f[i + 1] = f[i] + D
  <2>1. f \in [1..n -> Int]
    BY <1>2
  <2>2. ASSUME NEW i \in 1..(n - 1)
        PROVE  f[i + 1] = f[i] + D
    <3>1. i \in 1..n /\ i + 1 \in 1..n
      BY <1>2
    <3>2. f[i] = open(i) /\ f[i + 1] = open(i + 1)
      BY <3>1
    <3>3. /\ close(i) - open(i) = D /\ open(i + 1) = close(i)
          /\ open(i) \in Int /\ close(i) \in Int
      BY <1>2, <1>3, <1>4, <3>1
    <3> HIDE DEF f, open, close
    <3> QED
      BY <1>1, <3>2, <3>3
  <2> QED
    BY <2>1, <2>2
<1>8. \A i \in 1..n : f[i] = f[1] + (i - 1) * D
  <2> HIDE DEF f
  <2> QED
    BY <1>1, <1>2, <1>7, Progression
<1>9. ASSUME NEW i \in 1..n
      PROVE  /\ open(i) = anchor + (first + i - 1) * D
             /\ close(i) = anchor + (first + i - 1) * D + D
  <2> DEFINE x == i - 1
  <2>1. /\ x \in Int /\ first \in Int /\ first + i - 1 = first + x
        /\ open(1) \in Int /\ close(i) \in Int /\ open(i) \in Int
    BY <1>2
  <2>2. open(i) = open(1) + x * D
    BY <1>2, <1>8
  <2> HIDE DEF x
  <2>3. (first + x) * D = first * D + x * D /\ first * D \in Int /\ x * D \in Int
    BY <1>1, <2>1, Multiples
  <2> DEFINE a == first * D
             b == x * D
  <2>4. /\ open(1) - anchor = a /\ open(i) = open(1) + b /\ close(i) - open(i) = D
        /\ a \in Int /\ b \in Int
    BY <1>3, <1>6, <2>1, <2>2, <2>3
  <2> DEFINE m == (first + i - 1) * D
  <2>5. m = a + b
    BY <2>1, <2>3
  <2> HIDE DEF a, b, m, open, close
  <2>6. open(i) = anchor + m /\ close(i) = anchor + m + D
    BY <1>1, <2>1, <2>4, <2>5
  <2> QED
    BY <2>6 DEF m
<1> QED
  BY <1>1, <1>2, <1>6, <1>9 DEF Tiles

(***************************************************************************)
(* What is aligned.                                                        *)
(***************************************************************************)
\* Everything on its way is made of candles, and an answer has passed
\* validate_snapshot.
SeriesInv ==
    /\ candles \in Seq(Candle)
    /\ call = [t \in Threads |-> call[t]]
    /\ snapshots = [r \in Requests |-> snapshots[r]]
    /\ \A t \in Threads : call[t] # NULL => call[t].snapshot.candles \in Seq(Candle)
    /\ \A r \in Requests : snapshots[r] # NULL => snapshots[r].candles \in Seq(Candle)
    /\ \A a \in answered :
          /\ a.request \in Requests
          /\ a.snapshot.candles \in Seq(Candle)
          /\ ValidSnapshot(a.request, a.snapshot)

LEMMA SeriesInit == MarketInit => SeriesInv
  BY DEF MarketInit, Init, SeriesInv

LEMMA SeriesStep == SeriesInv /\ [MarketNext]_marketVars => SeriesInv'
<1> SUFFICES ASSUME SeriesInv, [MarketNext]_marketVars PROVE SeriesInv'
  OBVIOUS
<1> USE DEF SeriesInv
<1>1. ASSUME NEW k \in Candle, Assemble(k)
      PROVE  SeriesInv'
  <2>1. candles' = Append(candles, k) /\ UNCHANGED <<snapshots, call, answered>>
    BY <1>1 DEF Assemble, AddCandle
  <2>2. candles' \in Seq(Candle)
    BY <2>1
  <2> QED
    BY <2>1, <2>2 DEF ValidSnapshot, Pairs, AvailableAt
<1>2. ASSUME NEW s \in Snapshots, NEW t \in Threads, NEW r \in Requests, Register(t, r, s)
      PROVE  SeriesInv'
  <2>1. s.candles = candles
    BY DEF Snapshots
  <2>2. /\ call' = [call EXCEPT ![t] = [request |-> r, snapshot |-> s]]
        /\ UNCHANGED <<candles, snapshots, answered>>
    BY <1>2 DEF Register
  <2>3. \A u \in Threads : call'[u] # NULL => call'[u].snapshot.candles \in Seq(Candle)
    BY <2>1, <2>2
  <2>4. call' = [u \in Threads |-> call'[u]]
    BY <2>2
  <2> QED
    BY <2>2, <2>3, <2>4
<1>3. ASSUME NEW t \in Threads, Store(t)
      PROVE  SeriesInv'
  <2> DEFINE r == call[t].request
             s == call[t].snapshot
  <2>1. /\ s.candles \in Seq(Candle)
        /\ snapshots' = [snapshots EXCEPT ![r] = s] \/ snapshots' = snapshots
        /\ call' = [call EXCEPT ![t] = NULL]
        /\ UNCHANGED <<candles, answered>>
    BY <1>3 DEF Store
  <2> HIDE DEF r, s
  <2>2. /\ snapshots' = [q \in Requests |-> snapshots'[q]]
        /\ \A q \in Requests : snapshots'[q] = s \/ snapshots'[q] = snapshots[q]
    BY <2>1
  <2>3. /\ call' = [u \in Threads |-> call'[u]]
        /\ \A u \in Threads : call'[u] = NULL \/ call'[u] = call[u]
    BY <2>1
  <2>4. \A q \in Requests : snapshots'[q] # NULL => snapshots'[q].candles \in Seq(Candle)
    BY <2>1, <2>2
  <2>5. \A u \in Threads : call'[u] # NULL => call'[u].snapshot.candles \in Seq(Candle)
    BY <2>3
  <2> QED
    BY <2>1, <2>2, <2>3, <2>4, <2>5
<1>4. ASSUME NEW r \in Requests, Ingest(r)
      PROVE  SeriesInv'
  <2>1. /\ snapshots[r] # NULL /\ ValidSnapshot(r, snapshots[r])
        /\ answered' = answered \cup {[request |-> r, snapshot |-> snapshots[r]]}
        /\ UNCHANGED <<candles, snapshots, call>>
    BY <1>4 DEF Ingest
  <2>2. \A a \in answered' : /\ a.request \in Requests
                             /\ a.snapshot.candles \in Seq(Candle)
                             /\ ValidSnapshot(a.request, a.snapshot)
    BY <2>1
  <2> QED
    BY <2>1, <2>2
<1>5. CASE UNCHANGED marketVars
  BY <1>5 DEF marketVars
<1> QED
  BY <1>1, <1>2, <1>3, <1>4, <1>5 DEF MarketNext

LEMMA SeriesInvHolds == MarketSpec => []SeriesInv
  BY SeriesInit, SeriesStep, PTL DEF MarketSpec

\* align_latest_closed_candle against the reference, for every series.
LEMMA AlignExact ==
  ASSUME NEW c \in Seq(Candle), NEW time \in Int, NEW anchor \in Int,
         NEW answer, answer = Align(c, time, anchor)
  PROVE  IF Tiles(c, anchor) /\ c[1].close_time < time
         THEN answer.candle # NULL /\ IsLatestClosed(answer.candle, c, time)
         ELSE answer.candle = NULL /\ answer.reason # "AMBIGUOUS_CANDLE_ALIGNMENT"
<1>1. CASE Tiles(c, anchor)
  <2>1. ValidSeries(c, Timeframe) /\ \A i \in DOMAIN c : Contains(c[i], anchor)
    BY <1>1, TilesPass
  <2>2. /\ Len(c) \in Nat /\ DOMAIN c = 1..Len(c) /\ 1 \in DOMAIN c
        /\ \A i \in DOMAIN c : c[i] \in Candle /\ c[i].close_time \in Int
    BY <1>1, SeriesTypes DEF Tiles
  <2>3. CASE c[1].close_time < time
    <3>1. 1 \in SelectClosed(c, time)
      BY <2>2, <2>3 DEF SelectClosed
    <3>2. PICK m \in SelectClosed(c, time) :
             /\ \A i \in SelectClosed(c, time) : i <= m
             /\ answer = [candle |-> c[m], reason |-> NULL]
      BY <2>1, <3>1, AlignCases
    <3>3. m \in DOMAIN c /\ c[m].close_time < time
      BY DEF SelectClosed
    <3>4. m < Len(c) => c[m + 1].close_time >= time
      <4>1. SUFFICES ASSUME m < Len(c), ~(c[m + 1].close_time >= time) PROVE FALSE
        OBVIOUS
      <4>2. m + 1 \in DOMAIN c /\ ~(m + 1 <= m)
        BY <2>2, <3>3, <4>1
      <4>3. m + 1 \in SelectClosed(c, time)
        BY <2>2, <4>1, <4>2 DEF SelectClosed
      <4> QED
        BY <3>2, <4>2, <4>3
    <3>5. answer.candle = c[m] /\ c[m] # NULL
      BY <2>2, <3>2, <3>3, AlignmentAssumption
    <3> QED
      BY <1>1, <2>3, <3>3, <3>4, <3>5 DEF IsLatestClosed
  <2>4. CASE ~(c[1].close_time < time)
    <3>1. SelectClosed(c, time) = {}
      <4>1. SUFFICES ASSUME NEW i \in SelectClosed(c, time) PROVE FALSE
        OBVIOUS
      <4>2. i \in DOMAIN c /\ c[i].close_time < time
        BY DEF SelectClosed
      <4>3. i = 1 \/ c[1].close_time < c[i].close_time
        BY <2>1, <2>2, <4>2, ClosesAscend
      <4> QED
        BY <2>2, <2>4, <4>2, <4>3
    <3>2. answer = Blocked("NO_CLOSED_CANDLE")
      BY <2>1, <3>1, AlignCases
    <3> QED
      BY <2>4, <3>2 DEF Blocked
  <2> QED
    BY <2>3, <2>4
<1>2. CASE ~Tiles(c, anchor)
  <2>1. \/ ~ValidSeries(c, Timeframe)
        \/ ValidSeries(c, Timeframe) /\ \E i \in DOMAIN c : ~Contains(c[i], anchor)
    BY <1>2, PassTiles
  <2>2. answer \in {Blocked("INVALID_SERIES"), Blocked("CANDLE_BOUNDARY_MISMATCH")}
    BY <2>1, AlignCases
  <2> QED
    BY <1>2, <2>2 DEF Blocked
<1> QED
  BY <1>1, <1>2

\* AlignmentExact, for series of any length and any times.
THEOREM AlignmentAlwaysExact == MarketSpec => []AlignmentExact
<1>1. SeriesInv => AlignmentExact
  BY AlignExact, AlignmentAssumption DEF SeriesInv, AlignmentExact
<1> QED
  BY <1>1, SeriesInvHolds, PTL

\* The candles of a requested pair in a snapshot that passed the checks.
LEMMA RequestedCandles ==
  ASSUME NEW r \in Requests, NEW s, s.candles \in Seq(Candle), ValidSnapshot(r, s),
         NEW symbol \in r.symbols, NEW tf \in r.timeframes
  PROVE  /\ CandlesFor(s, symbol, tf) \in Seq(Candle)
         /\ CandlesFor(s, symbol, tf) # <<>>
         /\ \A i \in DOMAIN CandlesFor(s, symbol, tf) :
               CandlesFor(s, symbol, tf)[i].close_time < r.reference_time
<1> DEFINE kept == {i \in DOMAIN s.candles :
                       s.candles[i].symbol = symbol /\ s.candles[i].timeframe = tf}
           c == CandlesFor(s, symbol, tf)
<1>1. c = Selected(s.candles, kept)
  BY DEF CandlesFor
<1>2. kept \in SUBSET DOMAIN s.candles
  OBVIOUS
<1>3. kept # {}
  <2>1. <<symbol, tf>> \in Pairs(s)
    BY DEF ValidSnapshot
  <2> QED
    BY <2>1 DEF Pairs
<1>4. \A k \in kept : s.candles[k].close_time < r.reference_time
  BY DEF ValidSnapshot, AvailableAt
<1> HIDE DEF kept, c
<1>5. c \in Seq(Candle) /\ {c[i] : i \in DOMAIN c} = {s.candles[k] : k \in kept}
  <2> DEFINE rows == s.candles
  <2>1. rows \in Seq(Candle) /\ kept \in SUBSET DOMAIN rows
    BY <1>2
  <2> HIDE DEF rows
  <2>2. /\ Selected(rows, kept) \in Seq(Candle)
        /\ {Selected(rows, kept)[i] : i \in DOMAIN Selected(rows, kept)}
             = {rows[k] : k \in kept}
    BY <2>1, SelectedRows
  <2> QED
    BY <1>1, <2>2 DEF rows
<1>6. \A i \in DOMAIN c : c[i].close_time < r.reference_time
  BY <1>4, <1>5
<1>7. c # <<>>
  <2>1. {c[i] : i \in DOMAIN c} # {}
    BY <1>3, <1>5
  <2> QED
    BY <2>1
<1> QED
  BY <1>5, <1>6, <1>7 DEF c

\* AlignedIsLast, for any candles, requests and threads.
THEOREM AlwaysAlignedIsLast == MarketSpec => []AlignedIsLast
<1>1. SeriesInv => AlignedIsLast
  <2> SUFFICES ASSUME SeriesInv, NEW a \in answered, NEW symbol \in a.request.symbols,
                      NEW anchor \in Instants, Timeframe \in a.request.timeframes,
                      NEW c, c = CandlesFor(a.snapshot, symbol, Timeframe),
                      NEW answer, answer = Align(c, a.request.reference_time, anchor),
                      answer.reason \notin {"INVALID_SERIES", "CANDLE_BOUNDARY_MISMATCH"}
               PROVE  answer.candle = c[Len(c)]
    BY DEF AlignedIsLast
  <2>1. PICK time \in Int : time = a.request.reference_time
    BY MarketAssumption, AlignmentAssumption DEF SeriesInv
  <2>2. c \in Seq(Candle) /\ c # <<>> /\ \A i \in DOMAIN c : c[i].close_time < time
    BY <2>1, RequestedCandles DEF SeriesInv
  <2>3. Len(c) \in DOMAIN c /\ \A i \in DOMAIN c : i <= Len(c)
    BY <2>2
  <2>4. SelectClosed(c, time) = DOMAIN c
    BY <2>2 DEF SelectClosed
  <2>5. ValidSeries(c, Timeframe) /\ \A i \in DOMAIN c : Contains(c[i], anchor)
    BY <2>1, <2>2, AlignCases DEF Blocked
  <2>6. PICK m \in SelectClosed(c, time) :
           /\ \A i \in SelectClosed(c, time) : i <= m
           /\ answer = [candle |-> c[m], reason |-> NULL]
    <3>1. SelectClosed(c, time) # {}
      BY <2>3, <2>4
    <3>2. answer = Align(c, time, anchor)
      BY <2>1
    <3> QED
      BY <2>2, <2>5, <3>1, <3>2, AlignCases
  <2>7. m = Len(c)
    BY <2>2, <2>3, <2>4, <2>6
  <2> QED
    BY <2>6, <2>7
<1> QED
  BY <1>1, SeriesInvHolds, PTL
=============================================================================
