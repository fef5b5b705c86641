----------------------------- MODULE MarketData -----------------------------
(***************************************************************************)
(* Market snapshots on their way to a decision (src/src/tabdeal_signal/    *)
(* data/): a caller puts candles together, threads register snapshots of   *)
(* them in one InMemoryMarketDataSource and ingest what it answers; the    *)
(* candles of an ingested snapshot go to align_latest_closed_candle.       *)
(*                                                                         *)
(* What a snapshot holds besides its reference time and the times of its   *)
(* candles, its id and prices, is abstracted to a content.                 *)
(***************************************************************************)
EXTENDS CandleAlignment, RowSequences

CONSTANTS
    Threads,
    Requests,        \* the SnapshotRequests under study
    Contents,
    NonPositive,     \* contents with a price that is not positive
    Rank             \* the order of the symbols and the timeframes

ASSUME MarketAssumption ==
    /\ Requests \subseteq [symbols : SUBSET Symbols, timeframes : SUBSET Timeframes,
                           reference_time : Instants]
    /\ \A r \in Requests : r.symbols # {} /\ r.timeframes # {}
    /\ NonPositive \subseteq Contents
    /\ Rank \in [Symbols \cup Timeframes -> Nat]

VARIABLES
    snapshots,       \* _snapshots: request -> snapshot, or NULL
    call,            \* the request and snapshot of a register in progress
    answered         \* history: what ingest returned for which request

marketVars == <<candles, snapshots, call, answered>>

----------------------------------------------------------------------------
\* The order of (symbol, timeframe, open_time).
KeyBefore(k, l) ==
    \/ Rank[k.symbol] < Rank[l.symbol]
    \/ /\ k.symbol = l.symbol
       /\ \/ Rank[k.timeframe] < Rank[l.timeframe]
          \/ k.timeframe = l.timeframe /\ k.open_time < l.open_time

\* Mutant of AvailableAt: a candle that closes at that very time is available.
AvailableAtClose(k, time) == k.close_time <= time

\* Candle.is_available_at
AvailableAt(k, time) == k.close_time < time

\* MarketSnapshot.__post_init__: no duplicates, in order, all available.
IsSnapshot(s) ==
    /\ s.candles # <<>>
    /\ \A i, j \in DOMAIN s.candles : i < j => KeyBefore(s.candles[i], s.candles[j])
    /\ \A i \in DOMAIN s.candles : AvailableAt(s.candles[i], s.reference_time)

\* The snapshots that can be made of the caller's candles.
Snapshots ==
    {s \in [content : Contents, reference_time : Instants, candles : {candles}] :
        IsSnapshot(s)}

\* MarketSnapshot.candles_for
CandlesFor(s, symbol, tf) ==
    Selected(s.candles, {i \in DOMAIN s.candles :
                           s.candles[i].symbol = symbol /\ s.candles[i].timeframe = tf})

\* validate_snapshot_request
InScope(r, s) ==
    /\ s.reference_time = r.reference_time
    /\ \A i \in DOMAIN s.candles :
          s.candles[i].symbol \in r.symbols /\ s.candles[i].timeframe \in r.timeframes

Pairs(s) == {<<s.candles[i].symbol, s.candles[i].timeframe>> : i \in DOMAIN s.candles}

\* validate_snapshot
ValidSnapshot(r, s) ==
    /\ s.reference_time = r.reference_time
    /\ Pairs(s) = r.symbols \X r.timeframes
    /\ s.content \notin NonPositive
    /\ \A i \in DOMAIN s.candles : AvailableAt(s.candles[i], r.reference_time)

----------------------------------------------------------------------------
MarketInit ==
    /\ Init
    /\ snapshots = [r \in Requests |-> NULL]
    /\ call = [t \in Threads |-> NULL]
    /\ answered = {}

\* The caller puts the candles together before it uses them.
Assemble(k) ==
    /\ \A r \in Requests : snapshots[r] = NULL
    /\ \A t \in Threads : call[t] = NULL
    /\ AddCandle(k)
    /\ UNCHANGED <<snapshots, call, answered>>

\* register, up to the lock; a snapshot that does not pass is refused.
Register(t, r, s) ==
    /\ call[t] = NULL
    /\ InScope(r, s)
    /\ ValidSnapshot(r, s)
    /\ call' = [call EXCEPT ![t] = [request |-> r, snapshot |-> s]]
    /\ UNCHANGED <<candles, snapshots, answered>>

\* Mutant of Registrable: the last snapshot wins.
RegistrableAlways(r, s) == TRUE

\* No other data is registered for the request.
Registrable(r, s) == snapshots[r] \in {NULL, s}

\* register, under the lock.
Store(t) ==
    /\ call[t] # NULL
    /\ LET r == call[t].request
           s == call[t].snapshot
       IN  snapshots' = IF Registrable(r, s) THEN [snapshots EXCEPT ![r] = s] ELSE snapshots
    /\ call' = [call EXCEPT ![t] = NULL]
    /\ UNCHANGED <<candles, answered>>

\* ingest from the source: snapshot, under the lock, and the same checks again.
Ingest(r) ==
    /\ snapshots[r] # NULL
    /\ InScope(r, snapshots[r])
    /\ ValidSnapshot(r, snapshots[r])
    /\ answered' = answered \cup {[request |-> r, snapshot |-> snapshots[r]]}
    /\ UNCHANGED <<candles, snapshots, call>>

MarketNext ==
    \/ \E k \in Candle : Assemble(k)
    \/ \E s \in Snapshots : \E t \in Threads, r \in Requests : Register(t, r, s)
    \/ \E t \in Threads : Store(t)
    \/ \E r \in Requests : Ingest(r)

MarketSpec == MarketInit /\ [][MarketNext]_marketVars

----------------------------------------------------------------------------
\* "Deterministic source adapter": whatever the threads register in whatever
\* order, two answers to one request are the same snapshot, so a decision
\* that is replayed sees what the first one saw.
AnswersAgree ==
    \A a, b \in answered : a.request = b.request => a.snapshot = b.snapshot

\* What comes out of ingest is aligned without loss: for every requested
\* symbol the answer at the snapshot's own reference time is the last candle
\* of its series, or the series is refused; it never lacks a closed candle,
\* since the constructor, the validation and select_closed_candles draw the
\* same line between closed and not closed.
AlignedIsLast ==
    \A a \in answered : \A symbol \in a.request.symbols, anchor \in Instants :
        LET series == CandlesFor(a.snapshot, symbol, Timeframe)
            answer == Align(series, a.request.reference_time, anchor)
        IN  Timeframe \in a.request.timeframes =>
               \/ answer.candle = series[Len(series)]
               \/ answer.reason \in {"INVALID_SERIES", "CANDLE_BOUNDARY_MISMATCH"}
=============================================================================
