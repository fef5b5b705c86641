---------------------------- MODULE PublicFetch ----------------------------
(***************************************************************************)
(* fetch_snapshot of the sources (src/src/tabdeal_signal/data_sources/):   *)
(* one request, the checks of the answer, and the NormalizedSnapshot that  *)
(* is returned.  The adapters differ in which checks they make and in      *)
(* which order, and in when the transport reads the clock for received_at. *)
(* BybitKlineDataSource answers snapshot(request) instead: its as_of is    *)
(* the request's reference_time, it returns the closed candles or raises.  *)
(* ReplayFixtureDataSource has no provider but recorded snapshots.         *)
(*                                                                         *)
(* An answer is abstracted to what the checks tell apart: its HTTP status, *)
(* whether it decodes and has the fields expected, the provider's own      *)
(* error code, and the times of its rows in order: when the row was        *)
(* observed, or when its candle closes.  A timestamp of a row is in the    *)
(* range of datetime, or the row is BAD.                                   *)
(***************************************************************************)
EXTENDS RowSequences, FiniteSets

CONSTANTS
    Adapters,        \* the adapters under study
    MaxTime,         \* bound on the clock
    MaxRows,         \* bound on the rows of an answer
    BAD,             \* a row without the fields expected
    NULL             \* None

Time == 0..MaxTime

VARIABLES
    adapter,
    clock,
    pc,              \* of the call
    as_of,           \* its argument
    answer,          \* what the provider sent
    stamp,           \* the clock when the headers of the answer came
    ended,           \* history: when the last byte came
    fixtures,        \* the snapshots of a ReplayFixtureDataSource
    result           \* what the last call returned

vars == <<adapter, clock, pc, as_of, answer, stamp, ended, fixtures, result>>

Rows == UNION {[1..n -> Time \cup {BAD}] : n \in 0..MaxRows}

Answer == [http     : {"ok", "429", "403", "500"},
           shape    : {"ok", "no json", "root", "code", "result", "levels", "time",
                       "no data", "chart"},
           provider : {"ok", "limited", "error"},
           rows     : Rows]

ErrorClass == {"rate_limited", "http_error", "transport_error", "provider_error",
               "pit_unavailable", "schema_error", "undecodable"}

\* A returned snapshot, its values reduced to the rows or to the error class.
Valid(at, rows) == [quality |-> "VALID", received_at |-> at, rows |-> rows]

\* _failure
Failure(at, class) ==
    [quality     |-> IF class \in {"schema_error", "undecodable"}
                     THEN "INVALID" ELSE "UNAVAILABLE",
     received_at |-> at,
     error_class |-> class]

\* An exception leaves fetch_snapshot.
Raised == [quality |-> "RAISED"]

\* BybitKlineDataSource.snapshot raises; the others return a failure.
Refused(at, class) ==
    IF adapter = "kline" THEN [quality |-> "RAISED", error_class |-> class]
    ELSE Failure(at, class)

\* A recorded snapshot.  DataSnapshotMetadata refuses one that was available
\* after it was received.
Fixture == {f \in [quality : {"RECORDED"}, available_at : Time, received_at : Time] :
              f.available_at <= f.received_at}

----------------------------------------------------------------------------
(***************************************************************************)
(* The checks of the adapters, in the order of the code.                   *)
(***************************************************************************)
\* Mutant of OrderbookChecks: received_at is not compared with as_of.
OrderbookChecksNoPit == <<"json", "root", "code", "provider", "result", "levels", "time">>

\* BybitOrderbookDataSource; the timestamps are converted outside any try.
OrderbookChecks ==
    <<"json", "root", "code", "provider", "result", "received", "levels", "time">>

\* BybitFundingRateDataSource
FundingChecks == <<"json", "root", "code", "provider", "received", "result", "rows">>

\* BybitOpenInterestDataSource
OpenInterestChecks == <<"json", "root", "code", "provider", "received", "result", "rows">>

\* BybitTickersDataSource: rows have no time.
TickersChecks == <<"json", "root", "code", "provider", "received", "result">>

\* BybitInstrumentsInfoDataSource
InstrumentsChecks == <<"json", "root", "code", "provider", "received", "result">>

\* BinanceCoinMContinuousKlineDataSource
BinanceChecks == <<"json", "received", "root", "rows">>

\* KrakenFuturesPublicCandleDataSource
KrakenChecks == <<"json", "received", "root", "result", "empty", "rows">>

\* DeribitPublicMarketDataSource, its chart method.
DeribitChecks == <<"json", "root", "provider", "received", "result", "rows">>

\* Mutant of ConfiguredChecks: received_at is compared before the status.
ConfiguredChecksPitFirst == <<"received", "status", "json">>

\* BybitKlineDataSource.snapshot
KlineChecks == <<"json", "root", "code", "provider", "received", "result", "rows">>

\* _ConfiguredPublicSource with one of the three decoders; the others see an
\* HTTPError instead of the status.
ConfiguredChecks == <<"status", "received", "json">>

Checks ==
    [orderbook     |-> OrderbookChecks,
     funding       |-> FundingChecks,
     open_interest |-> OpenInterestChecks,
     tickers       |-> TickersChecks,
     instruments   |-> InstrumentsChecks,
     binance       |-> BinanceChecks,
     kraken        |-> KrakenChecks,
     deribit       |-> DeribitChecks,
     configured    |-> ConfiguredChecks,
     kline         |-> KlineChecks]

ASSUME FetchAssumption ==
    /\ Adapters \subseteq DOMAIN Checks \cup {"replay"}
    /\ MaxTime \in Nat /\ MaxRows \in Nat
    /\ NULL \notin Nat /\ NULL \notin Answer /\ BAD \notin Nat
    /\ NULL \notin [quality : {"VALID"}, received_at : Time, rows : Seq(Time \cup {BAD})]

\* Adapters whose rows are candles with a close time.
CandleAdapters == {"binance", "kraken", "deribit", "kline"}

\* Adapters whose transport reads the clock after the body, the others read
\* it after the headers.
StampsBody == {"binance", "kraken", "deribit"}

\* A row that as_of does not admit: observed after it, or a candle that does
\* not close strictly before it.
Late(row, time) ==
    /\ time # NULL
    /\ row # BAD
    /\ IF adapter \in CandleAdapters THEN row >= time ELSE row > time

\* Mutant of FirstRefused: _PITUnavailable is caught as the ValueError it is.
FirstRefusedSchema(rows, time) == "schema_error"

\* The class of the first row that is refused.
FirstRefused(rows, time) ==
    LET i == CHOOSE k \in DOMAIN rows :
                /\ rows[k] = BAD \/ Late(rows[k], time)
                /\ \A j \in 1..(k - 1) : rows[j] # BAD /\ ~Late(rows[j], time)
    IN  IF rows[i] = BAD THEN "schema_error" ELSE "pit_unavailable"

\* _pit_filter_chart_result keeps the candles that are not late, if the chart
\* has its lists and a resolution in minutes and there is no bad tick.
\* BybitKlineDataSource keeps them too.
Kept(rows, time) ==
    IF adapter \in {"deribit", "kline"}
    THEN Selected(rows, {i \in DOMAIN rows : ~Late(rows[i], time)}) ELSE rows

\* Mutant of Gapped: only duplicates are refused.
GappedNever(rows) == \E i \in 1..(Len(rows) - 1) : rows[i + 1] = rows[i]

\* Two candles with one open time, or neighbours that do not touch.  A kline
\* lasts one unit of time.
Gapped(rows) == \E i \in 1..(Len(rows) - 1) : rows[i + 1] # rows[i] + 1

RowsRefused(rows, time) ==
    LET bad == BAD \in {rows[i] : i \in DOMAIN rows}
    IN  CASE adapter = "deribit" ->
               /\ time # NULL
               /\ answer.shape # "no data"
               /\ answer.shape = "chart" \/ bad \/ Kept(rows, time) = <<>>
          [] adapter = "kline" ->
               \/ bad
               \/ Kept(rows, time) = <<>>
               \/ Gapped(Sorted(Kept(rows, time)))
          [] OTHER -> bad \/ \E i \in DOMAIN rows : Late(rows[i], time)

Fails(check, received, time) ==
    CASE check = "status"   -> answer.http # "ok"
      [] check = "json"     -> answer.shape = "no json"
      [] check = "root"     -> answer.shape = "root"
      [] check = "code"     -> answer.shape = "code"
      [] check = "provider" -> answer.provider # "ok"
      [] check = "received" -> time # NULL /\ received > time
      [] check = "result"   -> answer.shape = "result"
      [] check = "levels"   -> answer.shape = "levels"
      [] check = "time"     -> answer.shape = "time"
      [] check = "empty"    -> answer.rows = <<>>
      [] check = "rows"     -> RowsRefused(answer.rows, time)

Bybit == {"orderbook", "funding", "open_interest", "tickers", "instruments", "kline"}

\* The class of an HTTP status that is no success.
HttpClass(code) ==
    IF adapter # "kline" /\ (code = "429" \/ (code = "403" /\ adapter # "configured"))
    THEN "rate_limited" ELSE "http_error"

\* A root that is no object is refused by Bybit's transport, and by the
\* adapter elsewhere.
ClassOf(check, time) ==
    CASE check = "status" -> HttpClass(answer.http)
      [] check = "json" -> "undecodable"
      [] check = "root" -> IF adapter \in Bybit THEN "undecodable" ELSE "schema_error"
      [] check = "provider" ->
            IF answer.provider = "limited" /\ adapter \in Bybit \ {"kline"}
            THEN "rate_limited" ELSE "provider_error"
      [] check \in {"received", "empty"} -> "pit_unavailable"
      [] check \in {"code", "result", "levels"} -> "schema_error"
      [] check = "rows" ->
            CASE adapter = "deribit" -> "pit_unavailable"
              [] adapter = "kline"   -> "schema_error"
              [] OTHER -> FirstRefused(answer.rows, time)

\* The outcome of the checks on the answer, whose body was read at `now'.  What
\* the transport refuses has no received_at: the clock is read again.
Outcome(now, time) ==
    LET checks   == Checks[adapter]
        received == IF adapter \in StampsBody THEN now ELSE stamp
        failed   == {i \in DOMAIN checks : Fails(checks[i], received, time)}
        check    == checks[CHOOSE i \in failed : \A j \in failed : i <= j]
        class    == ClassOf(check, time)
        kept     == Kept(answer.rows, time)
    IN  IF failed = {} THEN Valid(received, IF adapter = "kline" THEN Sorted(kept) ELSE kept)
        ELSE IF check = "time" THEN Raised
        ELSE Refused(IF class = "undecodable" /\ adapter # "configured" THEN now ELSE received,
                     class)

----------------------------------------------------------------------------
\* ReplayFixtureDataSource.__init__ sorts the snapshots it is given and
\* refuses two that were available at the same time.
Constructed ==
    {f \in UNION {[1..n -> Fixture] : n \in 1..(MaxTime + 1)} :
        \A i, j \in DOMAIN f : i < j => f[i].available_at < f[j].available_at}

\* Mutant of BisectRight: bisect_left.
BisectLeft(time) == Cardinality({i \in DOMAIN fixtures : fixtures[i].available_at < time})

BisectRight(time) == Cardinality({i \in DOMAIN fixtures : fixtures[i].available_at <= time})

\* ReplayFixtureDataSource.fetch_snapshot
Replayed(time) ==
    IF time = NULL THEN fixtures[Len(fixtures)]
    ELSE IF BisectRight(time) = 0 THEN Failure(time, "pit_unavailable")
    ELSE fixtures[BisectRight(time)]

----------------------------------------------------------------------------
Init ==
    /\ adapter \in Adapters
    /\ fixtures \in IF adapter = "replay" THEN Constructed ELSE {<<>>}
    /\ clock = 0
    /\ pc = "idle"
    /\ as_of = NULL
    /\ answer = NULL
    /\ stamp = NULL
    /\ ended = NULL
    /\ result = NULL

Tick ==
    /\ clock < MaxTime
    /\ clock' = clock + 1
    /\ UNCHANGED <<adapter, pc, as_of, answer, stamp, ended, fixtures, result>>

FetchSnapshot ==
    /\ pc = "idle"
    /\ adapter # "replay"
    /\ pc' = "requested"
    /\ as_of' \in IF adapter = "kline" THEN Time ELSE Time \cup {NULL}
    /\ answer' = NULL
    /\ stamp' = NULL
    /\ ended' = NULL
    /\ result' = NULL
    /\ UNCHANGED <<adapter, clock, fixtures>>

FetchReplay ==
    /\ adapter = "replay"
    /\ as_of' \in Time \cup {NULL}
    /\ result' = Replayed(as_of')
    /\ UNCHANGED <<adapter, clock, pc, answer, stamp, ended, fixtures>>

Return(r) ==
    /\ pc' = "idle"
    /\ result' = r
    /\ UNCHANGED <<adapter, clock, as_of, fixtures>>

\* TimeoutError, URLError or OSError, before the headers or in the body.  The
\* configured transport reads the body of an error status inside an except
\* clause, where nothing catches it.
TransportError ==
    /\ pc \in {"requested", "reading"}
    /\ IF pc = "reading" /\ answer.http # "ok"
       THEN Return(Raised)
       ELSE Return(Refused(clock, "transport_error"))
    /\ UNCHANGED <<answer, stamp, ended>>

\* The adapters that know a kind of answer.  The body of an answer with an
\* error status is not used: one stands for all.
Possible(a) ==
    /\ a.http # "ok" => a.shape = "ok" /\ a.provider = "ok" /\ a.rows = <<>>
    /\ a.shape = "root" => adapter # "configured"
    /\ a.shape = "code" => adapter \in Bybit
    /\ a.shape = "no data" => adapter = "deribit" /\ a.rows = <<>>
    /\ a.shape = "chart" => adapter = "deribit"
    /\ a.shape = "result" => adapter \notin {"binance", "configured"}
    /\ a.shape \in {"levels", "time"} => adapter = "orderbook"
    /\ a.provider # "ok" => adapter \notin {"binance", "kraken", "configured"}
    /\ a.rows # <<>> => adapter \in {"funding", "open_interest"} \cup CandleAdapters

\* The headers of an answer come.  An error status ends the call, with its
\* body unread; only the configured transport reads on.
Headers(a) ==
    /\ pc = "requested"
    /\ Possible(a)
    /\ answer' = a
    /\ stamp' = clock
    /\ UNCHANGED ended
    /\ IF a.http = "ok" \/ adapter = "configured"
       THEN pc' = "reading" /\ UNCHANGED <<adapter, clock, as_of, fixtures, result>>
       ELSE Return(Refused(clock, HttpClass(a.http)))

\* The last byte comes; the answer is checked.
Body ==
    /\ pc = "reading"
    /\ ended' = clock
    /\ Return(Outcome(clock, as_of))
    /\ UNCHANGED <<answer, stamp>>

\* http.client raises BadStatusLine, or IncompleteRead when the connection
\* closes before the announced length: neither an OSError nor a ValueError.
HttpException ==
    /\ pc \in {"requested", "reading"}
    /\ Return(Raised)
    /\ UNCHANGED <<answer, stamp, ended>>

Next ==
    \/ Tick
    \/ FetchSnapshot
    \/ FetchReplay
    \/ TransportError
    \/ \E a \in Answer : Headers(a)
    \/ Body
    \/ HttpException

Spec == Init /\ [][Next]_vars

----------------------------------------------------------------------------
(***************************************************************************)
(* Properties.                                                             *)
(***************************************************************************)
HasData == result # NULL /\ result.quality = "VALID"

\* Point in time: a VALID snapshot fetched for as_of is stamped no later than
\* as_of and has no row that was observed, and no candle that closes, too
\* late for it, however long the request took.
PointInTime ==
    HasData /\ as_of # NULL =>
        /\ result.received_at <= as_of
        /\ adapter \in {"funding", "open_interest"} \cup CandleAdapters =>
              \A i \in DOMAIN result.rows :
                 /\ result.rows[i] # BAD
                 /\ ~Late(result.rows[i], as_of)

\* "so a historical as_of cannot hide the documented rate-limit or HTTP error
\* class": an error the provider reported is the error that is returned, for
\* every as_of.
ProviderErrorKept ==
    ended # NULL /\ answer.shape = "ok" /\ (answer.http # "ok" \/ answer.provider # "ok") =>
        result.error_class \in {"rate_limited", "http_error", "provider_error"}

\* as_of only takes data away: the outcome for it is the one without as_of,
\* or pit_unavailable, or has fewer candles.
AsOfOnlyRestricts ==
    ended # NULL /\ adapter # "kline" =>
        LET free == Outcome(ended, NULL)
        IN  \/ result = free
            \/ result.quality = "UNAVAILABLE" /\ result.error_class = "pit_unavailable"
            \/ /\ HasData /\ free.quality = "VALID"
               /\ Len(result.rows) < Len(free.rows)

\* "No silent repair or inference": BybitKlineDataSource returns every candle
\* of the answer that closes before reference_time and no other, once, in
\* order and without a hole, whatever the order of the answer's rows; the
\* last one is the latest that closes in time.
KlineComplete ==
    adapter = "kline" /\ HasData =>
        LET rows == result.rows
        IN  /\ rows # <<>>
            /\ {rows[i] : i \in DOMAIN rows}
                  = {answer.rows[i] : i \in DOMAIN answer.rows} \cap 0..(as_of - 1)
            /\ \A i \in DOMAIN rows : rows[i] = rows[1] + i - 1

\* A replay for as_of shows the last snapshot that was available by then, at
\* the boundaries too, and fails when there was none.
ReplayLatest ==
    adapter = "replay" /\ result # NULL /\ as_of # NULL =>
        LET past == {i \in DOMAIN fixtures : fixtures[i].available_at <= as_of}
        IN  IF past = {} THEN result = Failure(as_of, "pit_unavailable")
            ELSE \E i \in past :
                    /\ result = fixtures[i]
                    /\ \A j \in past : fixtures[j].available_at <= result.available_at

\* "Only closed candles may enter a signal decision": a candle of a snapshot
\* had closed when the provider's answer came, so its prices are final.
OnlyClosedCandles ==
    adapter \in CandleAdapters /\ HasData /\ as_of # NULL =>
        \A i \in DOMAIN result.rows : result.rows[i] <= stamp

\* "as_of rejects responses received after the point-in-time boundary": a
\* response that is used had come completely by then.
WhollyReceived ==
    HasData /\ as_of # NULL => ended <= as_of
=============================================================================
