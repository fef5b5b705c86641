------------------------- MODULE PublicFetchProofs -------------------------
(***************************************************************************)
(* Proofs about PublicFetch, for any answers, of any length, at any time.  *)
(***************************************************************************)
EXTENDS PublicFetch, DataTheorems, TLAPS

(***************************************************************************)
(* The first check that fails decides.                                     *)
(***************************************************************************)
\* The checks that an answer fails.
Failed(received, time) ==
    {i \in DOMAIN Checks[adapter] : Fails(Checks[adapter][i], received, time)}

LEMMA FirstIs ==
  ASSUME NEW S, NEW k \in S, S \subseteq Nat, \A j \in S : k <= j
  PROVE  (CHOOSE i \in S : \A j \in S : i <= j) = k
<1> DEFINE LowerBound(i) == \A j \in S : i <= j
<1>1. \A i \in S : LowerBound(i) <=> i = k
  OBVIOUS
<1>2. \E i \in S : LowerBound(i)
  BY <1>1
<1> QED
  BY <1>1, <1>2

\* What the checks look at that come first.
LEMMA EarlyChecks ==
  ASSUME NEW received, NEW time
  PROVE  /\ Fails("status", received, time) <=> answer.http # "ok"
         /\ Fails("provider", received, time) <=> answer.provider # "ok"
         /\ Fails("json", received, time) <=> answer.shape = "no json"
         /\ Fails("root", received, time) <=> answer.shape = "root"
         /\ Fails("code", received, time) <=> answer.shape = "code"
  BY DEF Fails

\* The checks made before a provider's own error is looked for pass when the
\* answer has the fields expected.
LEMMA ErrorComesFirst ==
  ASSUME adapter \in DOMAIN Checks, answer \in Answer, Possible(answer),
         answer.http # "ok" => adapter = "configured",
         answer.shape = "ok", answer.http # "ok" \/ answer.provider # "ok",
         NEW received, NEW time
  PROVE  \E k \in Failed(received, time) :
            /\ \A j \in Failed(received, time) : k <= j
            /\ Failed(received, time) \subseteq Nat
            /\ \/ Checks[adapter][k] = "status" /\ answer.http # "ok"
               \/ Checks[adapter][k] = "provider" /\ answer.provider # "ok"
<1>1. CASE answer.http # "ok"
  <2>1. adapter = "configured"
    BY <1>1
  <2>2. Checks[adapter] = <<"status", "received", "json">>
    BY <2>1 DEF Checks, ConfiguredChecks
  <2>3. 1 \in Failed(received, time) /\ Failed(received, time) \subseteq 1..3
    BY <1>1, <2>2, EarlyChecks DEF Failed
  <2> QED
    BY <1>1, <2>2, <2>3
<1>2. CASE answer.http = "ok"
  <2>1. adapter \notin {"binance", "kraken", "configured"} /\ answer.provider # "ok"
    BY <1>2 DEF Possible
  <2>2. CASE adapter = "deribit"
    <3>1. Checks[adapter] = <<"json", "root", "provider", "received", "result", "rows">>
      BY <2>2 DEF Checks, DeribitChecks
    <3>2. 3 \in Failed(received, time) /\ Failed(received, time) \subseteq 3..6
      BY <2>1, <3>1, EarlyChecks DEF Failed
    <3> QED
      BY <2>1, <3>1, <3>2
  <2>3. CASE adapter # "deribit"
    <3>1. /\ 4 \in DOMAIN Checks[adapter]
          /\ DOMAIN Checks[adapter] \subseteq 1..8
          /\ Checks[adapter][1] = "json" /\ Checks[adapter][2] = "root"
          /\ Checks[adapter][3] = "code" /\ Checks[adapter][4] = "provider"
      BY <2>1, <2>3
      DEF Checks, OrderbookChecks, FundingChecks, OpenInterestChecks,
          TickersChecks, InstrumentsChecks, KlineChecks
    <3>2. 4 \in Failed(received, time) /\ Failed(received, time) \subseteq 4..8
      BY <2>1, <3>1, EarlyChecks DEF Failed
    <3> QED
      BY <2>1, <3>1, <3>2
  <2> QED
    BY <2>2, <2>3
<1> QED
  BY <1>1, <1>2 DEF Answer

LEMMA ErrorOutcome ==
  ASSUME adapter \in DOMAIN Checks, answer \in Answer, Possible(answer),
         answer.http # "ok" => adapter = "configured",
         answer.shape = "ok", answer.http # "ok" \/ answer.provider # "ok",
         NEW now, NEW time
  PROVE  Outcome(now, time).error_class
            \in {"rate_limited", "http_error", "provider_error"}
<1> DEFINE received == IF adapter \in StampsBody THEN now ELSE stamp
           failed == Failed(received, time)
           check == Checks[adapter][CHOOSE i \in failed : \A j \in failed : i <= j]
           at == IF ClassOf(check, time) = "undecodable" /\ adapter # "configured"
                 THEN now ELSE received
<1>1. PICK k \in failed : /\ \A j \in failed : k <= j
                          /\ failed \subseteq Nat
                          /\ \/ Checks[adapter][k] = "status" /\ answer.http # "ok"
                             \/ Checks[adapter][k] = "provider" /\ answer.provider # "ok"
  BY ErrorComesFirst
<1>2. check = Checks[adapter][k]
  BY <1>1, FirstIs
<1>3. failed # {} /\ check # "time"
  BY <1>1, <1>2
<1>4. ClassOf(check, time) \in {"rate_limited", "http_error", "provider_error"}
  BY <1>1, <1>2 DEF ClassOf, HttpClass
<1>5. Outcome(now, time) = Refused(at, ClassOf(check, time))
  BY <1>3 DEF Outcome, Failed
<1> QED
  BY <1>4, <1>5 DEF Refused, Failure

(***************************************************************************)
(* What as_of keeps away.                                                  *)
(***************************************************************************)
\* A refusal carries no data.
LEMMA NoData ==
  ASSUME NEW at, NEW class
  PROVE  /\ Failure(at, class).quality # "VALID"
         /\ Refused(at, class).quality # "VALID"
         /\ Raised.quality # "VALID"
  BY DEF Failure, Refused, Raised

\* What the checks look at that come later.
LEMMA LateChecks ==
  ASSUME NEW received, NEW time
  PROVE  /\ Fails("received", received, time) <=> time # NULL /\ received > time
         /\ Fails("rows", received, time) <=> RowsRefused(answer.rows, time)
  BY DEF Fails

LEMMA AnswerRows ==
  ASSUME answer \in Answer
  PROVE  answer.rows \in Seq(Time \cup {BAD})
<1>1. PICK n \in 0..MaxRows : answer.rows \in [1..n -> Time \cup {BAD}]
  BY DEF Answer, Rows
<1>2. n \in Nat
  BY FetchAssumption
<1> QED
  BY <1>1, <1>2

\* _pit_filter_chart_result takes the late candles away and no others; the
\* other adapters take nothing away.
LEMMA KeptRows ==
  ASSUME NEW rows \in Seq(Time \cup {BAD}), NEW time
  PROVE  /\ Kept(rows, time) \in Seq(Time \cup {BAD})
         /\ adapter \in {"deribit", "kline"} =>
               /\ \A i \in DOMAIN Kept(rows, time) : \E j \in DOMAIN rows :
                     Kept(rows, time)[i] = rows[j] /\ ~Late(rows[j], time)
               /\ \A j \in DOMAIN rows : ~Late(rows[j], time) =>
                     \E i \in DOMAIN Kept(rows, time) : Kept(rows, time)[i] = rows[j]
         /\ Kept(rows, time) = rows \/ Len(Kept(rows, time)) < Len(rows)
         /\ time = NULL => Kept(rows, time) = rows
<1> DEFINE kept == {i \in DOMAIN rows : ~Late(rows[i], time)}
<1>1. time = NULL => kept = DOMAIN rows
  BY DEF Late
<1>2. kept \in SUBSET DOMAIN rows
  OBVIOUS
<1>3. CASE adapter \in {"deribit", "kline"}
  <2>1. Kept(rows, time) = Selected(rows, kept)
    BY <1>3 DEF Kept
  <2> DEFINE c == Selected(rows, kept)
  <2>2. \A k : k \in kept <=> k \in DOMAIN rows /\ ~Late(rows[k], time)
    OBVIOUS
  <2> HIDE DEF kept
  <2>3. /\ c \in Seq(Time \cup {BAD})
        /\ {c[i] : i \in DOMAIN c} = {rows[k] : k \in kept}
        /\ kept = DOMAIN rows => c = rows
        /\ kept # DOMAIN rows => Len(c) < Len(rows)
    BY <1>2, SelectedRows
  <2> HIDE DEF c
  <2>4. /\ \A i \in DOMAIN c : \E j \in kept : c[i] = rows[j]
        /\ \A j \in kept : \E i \in DOMAIN c : c[i] = rows[j]
    BY <2>3
  <2> QED
    BY <1>1, <2>1, <2>2, <2>3, <2>4 DEF c
<1>4. CASE adapter \notin {"deribit", "kline"}
  BY <1>4 DEF Kept
<1> QED
  BY <1>3, <1>4

\* What a VALID outcome holds.
LEMMA ValidOutcome ==
  ASSUME NEW now, NEW time, Outcome(now, time).quality = "VALID"
  PROVE  LET received == IF adapter \in StampsBody THEN now ELSE stamp
             kept     == Kept(answer.rows, time)
         IN  /\ Outcome(now, time)
                   = Valid(received, IF adapter = "kline" THEN Sorted(kept) ELSE kept)
             /\ \A i \in DOMAIN Checks[adapter] :
                   ~Fails(Checks[adapter][i], received, time)
<1> DEFINE received == IF adapter \in StampsBody THEN now ELSE stamp
<1>1. Failed(received, time) = {}
  BY NoData DEF Outcome, Failed
<1> QED
  BY <1>1 DEF Outcome, Failed

\* Every adapter compares received_at, and those with rows their rows.
LEMMA ComparesTimes ==
  ASSUME adapter \in DOMAIN Checks
  PROVE  /\ \E i \in DOMAIN Checks[adapter] : Checks[adapter][i] = "received"
         /\ adapter \in {"funding", "open_interest"} \cup CandleAdapters =>
               \E i \in DOMAIN Checks[adapter] : Checks[adapter][i] = "rows"
<1> USE DEF Checks
<1>1. CASE adapter \in {"orderbook", "funding", "open_interest"}
  BY <1>1 DEF OrderbookChecks, FundingChecks, OpenInterestChecks, CandleAdapters
<1>2. CASE adapter \in {"tickers", "instruments", "binance"}
  BY <1>2 DEF TickersChecks, InstrumentsChecks, BinanceChecks, CandleAdapters
<1>3. CASE adapter \in {"kraken", "deribit", "configured", "kline"}
  BY <1>3 DEF KrakenChecks, DeribitChecks, ConfiguredChecks, KlineChecks, CandleAdapters
<1> QED
  BY <1>1, <1>2, <1>3

LEMMA DataOutcome ==
  ASSUME adapter \in DOMAIN Checks, answer \in Answer, Possible(answer),
         NEW now \in Time, stamp \in Time, NEW time \in Time,
         Outcome(now, time).quality = "VALID"
  PROVE  /\ Outcome(now, time).received_at <= time
         /\ adapter \in {"funding", "open_interest"} \cup CandleAdapters =>
               \A i \in DOMAIN Outcome(now, time).rows :
                  /\ Outcome(now, time).rows[i] # BAD
                  /\ ~Late(Outcome(now, time).rows[i], time)
<1> DEFINE received == IF adapter \in StampsBody THEN now ELSE stamp
           rows == answer.rows
           kept == Kept(rows, time)
           out == IF adapter = "kline" THEN Sorted(kept) ELSE kept
<1>1. /\ Outcome(now, time) = Valid(received, out)
      /\ \A i \in DOMAIN Checks[adapter] : ~Fails(Checks[adapter][i], received, time)
  BY ValidOutcome
<1>2. time # NULL /\ time \in Int /\ received \in Int
  BY FetchAssumption DEF Time
<1>3. received <= time
  <2>1. ~(received > time)
    BY <1>1, <1>2, ComparesTimes, LateChecks
  <2> QED
    BY <1>2, <2>1
<1>4. rows \in Seq(Time \cup {BAD})
  BY AnswerRows
<1>5. ASSUME adapter \in {"funding", "open_interest"} \cup CandleAdapters
      PROVE  \A i \in DOMAIN out : out[i] # BAD /\ ~Late(out[i], time)
  <2>1. ~RowsRefused(rows, time)
    BY <1>1, <1>2, <1>5, ComparesTimes, LateChecks
  <2>2. CASE adapter \notin {"deribit", "kline"}
    <3>1. out = rows
      BY <2>2 DEF Kept
    <3>2. \A i \in DOMAIN rows : rows[i] # BAD /\ ~Late(rows[i], time)
      BY <2>1, <2>2 DEF RowsRefused
    <3> QED
      BY <3>1, <3>2
  <2>3. CASE adapter = "deribit"
    <3>1. \A i \in DOMAIN rows : rows[i] # BAD
      <4>1. CASE answer.shape = "no data"
        <5>1. answer.rows = <<>>
          BY <4>1 DEF Possible
        <5> QED
          BY <5>1
      <4>2. CASE answer.shape # "no data"
        BY <1>2, <2>1, <2>3, <4>2 DEF RowsRefused
      <4> QED
        BY <4>1, <4>2
    <3>2. \A i \in DOMAIN kept : \E j \in DOMAIN rows :
             kept[i] = rows[j] /\ ~Late(rows[j], time)
      BY <1>4, <2>3, KeptRows
    <3> QED
      BY <2>3, <3>1, <3>2
  <2>4. CASE adapter = "kline"
    <3>1. \A i \in DOMAIN rows : rows[i] # BAD
      BY <2>1, <2>4 DEF RowsRefused
    <3>2. \A i \in DOMAIN kept : \E j \in DOMAIN rows :
             kept[i] = rows[j] /\ ~Late(rows[j], time)
      BY <1>4, <2>4, KeptRows
    <3>3. kept \in Seq(Int)
      <4>1. kept \in Seq(Time \cup {BAD})
        BY <1>4, KeptRows
      <4>2. \A i \in DOMAIN kept : kept[i] \in Int
        BY <1>4, <3>1, <3>2, <4>1 DEF Time
      <4> HIDE DEF kept
      <4> QED
        BY <4>1, <4>2
    <3>4. \A i \in DOMAIN out : \E j \in DOMAIN kept : out[i] = kept[j]
      <4>1. out = Sorted(kept)
        BY <2>4
      <4> HIDE DEF kept, out
      <4> QED
        BY <3>3, <4>1, SortedRows
    <3> QED
      BY <3>1, <3>2, <3>4
  <2> QED
    BY <2>2, <2>3, <2>4
<1> HIDE DEF out, received
<1> QED
  BY <1>1, <1>3, <1>5 DEF Valid

(***************************************************************************)
(* The course of a call.                                                   *)
(***************************************************************************)
CallInv ==
    /\ adapter \in Adapters
    /\ clock \in Time
    /\ as_of \in Time \cup {NULL}
    /\ adapter = "replay" => ended = NULL /\ fixtures \in Constructed
    /\ pc \in {"idle", "requested", "reading"}
    /\ pc # "idle" => adapter # "replay" /\ ended = NULL /\ result = NULL
    /\ pc # "idle" /\ adapter = "kline" => as_of \in Time
    /\ pc = "reading" => /\ answer \in Answer /\ Possible(answer)
                         /\ answer.http # "ok" => adapter = "configured"
                         /\ stamp \in Time

LEMMA CallInit == Init => CallInv
  BY FetchAssumption DEF Init, CallInv, Time

LEMMA CallStep == CallInv /\ [Next]_vars => CallInv'
<1> SUFFICES ASSUME CallInv, [Next]_vars PROVE CallInv'
  OBVIOUS
<1> USE FetchAssumption DEF CallInv
<1>1. CASE UNCHANGED vars \/ Tick
  <2>1. clock' \in Time
    BY <1>1 DEF Tick, vars, Time
  <2> QED
    BY <1>1, <2>1 DEF Tick, vars, Possible, Constructed
<1>2. CASE FetchSnapshot \/ FetchReplay
  BY <1>2 DEF FetchSnapshot, FetchReplay, Possible, Constructed
<1>3. CASE TransportError \/ Body \/ HttpException
  BY <1>3 DEF TransportError, Body, HttpException, Return, Constructed
<1>4. CASE \E a \in Answer : Headers(a)
  BY <1>4 DEF Headers, Return, Possible, Constructed
<1> QED
  BY <1>1, <1>2, <1>3, <1>4 DEF Next

\* An adapter that is no replay source has its checks.
LEMMA HasChecks == CallInv /\ pc # "idle" => adapter \in DOMAIN Checks
  BY FetchAssumption DEF CallInv

\* What the provider reports as an error is never hidden, neither by as_of
\* nor by the other checks of an adapter.
THEOREM ProviderErrorAlwaysKept == Spec => []ProviderErrorKept
<1>1. Init => ProviderErrorKept
  BY DEF Init, ProviderErrorKept
<1>2. CallInv /\ ProviderErrorKept /\ [Next]_vars => ProviderErrorKept'
  <2> SUFFICES ASSUME CallInv, ProviderErrorKept, [Next]_vars
               PROVE  ProviderErrorKept'
    OBVIOUS
  <2>1. CASE UNCHANGED vars \/ Tick
    BY <2>1 DEF Tick, vars, ProviderErrorKept
  <2>2. CASE FetchSnapshot
    BY <2>2 DEF FetchSnapshot, ProviderErrorKept
  <2>3. CASE FetchReplay
    BY <2>3 DEF FetchReplay, ProviderErrorKept, CallInv
  <2>4. CASE TransportError \/ HttpException \/ \E a \in Answer : Headers(a)
    BY <2>4 DEF TransportError, HttpException, Headers, CallInv, ProviderErrorKept
  <2>5. CASE Body
    BY <2>5, ErrorOutcome, HasChecks DEF Body, Return, CallInv, ProviderErrorKept
  <2> QED
    BY <2>1, <2>2, <2>3, <2>4, <2>5 DEF Next
<1> QED
  BY <1>1, <1>2, CallInit, CallStep, PTL DEF Spec

\* A replay source hands out what was recorded, or a failure.
LEMMA ReplayRecorded ==
  ASSUME fixtures \in Constructed, NEW time
  PROVE  Replayed(time).quality # "VALID"
<1>1. PICK n \in 1..(MaxTime + 1) : fixtures \in [1..n -> Fixture]
  BY DEF Constructed
<1>2. \A i \in 1..n : fixtures[i].quality = "RECORDED"
  BY <1>1 DEF Fixture
<1>3. n \in Nat /\ Len(fixtures) = n /\ n \in 1..n
  BY <1>1, FetchAssumption
<1>4. BisectRight(time) \in 0..n
  <2> DEFINE past == {i \in DOMAIN fixtures : fixtures[i].available_at <= time}
  <2>1. IsFiniteSet(1..n) /\ Cardinality(1..n) = n
    BY <1>3, FS_Interval
  <2>2. past \subseteq 1..n
    BY <1>1
  <2>3. Cardinality(past) \in Nat /\ Cardinality(past) <= n
    BY <2>1, <2>2, FS_Subset, FS_CardinalityType
  <2> QED
    BY <1>3, <2>3 DEF BisectRight
<1> QED
  BY <1>2, <1>3, <1>4, NoData DEF Replayed

\* The bisection counts the snapshots that were available: they are the
\* first ones, so the count is the place of the last.
LEMMA BisectsRight ==
  ASSUME fixtures \in Constructed, NEW time \in Time,
         NEW past, past = {i \in DOMAIN fixtures : fixtures[i].available_at <= time}
  PROVE  /\ BisectRight(time) = 0 <=> past = {}
         /\ past # {} => /\ BisectRight(time) \in past
                         /\ \A j \in past : j <= BisectRight(time)
<1> DEFINE c == Cardinality(past)
<1>1. PICK n \in 1..(MaxTime + 1) :
         /\ fixtures \in [1..n -> Fixture]
         /\ \A i, j \in 1..n : i < j => fixtures[i].available_at < fixtures[j].available_at
  BY DEF Constructed
<1>2. n \in Nat /\ past \subseteq 1..n
  BY <1>1, FetchAssumption
<1>3. \A i \in past, j \in 1..n : j < i => j \in past
  BY <1>1 DEF Fixture, Time
<1>4. /\ IsFiniteSet(past) /\ c \in Nat
      /\ c = 0 <=> past = {}
  <2>1. IsFiniteSet(1..n)
    BY <1>2, FS_Interval
  <2>2. IsFiniteSet(past)
    BY <1>2, <2>1, FS_Subset
  <2> QED
    BY <2>2, FS_CardinalityType, FS_EmptySet
<1>5. BisectRight(time) = c
  BY DEF BisectRight
<1>6. ASSUME past # {}, c \notin past
      PROVE  FALSE
  <2>1. c \in Nat \ {0}
    BY <1>4, <1>6
  <2>2. ASSUME NEW i \in past
        PROVE  i \in 1..(c - 1)
    <3>1. i \in 1..n /\ i # c
      BY <1>2, <1>6
    <3>2. CASE i > c
      BY <1>3, <1>6, <2>1, <3>1, <3>2, <1>2
    <3> QED
      BY <1>2, <2>1, <3>1, <3>2
  <2>3. IsFiniteSet(1..(c - 1)) /\ Cardinality(1..(c - 1)) = c - 1
    <3>1. 1 \in Int /\ c - 1 \in Int
      BY <2>1
    <3>2. /\ IsFiniteSet(1..(c - 1))
          /\ Cardinality(1..(c - 1)) = IF 1 > c - 1 THEN 0 ELSE c - 1 - 1 + 1
      BY <3>1, FS_Interval
    <3> QED
      BY <2>1, <3>2
  <2>4. past \in SUBSET (1..(c - 1))
    BY <2>2
  <2>5. c <= Cardinality(1..(c - 1))
    BY <2>3, <2>4, FS_Subset
  <2> QED
    BY <2>1, <2>3, <2>5
<1>7. ASSUME NEW j \in past, j > c
      PROVE  FALSE
  <2>1. 1..j \subseteq past /\ j \in Nat
    BY <1>2, <1>3
  <2>2. Cardinality(1..j) = j
    BY <2>1, FS_Interval
  <2>3. j <= c
    BY <1>4, <2>1, <2>2, FS_Subset
  <2> QED
    BY <1>4, <1>7, <2>1, <2>3
<1>8. \A j \in past : j <= c
  BY <1>2, <1>4, <1>7
<1> QED
  BY <1>4, <1>5, <1>6, <1>8

\* Replay for as_of shows the last snapshot available by then, for any
\* recording.
THEOREM ReplayAlwaysLatest == Spec => []ReplayLatest
<1>1. Init => ReplayLatest
  BY DEF Init, ReplayLatest
<1>2. CallInv /\ ReplayLatest /\ [Next]_vars => ReplayLatest'
  <2> SUFFICES ASSUME CallInv, ReplayLatest, [Next]_vars, adapter = "replay"
               PROVE  ReplayLatest'
    BY DEF ReplayLatest, Next, vars, Tick, FetchSnapshot, FetchReplay,
           TransportError, Headers, Body, HttpException, Return
  <2>1. pc = "idle"
    BY DEF CallInv
  <2>2. CASE FetchReplay
    <3> SUFFICES ASSUME as_of' # NULL
                 PROVE  ReplayLatest'
      BY DEF ReplayLatest
    <3> DEFINE past == {i \in DOMAIN fixtures : fixtures[i].available_at <= as_of'}
               b == BisectRight(as_of')
    <3>1. /\ fixtures' = fixtures /\ fixtures \in Constructed /\ as_of' \in Time
          /\ result' = IF b = 0 THEN Failure(as_of', "pit_unavailable") ELSE fixtures[b]
      BY <2>2 DEF FetchReplay, CallInv, Replayed
    <3>2. /\ b = 0 <=> past = {}
          /\ past # {} => b \in past /\ \A j \in past : j <= b
      BY <3>1, BisectsRight
    <3>3. \A j \in past : j <= b => fixtures[j].available_at <= fixtures[b].available_at
      <4>1. PICK n \in 1..(MaxTime + 1) :
               /\ fixtures \in [1..n -> Fixture]
               /\ \A i, j \in 1..n :
                     i < j => fixtures[i].available_at < fixtures[j].available_at
        BY <3>1 DEF Constructed
      <4>2. \A i \in 1..n : fixtures[i].available_at \in Nat
        BY <4>1, FetchAssumption DEF Fixture, Time
      <4> QED
        BY <3>2, <4>1, <4>2
    <3> QED
      BY <3>1, <3>2, <3>3 DEF ReplayLatest
  <2>3. CASE UNCHANGED vars \/ Tick
    BY <2>3 DEF Tick, vars, ReplayLatest
  <2> QED
    BY <2>1, <2>2, <2>3 DEF Next, FetchSnapshot, TransportError, Headers, Body,
                            HttpException
<1> QED
  BY <1>1, <1>2, CallInit, CallStep, PTL DEF Spec

(***************************************************************************)
(* What an answer that was used became.                                    *)
(***************************************************************************)
\* What the last call returned is the outcome of the checks on an answer that
\* came completely; there are no data without one.
FetchedInv ==
    /\ HasData => ended # NULL
    /\ ended # NULL =>
          /\ adapter \in DOMAIN Checks
          /\ answer \in Answer /\ Possible(answer)
          /\ stamp \in Time /\ ended \in Time
          /\ adapter = "kline" => as_of \in Time
          /\ result = Outcome(ended, as_of)

LEMMA FetchedInit == Init => FetchedInv
  BY DEF Init, FetchedInv, HasData

LEMMA FetchedStep == CallInv /\ FetchedInv /\ [Next]_vars => FetchedInv'
<1> SUFFICES ASSUME CallInv, FetchedInv, [Next]_vars PROVE FetchedInv'
  OBVIOUS
<1>1. CASE UNCHANGED vars \/ Tick
  <2>1. UNCHANGED <<adapter, as_of, answer, stamp, ended, result>>
    BY <1>1 DEF vars, Tick
  <2>2. Outcome(ended, as_of)' = Outcome(ended, as_of)
    BY <2>1 DEF Outcome, Fails, RowsRefused, Kept, Late, ClassOf, HttpClass,
                FirstRefused, Refused
  <2>3. Possible(answer)' = Possible(answer) /\ HasData' = HasData
    BY <2>1 DEF Possible, HasData
  <2> QED
    BY <2>1, <2>2, <2>3 DEF FetchedInv
<1>2. CASE FetchSnapshot
  BY <1>2 DEF FetchSnapshot, FetchedInv, HasData
<1>3. CASE FetchReplay
  BY <1>3, ReplayRecorded DEF FetchReplay, FetchedInv, HasData, CallInv
<1>4. CASE TransportError \/ HttpException \/ \E a \in Answer : Headers(a)
  BY <1>4, NoData
  DEF TransportError, HttpException, Headers, Return, CallInv, FetchedInv, HasData
<1>5. CASE Body
  <2>1. UNCHANGED <<adapter, as_of, answer, stamp>>
    BY <1>5 DEF Body, Return
  <2>2. ended' = clock /\ result' = Outcome(clock, as_of) /\ clock \in Time
    BY <1>5 DEF Body, Return, CallInv
  <2>3. Outcome(ended, as_of)' = Outcome(clock, as_of)
    <3>1. PICK now : now = clock
      OBVIOUS
    <3>2. Outcome(now, as_of)' = Outcome(now, as_of)
      BY <2>1 DEF Outcome, Fails, RowsRefused, Kept, Late, ClassOf, HttpClass,
                  FirstRefused, Refused
    <3>3. Outcome(ended, as_of)' = Outcome(now, as_of)'
      BY <2>2, <3>1 DEF Outcome
    <3>4. Outcome(clock, as_of) = Outcome(now, as_of)
      BY <3>1
    <3> QED
      BY <3>2, <3>3, <3>4
  <2>4. /\ adapter \in DOMAIN Checks /\ answer \in Answer /\ Possible(answer)
        /\ stamp \in Time
        /\ adapter = "kline" => as_of \in Time
    BY <1>5, HasChecks DEF Body, CallInv
  <2>5. Possible(answer)' = Possible(answer)
    BY <2>1 DEF Possible
  <2>6. ended' # NULL
    BY <2>2, FetchAssumption DEF Time
  <2> QED
    BY <2>1, <2>2, <2>3, <2>4, <2>5, <2>6 DEF FetchedInv
<1> QED
  BY <1>1, <1>2, <1>3, <1>4, <1>5 DEF Next

LEMMA Fetched == Spec => [](CallInv /\ FetchedInv)
  BY CallInit, CallStep, FetchedInit, FetchedStep, PTL DEF Spec

\* A VALID snapshot fetched for as_of holds nothing from after it, whatever
\* the adapter, however many rows come and however long the request takes.
THEOREM AlwaysPointInTime == Spec => []PointInTime
<1>1. CallInv /\ FetchedInv => PointInTime
  <2> SUFFICES ASSUME CallInv, FetchedInv, HasData, as_of # NULL PROVE PointInTime
    BY DEF PointInTime
  <2>1. /\ adapter \in DOMAIN Checks /\ answer \in Answer /\ Possible(answer)
        /\ stamp \in Time /\ ended \in Time /\ as_of \in Time
        /\ result = Outcome(ended, as_of) /\ result.quality = "VALID"
    BY DEF CallInv, FetchedInv, HasData
  <2> QED
    BY <2>1, DataOutcome DEF PointInTime
<1> QED
  BY <1>1, Fetched, PTL

(***************************************************************************)
(* What as_of changes.                                                     *)
(***************************************************************************)
\* The checks an adapter makes.
Known == {"status", "json", "root", "code", "provider", "received", "result",
          "levels", "time", "empty", "rows"}

LEMMA KnownChecks ==
  ASSUME adapter \in DOMAIN Checks, NEW i \in DOMAIN Checks[adapter]
  PROVE  i \in 1..8 /\ Checks[adapter][i] \in Known
<1> USE DEF Checks, Known
<1>1. CASE adapter \in {"orderbook", "funding", "open_interest"}
  BY <1>1 DEF OrderbookChecks, FundingChecks, OpenInterestChecks
<1>2. CASE adapter \in {"tickers", "instruments", "binance"}
  BY <1>2 DEF TickersChecks, InstrumentsChecks, BinanceChecks
<1>3. CASE adapter \in {"kraken", "deribit", "configured", "kline"}
  BY <1>3 DEF KrakenChecks, DeribitChecks, ConfiguredChecks, KlineChecks
<1> QED
  BY <1>1, <1>2, <1>3

\* Only the comparison of received_at and that of the rows look at as_of.
LEMMA AsOfChecks ==
  ASSUME NEW check \in Known, NEW received, NEW time
  PROVE  /\ check \notin {"received", "rows"} =>
               /\ Fails(check, received, time) <=> Fails(check, received, NULL)
               /\ ClassOf(check, time) = ClassOf(check, NULL)
         /\ check = "received" => ~Fails(check, received, NULL)
         /\ check = "rows" /\ adapter # "kline" /\ Fails(check, received, NULL) =>
               Fails(check, received, time)
<1>1. CASE check \notin {"received", "rows"}
  <2>1. CASE check \in {"status", "json", "root", "code"}
    BY <2>1 DEF Fails, ClassOf
  <2>2. CASE check \in {"provider", "result", "levels"}
    BY <2>2 DEF Fails, ClassOf
  <2>3. CASE check \in {"time", "empty"}
    <3>1. ClassOf(check, time) = ClassOf(check, NULL)
      BY <2>3 DEF ClassOf
    <3> QED
      BY <2>3, <3>1 DEF Fails
  <2> QED
    BY <1>1, <2>1, <2>2, <2>3 DEF Known
<1>2. CASE check = "received"
  BY <1>2 DEF Fails
<1>3. CASE check = "rows"
  <2>1. ASSUME adapter # "kline", RowsRefused(answer.rows, NULL)
        PROVE  RowsRefused(answer.rows, time)
    BY <2>1 DEF RowsRefused, Late
  <2> QED
    BY <1>3, <2>1 DEF Fails
<1> QED
  BY <1>1, <1>2, <1>3

\* Rows that are refused as bad for some as_of are bad for every one.
LEMMA RowsClass ==
  ASSUME NEW rows \in Seq(Time \cup {BAD}), NEW time,
         \E i \in DOMAIN rows : rows[i] = BAD \/ Late(rows[i], time)
  PROVE  \/ FirstRefused(rows, time) = "pit_unavailable"
         \/ /\ FirstRefused(rows, time) = "schema_error"
            /\ FirstRefused(rows, NULL) = "schema_error"
            /\ \E i \in DOMAIN rows : rows[i] = BAD
<1> DEFINE refused == {k \in DOMAIN rows : rows[k] = BAD \/ Late(rows[k], time)}
           First(k, t) == /\ rows[k] = BAD \/ Late(rows[k], t)
                          /\ \A j \in 1..(k - 1) : rows[j] # BAD /\ ~Late(rows[j], t)
           i == CHOOSE k \in DOMAIN rows : First(k, time)
           b == CHOOSE k \in DOMAIN rows : First(k, NULL)
<1>1. Len(rows) \in Nat /\ DOMAIN rows = 1..Len(rows)
  OBVIOUS
<1>2. PICK m \in refused : \A j \in refused : m <= j
  <2>1. refused \in SUBSET (1..Len(rows)) /\ refused # {}
    BY <1>1
  <2> HIDE DEF refused
  <2> QED
    BY <1>1, <2>1, Least
<1>3. \E k \in DOMAIN rows : First(k, time)
  <2>1. \A j \in 1..(m - 1) : j \in DOMAIN rows /\ ~(m <= j)
    BY <1>1
  <2>2. First(m, time)
    BY <1>2, <2>1
  <2> QED
    BY <2>2
<1>4. /\ i \in DOMAIN rows /\ First(i, time)
      /\ FirstRefused(rows, time) =
            IF rows[i] = BAD THEN "schema_error" ELSE "pit_unavailable"
  <2>1. i \in DOMAIN rows /\ First(i, time)
    <3> HIDE DEF First
    <3> QED
      BY <1>3
  <2> QED
    BY <2>1 DEF FirstRefused
<1> HIDE DEF i
<1>5. ASSUME rows[i] = BAD
      PROVE  FirstRefused(rows, NULL) = "schema_error"
  <2>1. First(i, NULL)
    BY <1>4, <1>5 DEF Late
  <2>2. b \in DOMAIN rows /\ First(b, NULL)
    <3> HIDE DEF First
    <3> QED
      BY <1>4, <2>1
  <2>3. FirstRefused(rows, NULL) = IF rows[b] = BAD THEN "schema_error"
                                   ELSE "pit_unavailable"
    BY DEF FirstRefused
  <2>4. rows[b] = BAD
    <3> HIDE DEF b
    <3> QED
      BY <2>2 DEF Late
  <2> QED
    BY <2>3, <2>4
<1> QED
  BY <1>4, <1>5

LEMMA Restricts ==
  ASSUME adapter \in DOMAIN Checks \ {"kline"}, answer \in Answer,
         NEW now, NEW time
  PROVE  LET out  == Outcome(now, time)
             free == Outcome(now, NULL)
         IN  \/ out = free
             \/ out.quality = "UNAVAILABLE" /\ out.error_class = "pit_unavailable"
             \/ /\ out.quality = "VALID" /\ free.quality = "VALID"
                /\ Len(out.rows) < Len(free.rows)
<1> DEFINE received == IF adapter \in StampsBody THEN now ELSE stamp
           checks == Checks[adapter]
           F(t) == Failed(received, t)
           First(t) == CHOOSE i \in F(t) : \A j \in F(t) : i <= j
           At(t) == IF ClassOf(checks[First(t)], t) = "undecodable" /\ adapter # "configured"
                    THEN now ELSE received
           rows == answer.rows
<1>1. /\ \A t : F(t) = {} => Outcome(now, t) = Valid(received, Kept(rows, t))
      /\ \A t : F(t) # {} =>
            Outcome(now, t) = IF checks[First(t)] = "time" THEN Raised
                              ELSE Failure(At(t), ClassOf(checks[First(t)], t))
  BY DEF Outcome, Failed, Refused
<1>2. /\ \A t : \A i : i \in F(t) <=> i \in DOMAIN checks /\ Fails(checks[i], received, t)
      /\ \A t : F(t) \subseteq DOMAIN checks
  BY DEF Failed
<1>3. \A i \in F(NULL) : i \in F(time)
  BY <1>2, KnownChecks, AsOfChecks
<1>4. \A i \in F(time) : checks[i] \notin {"received", "rows"} => i \in F(NULL)
  BY <1>2, KnownChecks, AsOfChecks
<1>5. rows \in Seq(Time \cup {BAD})
  BY AnswerRows
<1>6. CASE F(time) = {}
  <2>1. F(NULL) = {}
    BY <1>3, <1>6
  <2>2. /\ Outcome(now, time) = Valid(received, Kept(rows, time))
        /\ Outcome(now, NULL) = Valid(received, rows)
    BY <1>1, <1>5, <1>6, <2>1, KeptRows
  <2>3. Kept(rows, time) = rows \/ Len(Kept(rows, time)) < Len(rows)
    BY <1>5, KeptRows
  <2> QED
    BY <2>2, <2>3 DEF Valid
<1>7. CASE F(time) # {}
  <2>1. DOMAIN checks \in SUBSET (1..8)
    BY KnownChecks
  <2>2. PICK k \in F(time) : \A j \in F(time) : k <= j
    <3>1. F(time) \in SUBSET (1..8)
      BY <1>2, <2>1
    <3> HIDE DEF F
    <3> QED
      BY <1>7, <3>1, Least
  <2>3. F(time) \subseteq Nat /\ F(NULL) \subseteq Nat
    BY <1>2, <2>1
  <2>4. First(time) = k
    <3> HIDE DEF F
    <3> QED
      BY <2>2, <2>3, FirstIs
  <2>5. k \in F(NULL) => First(NULL) = k
    <3> HIDE DEF F
    <3> QED
      BY <1>3, <2>2, <2>3, FirstIs
  <2> DEFINE check == checks[k]
             class == ClassOf(check, time)
  <2>6. Outcome(now, time) =
          IF check = "time" THEN Raised
          ELSE Failure(IF class = "undecodable" /\ adapter # "configured"
                       THEN now ELSE received, class)
    BY <1>1, <1>7, <2>4
  <2>7. ASSUME k \in F(NULL), ClassOf(check, NULL) = class
        PROVE  Outcome(now, time) = Outcome(now, NULL)
    BY <1>1, <2>5, <2>6, <2>7
  <2>8. ASSUME check # "time", class = "pit_unavailable"
        PROVE  /\ Outcome(now, time).quality = "UNAVAILABLE"
               /\ Outcome(now, time).error_class = "pit_unavailable"
    BY <2>6, <2>8 DEF Failure
  <2>9. CASE check \notin {"received", "rows"}
    BY <1>2, <1>4, <2>7, <2>9, KnownChecks, AsOfChecks
  <2>10. CASE check = "received"
    <3>1. class = "pit_unavailable"
      BY <2>10 DEF ClassOf
    <3> QED
      BY <2>8, <2>10, <3>1
  <2>11. CASE check = "rows"
    <3>1. RowsRefused(rows, time)
      BY <1>2, <2>11, LateChecks
    <3>2. CASE adapter = "deribit"
      <4>1. class = "pit_unavailable"
        BY <2>11, <3>2 DEF ClassOf
      <4> QED
        BY <2>8, <2>11, <4>1
    <3>3. CASE adapter # "deribit"
      <4>1. /\ class = FirstRefused(rows, time)
            /\ ClassOf(check, NULL) = FirstRefused(rows, NULL)
        BY <2>11, <3>3 DEF ClassOf
      <4>2. \E i \in DOMAIN rows : rows[i] = BAD \/ Late(rows[i], time)
        BY <3>1, <3>3 DEF RowsRefused
      <4>3. CASE class = "pit_unavailable"
        BY <2>8, <2>11, <4>3
      <4>4. CASE class # "pit_unavailable"
        <5>1. /\ ClassOf(check, NULL) = class
              /\ \E i \in DOMAIN rows : rows[i] = BAD
          BY <1>5, <4>1, <4>2, <4>4, RowsClass
        <5>2. RowsRefused(rows, NULL)
          BY <3>3, <5>1 DEF RowsRefused
        <5>3. k \in F(NULL)
          BY <1>2, <2>11, <5>2 DEF Fails
        <5> QED
          BY <2>7, <5>1, <5>3
      <4> QED
        BY <4>3, <4>4
    <3> QED
      BY <3>2, <3>3
  <2> QED
    BY <2>9, <2>10, <2>11
<1> QED
  BY <1>6, <1>7

\* as_of only takes data away, whatever the adapter and the answer.
THEOREM AsOfAlwaysRestricts == Spec => []AsOfOnlyRestricts
<1>1. FetchedInv => AsOfOnlyRestricts
  <2> SUFFICES ASSUME FetchedInv, ended # NULL, adapter # "kline"
               PROVE  AsOfOnlyRestricts
    BY DEF AsOfOnlyRestricts
  <2>1. /\ adapter \in DOMAIN Checks \ {"kline"} /\ answer \in Answer
        /\ result = Outcome(ended, as_of)
    BY DEF FetchedInv
  <2>2. result.quality = "VALID" => HasData
    <3> SUFFICES ASSUME result.quality = "VALID" PROVE result # NULL
      BY DEF HasData
    <3> DEFINE received == IF adapter \in StampsBody THEN ended ELSE stamp
               kept == Kept(answer.rows, as_of)
    <3>1. result = Valid(received, kept)
      BY <2>1, ValidOutcome
    <3>2. received \in Time /\ kept \in Seq(Time \cup {BAD})
      BY <2>1, AnswerRows, KeptRows DEF FetchedInv
    <3> HIDE DEF received, kept
    <3> QED
      BY <3>1, <3>2, FetchAssumption DEF Valid
  <2> DEFINE free == Outcome(ended, NULL)
  <2>3. \/ result = free
        \/ result.quality = "UNAVAILABLE" /\ result.error_class = "pit_unavailable"
        \/ /\ result.quality = "VALID" /\ free.quality = "VALID"
           /\ Len(result.rows) < Len(free.rows)
    BY <2>1, Restricts
  <2> HIDE DEF free
  <2> QED
    BY <2>2, <2>3 DEF AsOfOnlyRestricts, free
<1> QED
  BY <1>1, Fetched, PTL

(***************************************************************************)
(* What BybitKlineDataSource returns.                                      *)
(***************************************************************************)
LEMMA WholeKline ==
  ASSUME adapter = "kline", answer \in Answer, NEW now \in Time, stamp \in Time,
         NEW time \in Time, Outcome(now, time).quality = "VALID"
  PROVE  LET rows == Outcome(now, time).rows
         IN  /\ rows # <<>>
             /\ {rows[i] : i \in DOMAIN rows}
                   = {answer.rows[i] : i \in DOMAIN answer.rows} \cap 0..(time - 1)
             /\ \A i \in DOMAIN rows : rows[i] = rows[1] + i - 1
<1> DEFINE all == answer.rows
           kept == Kept(all, time)
           rows == Sorted(kept)
<1>1. /\ Outcome(now, time).rows = rows
      /\ ~RowsRefused(all, time)
  <2>1. adapter \in DOMAIN Checks /\ time # NULL
    BY FetchAssumption DEF Checks, Time
  <2>2. \E i \in DOMAIN Checks[adapter] : Checks[adapter][i] = "rows"
    BY <2>1, ComparesTimes DEF CandleAdapters
  <2> QED
    BY <2>1, <2>2, ValidOutcome, LateChecks DEF Valid
<1>2. /\ \A i \in DOMAIN all : all[i] # BAD
      /\ kept # <<>> /\ ~Gapped(rows)
  BY <1>1 DEF RowsRefused
<1>3. all \in Seq(Time \cup {BAD}) /\ time \in Int /\ time # NULL
  BY AnswerRows, FetchAssumption DEF Time
<1>4. \A i \in DOMAIN all : all[i] \in Time /\ (Late(all[i], time) <=> all[i] >= time)
  BY <1>2, <1>3 DEF Late, CandleAdapters
<1>5. /\ kept \in Seq(Time \cup {BAD})
      /\ \A i \in DOMAIN kept : \E j \in DOMAIN all :
            kept[i] = all[j] /\ ~Late(all[j], time)
      /\ \A j \in DOMAIN all : ~Late(all[j], time) =>
            \E i \in DOMAIN kept : kept[i] = all[j]
  BY <1>3, KeptRows
<1> HIDE DEF all, kept, rows
<1>6. \A i \in DOMAIN kept : kept[i] \in 0..(time - 1)
  BY <1>3, <1>4, <1>5 DEF Time
<1>7. {kept[i] : i \in DOMAIN kept} = {all[i] : i \in DOMAIN all} \cap 0..(time - 1)
  <2>1. \A j \in DOMAIN all : all[j] \in 0..(time - 1) => ~Late(all[j], time)
    BY <1>3, <1>4
  <2> QED
    BY <1>5, <1>6, <2>1
<1>8. kept \in Seq(Int) /\ Len(kept) \in Nat /\ Len(kept) # 0
  BY <1>2, <1>5, <1>6
<1>9. /\ rows \in Seq(Int) /\ Len(rows) = Len(kept)
      /\ {rows[i] : i \in DOMAIN rows} = {kept[i] : i \in DOMAIN kept}
  BY <1>8, SortedRows DEF rows
<1>10. \A i \in DOMAIN rows : rows[i] = rows[1] + i - 1
  <2> DEFINE n == Len(rows)
  <2>1. n \in Nat /\ rows \in [1..n -> Int] /\ DOMAIN rows = 1..n
    BY <1>9
  <2>2. \A i \in 1..(n - 1) : rows[i + 1] = rows[i] + 1
    BY <1>2 DEF Gapped
  <2> HIDE DEF n
  <2>3. PICK d \in Int : d = 1
    OBVIOUS
  <2>4. \A i \in 1..(n - 1) : rows[i + 1] = rows[i] + d
    BY <2>2, <2>3
  <2>5. \A i \in 1..n : rows[i] = rows[1] + (i - 1) * d
    BY <2>1, <2>4, Progression
  <2>6. \A i \in 1..n : rows[1] \in Int
    BY <2>1
  <2> QED
    BY <2>1, <2>3, <2>5, <2>6
<1>11. rows # <<>>
  BY <1>8, <1>9
<1> QED
  BY <1>1, <1>7, <1>9, <1>10, <1>11 DEF all

\* Every closed candle of the answer is returned, once, in order and without
\* a hole, however many there are.
THEOREM KlineAlwaysComplete == Spec => []KlineComplete
<1>1. FetchedInv => KlineComplete
  <2> SUFFICES ASSUME FetchedInv, adapter = "kline", HasData PROVE KlineComplete
    BY DEF KlineComplete
  <2>1. /\ answer \in Answer /\ stamp \in Time /\ ended \in Time /\ as_of \in Time
        /\ result = Outcome(ended, as_of) /\ Outcome(ended, as_of).quality = "VALID"
    BY DEF FetchedInv, HasData
  <2> DEFINE rows == Outcome(ended, as_of).rows
  <2>2. /\ rows # <<>>
        /\ {rows[i] : i \in DOMAIN rows}
              = {answer.rows[i] : i \in DOMAIN answer.rows} \cap 0..(as_of - 1)
        /\ \A i \in DOMAIN rows : rows[i] = rows[1] + i - 1
    BY <2>1, WholeKline
  <2> HIDE DEF rows
  <2> QED
    BY <2>1, <2>2 DEF KlineComplete, rows
<1> QED
  BY <1>1, Fetched, PTL
=============================================================================
