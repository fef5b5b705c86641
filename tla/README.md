# TLA+ verification of the futures signal bot

Specifications, model-checking runs and machine-checked proofs for the code under
`src/src/tabdeal_signal/`. The bot takes point-in-time market snapshots, evaluates
a LONG and a SHORT strategy on them, turns the two results into one final decision,
stores the decision together with a notification in SQLite, and delivers the
notification from the stored outbox with retrying workers. It sends signals only;
it places no orders.

## 1. Inventory of the system

| Part (source) | State | Operations | Interaction and what is hard |
|---|---|---|---|
| Outbox lifecycle (`persistence/sqlite.py`) | table `outbox`: status, attempt count, lease (owner, token, `locked_until`), `next_attempt_at`, last error | `claim_pending_outbox`, `mark_outbox_sent/_retry/_dead_letter`, `quarantine_outbox_record`, `recover_expired_processing` | Several processes on one file. A claim is a SELECT in autocommit mode followed by UPDATEs; marks check a clock that was read before the lock; leases expire under running sends; a caller may pass any instant as `now` |
| Decision store (`persistence/sqlite.py`) | tables `decisions`, `outbox` | `persist`, opening checks (`_validate_schema_state`) | Preflight read and insert race; event ids shared by two keys; crash before or after the commit |
| Worker (`notifications/worker.py`) | the claimed batch, `current` | `run_once`, `_process_record` | Sends one by one under a lease taken for the whole batch; an exception of a mark, or of a backoff beyond the last date, ends the pass |
| Transport (`notifications/transport.py`) | none | `send` | External HTTP; a send may have succeeded although the process dies before recording it |
| In-memory persistence (`persistence/in_memory.py`) | dictionary under a lock | `persist` | Reference for what `persist` promises |
| In-memory outbox and dispatcher (`persistence/in_memory_outbox.py`, `notification/dispatcher.py`) | messages, leases, token sequence | `enqueue`, `acquire_lease`, `release_lease`, `mark_delivered`, `dispatch_outbox_message` | Threads; a dispatch uses a message and a lease read earlier |
| Decision pipeline (`decision/*.py`, `risk/*.py`, `strategy/conflict.py`, `strategy/isolation.py`) | none | strategy evaluations, conflict gate, risk gate, final decision | Injected resolvers and policies may answer anything; fail-closed order of the gates |
| Strategy (`strategy/engine.py`) | none | swings, trend, BOS/CHOCH, breakout | No look-ahead; boundary comparisons of times |
| Signal identity (`decision/identity.py`) | none | `build_signal_id` | The joined parts may contain the separator; what happens when two identities coincide is decided by `persist` |
| Market data (`data/*.py`) | snapshots registered per request | constructors, `register`, `snapshot`, `ingest`, series integrity, alignment | `register` checks before it takes the lock; three places draw the line between closed and not closed |
| HTTP sources (`data_sources/*.py`) | none | `fetch_snapshot` of nine adapters, `snapshot` of the kline adapter | Answers that are late, broken or errors; the order of the checks decides what the caller sees; unfinished candles |
| Replay source (`data_sources/replay.py`) | recorded snapshots, sorted | `fetch_snapshot(as_of)` by bisection | Boundaries of the bisection |
| Source tables (`registry.py`, `source_access.py`, `endpoint_contracts.py`, `runtime_config.py`, ...) | constants | lookups, checks at import | none at run time |

## 2. Modules

| Module | Models |
|---|---|
| `OutboxTable` | the rows of the two tables and the row updates of the SQL statements, as operators; the conditions checked when the database is opened |
| `NotificationWorker` | any number of workers over the outbox: `run_once` and `_process_record` at the grain of one SQL transaction, one clock reading or one send; crashes; `recover_expired_processing` |
| `OutboxLifecycle` | abstract: the life of an event, without workers, leases or time |
| `DecisionLog` | abstract: `persist` as one step; with `EventIdsUnique = FALSE` it is `InMemoryDecisionPersistence` |
| `DecisionStore` | `SQLiteDecisionPersistence.persist` step by step, concurrent writers |
| `DecisionIdentity` | `build_signal_id`, with SHA-256 taken to be injective |
| `SignalDelivery` | EXTENDS `DecisionStore` and `NotificationWorker`: a step of the composition is a step of a writer or of the delivery, over one outbox table and one clock |
| `LeasedDispatch` | the in-memory outbox and `dispatch_outbox_message` with threads |
| `DecisionPipeline` | one call of the decision pipeline after another: strategy evaluations, conflict gate, risk gates, final decision |
| `CandleSeries` | `validate_candle_series`, as predicates used by the modules below |
| `CandleAlignment` | `align_latest_closed_candle` and what it calls |
| `MarketData` | EXTENDS `CandleAlignment`: snapshots of candles, threads that register them in one `InMemoryMarketDataSource`, and `ingest` |
| `StrategyEngine` | the strategy on a market that grows candle by candle |
| `PublicFetch` | `fetch_snapshot` of nine HTTP adapters and `snapshot` of the kline adapter: request, checks, result; and the replay source |
| `DeliveryProgress` | EXTENDS `NotificationWorker`: unending time, passes that end before their leases, counted crashes and overflows, and the fairness of the delivery |
| `RowSequences` | a Python comprehension with a condition and `sorted`, on sequences, for the modules above |
| `NotificationWorkerProofs`, `SignalDeliveryProofs` | theorems about the delivery, its abstraction, its progress, and the composition with the store |
| `DataTheorems` | lemmas about finite sets of numbers and about the operators of `RowSequences`, used by the three modules that follow sequences |
| `LeasedDispatchProofs`, `DecisionPipelineProofs`, `StrategyEngineProofs`, `MarketDataProofs`, `PublicFetchProofs` | theorems about the module they are named after |
| `MC*` | constants, bounds, symmetry and fairness of the runs |

Which lines each definition stands for is in `PROJECT.json` (`map`).

### How state and actions correspond to the code

**Outbox.** `outbox` is the SQLite table, a function from event ids to rows or
`NULL`; the fields have the names of the columns. `clock` is real time in whole
seconds. Per worker, `pc`, `current`, `selected`, `token`, `batch` and `checked` are
the locals of `run_once`, `claim_pending_outbox` and the marks. An action is what can
be observed as one step: `RunOnce` begins a pass, `ClaimSelect` is the SELECT (in
autocommit mode, so other transactions may come after it), `ClaimUpdate` is the
transaction of UPDATEs which repeat the SELECT's condition, `SendReturns` and
`SendRaises` are the transport's answer, `ReadClock` is the reading of the mark's
`checked_at`, and `MarkSent`, `MarkRetry`, `MarkDeadLetter`, `Quarantine` and
`LeaseLost` are the mark with its exact-lease WHERE clause; the last is the ValueError
that ends the pass. `Abort` stands for the death of the process and for a database
that stays locked. `BackoffFails` is the OverflowError of `timedelta` or `datetime` when a
retry's delay leaves the range of dates: it leaves `run_once` and the rows keep their
leases. `MaxBackoff` is where that range ends, a parameter, so that a small instance
meets it (in the code it takes some thirty attempts).
`run_once` and `recover_expired_processing` take an optional `now` in the place of the
clock, any instant at all. `Instants` are those that callers pass, behind the clock or ahead
of it: `RunOnce(w, now)` takes the clock or one of them, `Recover(now)` also an earlier
reading of the clock (`Nows`). An instant that does not parse raises before anything is read, and
an empty one given to `run_once` is the clock; neither is a step of its own.
`acked` is a history variable: the attempts which the transport accepted.

**Store.** A writer of `DecisionStore` goes through the preflight read, the insert of
the decision, the insert of the outbox row and the commit. A unique key that is
already there sends it to the collision handling of the code, which reads again. The
composition adds nothing: `Write` leaves the workers' locals alone, `Deliver` the writers'.
Its instance takes the identities of `build_signal_id` for keys, as the documents
recommend, two of them coinciding.

**In-memory outbox.** `messages`, `leases` and `sequence` are the attributes of the
class; each method body under its lock is one step, with the computation before the
lock a step of its own (`AcquireCall`, then `AcquireLease` or `AcquireRefused`).
`request` and `lease` are what a thread holds in its hands while others run.

**Pipeline.** `pc` walks through the calls in their order. The strategy and risk
evaluators and the conflict resolver are injected in the code; here they answer
anything of their type, or raise. `blocking` is chosen for each call: then the resolver
is `BlockOnConflictResolver`, the one class the repository has. A call that raises returns no decision.

**Strategy.** `series` holds the candles of each symbol and timeframe. `Tick` moves
time and closes the candles that are due, each with any shape, or loses it.
`Evaluate` records in `live` the structure the evaluator found and when. Prices are
integers: the code only compares them.

**Market data.** `candles` is what a caller has put together; `Snapshots` are the
`MarketSnapshot`s its constructor accepts of them. `Register` is `register` up to the lock,
`Store` the part under it, `call` what the thread holds in between. `answered` is a history
variable: what `ingest` returned for which request.

**Sources.** `Checks[adapter]` is the order in which an adapter tests an answer, and
`Outcome` the snapshot that follows from the first test that fails. `stamp` is the
clock when the headers came; `ended` is a history variable, when the body had come. For
the kline adapter `as_of` is the request's `reference_time`. `fixtures` are the snapshots of
a replay source; `Replayed` picks one as the bisection does.

## 3. Runs

| Run | Instance | What it shows |
|---|---|---|
| `outbox` | 2 workers, 2 events in batches of 2, one with an invalid id, leases of 1 s, a clock of 0 and 1 and callers that pass the instants 0 and 2 or none, 3 claims and attempts (1 claim for the invalid id), a backoff that overflows at the second | leases on one event do not overlap and give way only to an instant at which they have run out, SENT means accepted, retries are claimed for instants that are not early, dead letters are exhausted or invalid, the database can be reopened at every state, `NotificationWorker` implements `OutboxLifecycle`; `InductiveInv`, the invariant of the proofs |
| `settle` | 2 workers, 2 events, one malformed, leases of 2 s, unending time, callers that leave `now` to the clock, 1 crash, a backoff that overflows on the second of 3 attempts | every stored event is in the end SENT or DEAD_LETTER; beyond `max_attempts` an event costs one attempt for each crash and each overflow in front of it; `ProgressInv`, the invariant of the proof |
| `end_to_end` | 2 writers, 1 worker, 4 requests that share keys and events and have clashing identities | a SIGNAL has its outbox row, only stored signals are sent, collisions have a reason in the store, `persist` implements `DecisionLog` and the composition implements `NotificationWorker` |
| `dispatch` | 2 threads with one owner id, 3 messages, 2 tokens | a lease has one owner, delivered means accepted, a running lease is not taken over |
| `pipeline` | 2 strategy codes, 2 times, any resolver or the repository's own | a SIGNAL passed every gate, conflicts are real and are not hidden, no side has priority |
| `signal` | 3 timeframes, 2 symbols, histories around a signal | eligible exactly when the three conditions hold; 15m candles alone do not end it; structure dated before an evaluation never changes |
| `market_data` | every series of up to 3 candles of 2 symbols and 2 timeframes over 6 instants, 4 requests, 2 threads, 3 contents | the answer is the last closed candle of a series that tiles the anchor's grid; one request has one answer; what is ingested is aligned without loss |
| `public_fetch` | 10 adapters and replay, 4 instants, answers of up to 2 rows, every list of recorded snapshots | nothing later than `as_of`, errors stay visible, `as_of` only takes data away, klines come whole, replay shows the last snapshot available |

The four runs of section 4 expect a violation.

**Why the bounds are enough.** The outbox code treats rows independently except for
the order of a batch: two rows in a batch and two workers show every interference.
`MaxClaims` and the set of tokens bound the claims, `MaxTime` the clock: three claims of a
row and the instants 0 to 2 hold a lease, its expiry under a running send, the takeover by the
other worker, the late mark of the first, a retry, an overflow and the last attempt. The clock stops at 1, so
that instant 2 is always ahead of it: a caller that passes it takes over a lease which still
runs by the clock, or claims a retry that is not due by it; instant 0 lies behind the clock from the first
tick on. For the invalid id one claim leads to its dead letter. Longer chains of takeovers are covered by
the proofs. `end_to_end` asks how the store and the delivery fit together, which instants play no part in: its
callers leave `now` to the clock (the proof of `ImplementsDelivery` is for any `Instants`). In the liveness run rows arrive at clock 0, before time passes, so that no
`created_at` has to be moved, and the clock does not end: at its bound a tick moves all
stored instants into the past instead, which the code cannot tell from time passing. A
swing needs two candles on each side, so the histories of the `signal` run stop inside
an unfinished swing and the market adds the candles that confirm it or break it. In the
sources, a test that fails first against one that would fail later needs at most two
rows and four instants (before, at and after `as_of`). Three candles are a series with a
neighbour on each side, and the six instants hold tiles of the grid, a gap, an overlap, wrong
durations and wrong phases; two threads with different contents for one request are every
race of `register`.

**Deadlock.** It is checked everywhere except where the bound is what stops the system:
a market at its last instant, and a series of the greatest length with every thread done.

**Fairness.** `LiveSpec` asks weak fairness of time (`PromptTick`) and of each worker's
own steps: `run_once` is called again and again by its caller, without `now`. Only then is
there progress to promise: a pass at an instant one lease behind the clock has every mark
rejected, and one far ahead of it leaves leases and retries behind that nobody who goes by the
clock may touch before. Nothing is asked of the
transport, of crashes, of arrivals or of the operator who may call the recovery. Ticks
are held back while a pass would outlive its own lease (`Prompt`): a pass longer than
the lease cannot mark anything, so without that no progress can be promised. Crashes
are finite; each costs an attempt. Overflows are not bounded: that the attempts still run
out, although an overflow drops the batch, is what the run shows.

## 4. Disagreements between code and documents

Four are runs whose one property is what the document says; TLC shows the behaviour that
breaks it. The quotations are in `PROJECT.json` (`findings`).

| Run | The document says | The code |
|---|---|---|
| `batch_independent` | a failure of one record does not stop the others | a lost lease raises out of `run_once` |
| `expired_mark` | an expired lease cannot mark | `mark_delivered` does not look at the expiry |
| `fetch_received` | `as_of` rejects what is received after it | the stamp is taken before the body |
| `closed_candles` | only closed candles enter a decision (`docs/ARCHITECTURE.md:18`) | the kline adapter keeps a candle that closes between the answer and `reference_time`, with the prices it had while it was forming |

The models follow the code, not the text, in these points too, which have no run:

- `docs/notification-worker-contract.md:22` moves a record to DEAD_LETTER at
  `max_attempts`; reclaiming an abandoned row adds an attempt without looking at `max_attempts` (what holds instead is
  `AttemptsPerCrash`).
- `docs/outbox-operations-runbook.md:22` has the operator pass `now` to
  `recover_expired_processing`, and `docs/notification-worker-contract.md:35` has the lease prevent
  other claims "during the lease window"; a `now` ahead of the clock ends a lease that still runs, and
  likewise makes `run_once` claim a retry before it is due. The tests use such instants
  (`tests/unit/test_sqlite_outbox_lifecycle.py:88-109` and `:114-134`), so the
  window is one of the instants passed, and this is no divergence; but what the table guarantees is relative to the
  instants it is given. `LeaseHonoured` and `NoEarlyRetry` say so: a lease gives way only to an
  instant at which it has run out, and a retry is claimed only for one that is not early.
  With no caller ahead of the clock this is protection by the clock (`NobodyAhead`,
  section 5). `ExclusiveLease`, `AttemptsDistinct` and `SentWasAcknowledged` hold as they
  stand, whatever instants are passed.
- `docs/outbox-lifecycle-contract.md:29` keeps the last error; a claim erases it.
- `docs/OUTBOX_STORAGE_CONTRACT.md:13` lets `enqueue` return False for a stored key; after
  the delivery the same message raises a collision, because the status is compared too.
- `notification/dispatcher.py:46` asks for a PENDING message before delivery; the status tested is that
  of the caller's copy.
- `docs/DECISION_IDENTITY_V1.md:30` and `:34`: the same decision with another processing
  timestamp has the same identity and is to be answered as a replay; `persist` compares the
  whole encoded request, the times included (`persistence/sqlite.py:307`), and raises
  `PersistenceCollisionError`.
- `docs/notification-worker-contract.md:13`, once more: a delay beyond the last date raises
  out of `run_once` (`notifications/worker.py:155`); the record stays PROCESSING until its
  lease ends, and the rest of the batch with it.
- `data_sources/replay.py:162` selects by `available_at` and not by `received_at`: a snapshot
  available before `as_of` and received after it is replayed, which a live source would
  have refused. `data_sources/static.py` ignores `as_of`.
- `docs/DECISION_IDENTITY_V1.md:22`: identities of parts that contain the separator can
  coincide.
- `docs/SERIES_INTEGRITY_CONTRACT_V1.md:15`: the symbols of a series are not compared.
- `docs/bybit-read-only-adapter.md:18` turns failures into quality states;
  `IncompleteRead`, `BadStatusLine` and out-of-range timestamps raise.
- `data_sources/deribit_public.py:112` keeps completed candles only; a candle that ends
  between the response and `as_of` is kept.

## 5. What is proved

TLAPS checks, for every value of the constants:

- **`NotificationWorkerProofs`**: `InductiveInv` with type correctness, `RestartAccepts`, `ExclusiveLease`,
  `LeaseHonoured`, `TerminalStable`, `NoEarlyRetry`, `SentWasAcknowledged`,
  `DeadLetterExhausted` and `AttemptsDistinct`, for any number of workers, events, seconds
  and tokens and any instants that callers pass. None of the properties is inductive alone. The invariant `InductiveInv` says in
  addition where each worker can be with what in its hands (`PassInv`), that a record
  is of an existing row and counts an attempt the row has had (`RecordInv`), that a row
  which carries a worker's token is in the attempt that the worker's record counts, and
  does carry it until the row was passed on: settled, or due again or leased anew from the end
  of the lease at the earliest (`LeaseInv`), that leases do not overlap
  (`ExclusiveLease`: a new lease starts where the row that was passed on allows it), why a worker is about to mark
  (`OutcomeInv`), and that an attempt a worker still has before it was not accepted yet
  (`FreshInv`). `LeaseInv` is the heart: freshness of tokens gives it at a claim, and
  the WHERE clauses of the other updates keep it. From it follow the exclusion of two
  holders and that SENT belongs to the attempt that was accepted. `InductiveInv` is an
  invariant of the run `outbox` too. Two corollaries say what this means by the clock: two workers
  that are not ahead of it never both hold a running lease of one event
  (`RunningLeasesExclusive`), and while no caller's instant is ahead of it, a running lease is
  left to its holder and no retry is early (`NobodyAhead`).
  In the same module, `NotificationWorker` implements `OutboxLifecycle`: every step
  is a step of the abstract event or a stutter; that a send is never a second one of its
  attempt is `FreshInv`, and that SENT follows an accepted send is `OutcomeInv`.
  And `AttemptsPerCrash`, under `LiveSpec`: `InductiveInv` survives the step that moves all
  stored instants into the past, since no running pass has read a clock of 0; a pass that
  ends before its lease (`PromptInv`), with no caller ahead of the clock, keeps its rows
  (`HoldInv`) and so finds each row it marks; hence a row leaves the
  hands of a worker only settled, or marked with an attempt to spare, or by a crash or an
  overflow, which raises the bound (`SpareInv`). `ProgressInv` joins them.
- **`SignalDeliveryProofs`**: the composition. First, each step of a writer is the step that
  `NotificationWorker` allows the outside world (`ImplementsDelivery`), which brings the
  invariant of the delivery into the composition, and with it every theorem above. With
  what it says of the rows, `SignalHasOutbox` is inductive: workers keep key and payload of
  a row (`SignalKept`), writers insert decision and row together. What a
  writer knows between its reads (`RaceInv`: rows are never deleted, so what it saw stays)
  gives `CollisionJustified`, and that each call of `persist` is one step of `DecisionLog`
  (`ImplementsLog`). `OnlySignalsSent` joins the two halves.
- **`LeasedDispatchProofs`**: `DispatchInv`, `SoleOwner`, `DeliveredWasAccepted`,
  `KeysUnique`, `DeliveredByOwner`, `RunningLeaseKept`. The invariant is that every lease
  and candidate has a token of its own drawn earlier (`TokenInv`) and what a thread holds
  at each point (`PhaseInv`).
- **`DecisionPipelineProofs`**: `PipelineInv`, `SignalPassedEveryGate`, `ConflictBlocks`,
  `ConflictReal`, `NoDirectionPriority`, for any reason codes, times and injected evaluators. `SidesInv` and
  `ConflictInv` carry the facts from gate to gate.
- **`StrategyEngineProofs`**: `NoRepaint`, `EligibleExactly` and `StaysEligible`,
  for any prices, histories and timeframe lengths. They rest on `MarketInv`, which adds to
  `NoRepaint` that every series is ordered and closed. A candle which closes at the current
  time adds no confirmed swing and no break event dated before it; the events of a series
  are therefore those of a shorter one and later ones. For `EligibleExactly` the filters of
  the evaluator are unfolded: the last of a sorted, filtered list of breaks is the break no
  later one follows, and the conditions of the two sides exclude each other.
- **`MarketDataProofs`**: `AnswersAgree`, for any threads, requests and snapshots; what was
  answered is what is registered, since the comparison under the lock only fills empty places.
  `AlignmentExact` and `AlignedIsLast`, for series of any length: a series that passes the
  pairwise checks and starts on the grid tiles it (`PassTiles`, and `TilesPass` for the
  converse), so the closed candles are a prefix; and the candles of a requested pair in a
  valid snapshot are all closed.
- **`PublicFetchProofs`**: `ProviderErrorKept`, `PointInTime`, `AsOfOnlyRestricts`,
  `KlineComplete` and `ReplayLatest`, for all adapters and answers of any length. The
  invariant `CallInv` says which answers can lie before the checks, `FetchedInv` what a
  result was computed from; the rest is that the first check that fails decides. For the
  kline adapter, sorted and filtered rows without a gap count up in steps of one interval.
- **`DataTheorems`**: what these three rest on. `Selected` keeps the rows that pass its
  condition, in order; `Sorted` has the same rows in order; a sequence that counts up in
  equal steps is a progression. The library's induction theorems take an operator as a
  parameter and cannot be used with the provers at hand, so an induction here is over a
  *set* of numbers (`Induction`: a set that holds 0 and with each number the next holds them
  all), and what is said of a prefix is said with its cardinality.

Assumptions, all evaluated by TLC in the runs: constants have their types, `NULL` is none
of the values it stands beside, the delay of a retry is positive (`DelayAssumption`, a
fact of arithmetic the provers lack), the histories a market starts with are snapshots the
code accepts, the symbol and timeframe that are asked for are among those there are, no
strategy has the reason code of the conflict block, and in `DeliveryProgress` the clock
reaches as far as a lease and there is a key for each event (bounds of the model, not of
the code).

Only model-checked: `EventuallySettled`, since liveness under fairness is out of the
prover's reach. Every other property of a passing run is the statement of a theorem, and so
holds for all values of the constants; what the runs add is that the interesting cases
occur. The four violations of section 4 are TLC's.

## 6. What is left out

- Types, time zones, finiteness and the syntax of fields in the value classes' constructors.
- Below-second precision, and clocks that run backwards or differ between machines.
- SQLite's own durability; a transaction is atomic and a commit is durable.
- The Telegram request and the message text; the transport accepts, fails, or the
  process dies.
- `worker.py` at the package's top level, which nothing imports.
- Tables of sources, endpoints, adapters and readiness gates: constants without state. The
  checks of them run once, at import, on these constants: either the package can be
  imported or it cannot, and a model over other tables would say nothing of it.
- `source_family_adapters.py`: constructors that give `_ConfiguredPublicSource` its hosts.
- The JSON form of replay fixtures, and `scripts/bybit_live_probe.py`, run by hand.
- In the sources, timestamps so large that `datetime` raises `OverflowError` inside a row
  (the orderbook's are modelled), and Deribit's methods other than charts.
- The candles of `bybit_kline.py` carry Bybit's interval codes ("60", "240") while the
  strategy asks for "1h" and "4h"; no code in the repository connects the two.

## 7. Plan

Done: the delivery path with its composition and proofs, the store, identities, the
in-memory outbox, the pipeline, series, alignment, snapshots and ingestion, the strategy, the
HTTP sources and the replay source. What could follow:

1. `StrategyEngine` and `DecisionPipeline` composed with the store: one decision of a
   snapshot and configuration under one identity, also when it is evaluated again later.
2. The kline adapter as the source of `StrategyEngine`'s series. The repository does not
   connect the two; a model would have to invent the connection.
3. Theorems about compositions: with one connection of pipeline and store, that a stored
   SIGNAL was eligible when it was decided (`SignalPassedEveryGate`, `EligibleExactly` and
   `SignalHasOutbox` are the parts).
