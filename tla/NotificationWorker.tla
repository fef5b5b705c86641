------------------------- MODULE NotificationWorker -------------------------
(***************************************************************************)
(* Delivery of the outbox by concurrent workers                            *)
(* (src/src/tabdeal_signal/notifications/worker.py) over the outbox table  *)
(* (src/src/tabdeal_signal/persistence/sqlite.py).                         *)
(*                                                                         *)
(* Each worker runs run_once in a loop, on its own connection.  A step is  *)
(* what no other process can interrupt: one SQL transaction, one reading   *)
(* of the clock or one call of the transport.  The SELECT of a claim runs  *)
(* in autocommit mode (sqlite3 opens a transaction at the first UPDATE),   *)
(* so a claim is two steps: choosing rows, and updating those that still   *)
(* satisfy the WHERE clause.  A finalising operation is two steps too: the *)
(* clock is read (checked_at) before the UPDATE waits for the write lock.  *)
(*                                                                         *)
(* A claim draws a fresh owner id and one fresh token per row.  Here the   *)
(* owner is the worker and the rows of one claim share one fresh token: a  *)
(* token is only ever compared with the row it was drawn for.              *)
(*                                                                         *)
(* run_once and recover_expired_processing take an optional instant `now`, *)
(* any instant at all, in the place of the clock.  The instants that       *)
(* callers pass are the constant Instants: none of them need have come.    *)
(***************************************************************************)
EXTENDS OutboxTable

CONSTANTS
    MaxAttempts,   \* max_attempts
    BaseBackoff,   \* base_backoff_seconds
    MaxBackoff,    \* the longest delay that stays within datetime's dates
    Malformed,     \* event ids that are blank for str.strip() but not for
                   \* SQLite's trim(), in rows that another program wrote
    Instants,      \* instants that callers pass as `now`, behind the clock
                   \* or ahead of it
    MaxTime        \* bound on the clock (of the model, not of the code)

Workers == Owners

Delay(n) == BaseBackoff * 2^(n - 1)

ASSUME WorkerAssumption ==
    /\ MaxAttempts \in Nat \ {0}
    /\ BaseBackoff \in Nat \ {0}
    /\ MaxBackoff \in Nat
    /\ Malformed \subseteq Events
    /\ Instants \subseteq Nat
    /\ MaxTime \in Nat

\* A fact of arithmetic (Nat is closed under ^) that the provers lack.
ASSUME DelayAssumption == \A n \in 1..MaxAttempts : Delay(n) \in Nat \ {0}

VARIABLES
    pc,            \* where each worker is in run_once
    current,       \* run_once's current
    selected,      \* claim_pending_outbox's rows
    token,         \* lease_token of the records
    batch,         \* claimed records not yet finalised
    checked,       \* checked_at (timestamp) of a finalising operation
    acked          \* external: per event, the attempts whose send returned

workerVars == <<pc, current, selected, token, batch, checked>>
vars == <<outbox, clock, workerVars, acked>>

\* A claimed record, as far as the worker reads it.
Record == [event_id : Events, attempt_count : Nat \ {0}]

PC == {"idle", "select", "update", "process", "malformed", "sent", "failed"}

Marking == {"malformed", "sent", "failed"}

TypeOK ==
    /\ outbox \in [Events -> Row \cup {NULL}]
    /\ clock \in Time
    /\ pc \in [Workers -> PC]
    /\ current \in [Workers -> OptTime]
    /\ selected \in [Workers -> SUBSET Events]
    /\ token \in [Workers -> Tokens \cup {NULL}]
    /\ batch \in [Workers -> SUBSET Record]
    /\ checked \in [Workers -> OptTime]
    /\ acked \in [Events -> SUBSET Nat]

Init ==
    /\ outbox = [e \in Events |-> NULL]
    /\ clock = 0
    /\ pc = [w \in Workers |-> "idle"]
    /\ current = [w \in Workers |-> NULL]
    /\ selected = [w \in Workers |-> {}]
    /\ token = [w \in Workers |-> NULL]
    /\ batch = [w \in Workers |-> {}]
    /\ checked = [w \in Workers |-> NULL]
    /\ acked = [e \in Events |-> {}]

----------------------------------------------------------------------------
(***************************************************************************)
(* The surroundings: time, and the decision writer that fills the outbox   *)
(* (module DecisionStore models it in full).                               *)
(***************************************************************************)
Tick ==
    /\ clock < MaxTime
    /\ clock' = clock + 1
    /\ UNCHANGED <<outbox, workerVars, acked>>

\* event_id is the primary key, idempotency_key is UNIQUE; created_at was
\* read some time before the transaction.
Enqueue(e, k, p) ==
    /\ ~Exists(e)
    /\ \A f \in Events : Exists(f) => outbox[f].idempotency_key # k
    /\ \E created \in 0..clock :
          outbox' = [outbox EXCEPT ![e] = NewRow(k, p, created)]
    /\ UNCHANGED <<clock, workerVars, acked>>

\* What an operation may take for the time: the clock as it is or as it was
\* read some time ago, or an instant that its caller passed.
Nows == (0..clock) \cup Instants

(***************************************************************************)
(* recover_expired_processing(now): one UPDATE moves every row whose lease *)
(* has expired at that instant.                                            *)
(***************************************************************************)
Recover(now) ==
    /\ \E e \in Events : Exists(e) /\ Expired(outbox[e], now)
    /\ outbox' = [e \in Events |->
                    IF Exists(e) /\ Expired(outbox[e], now)
                    THEN RecoveredRow(outbox[e], now)
                    ELSE outbox[e]]
    /\ UNCHANGED <<clock, workerVars, acked>>

----------------------------------------------------------------------------
(***************************************************************************)
(* run_once.                                                               *)
(***************************************************************************)
\* The pass is over: run_once returned or raised, its locals are gone.
EndPass(w) ==
    /\ pc' = [pc EXCEPT ![w] = "idle"]
    /\ current' = [current EXCEPT ![w] = NULL]
    /\ selected' = [selected EXCEPT ![w] = {}]
    /\ token' = [token EXCEPT ![w] = NULL]
    /\ batch' = [batch EXCEPT ![w] = {}]
    /\ checked' = [checked EXCEPT ![w] = NULL]

\* run_once(now): current = now or _utc_now()
RunOnce(w, now) ==
    /\ pc[w] = "idle"
    /\ pc' = [pc EXCEPT ![w] = "select"]
    /\ current' = [current EXCEPT ![w] = now]
    /\ UNCHANGED <<outbox, clock, selected, token, batch, checked, acked>>

\* claim_pending_outbox: SELECT ... ORDER BY created_at, event_id LIMIT ?
ClaimSelect(w) ==
    /\ pc[w] = "select"
    /\ pc' = [pc EXCEPT ![w] = "update"]
    /\ selected' = [selected EXCEPT ![w] = FirstEligible(current[w])]
    /\ UNCHANGED <<outbox, clock, current, token, batch, checked, acked>>

\* Mutant of Claimable: the UPDATE does not repeat the WHERE clause.
ClaimableUnchecked(w) == selected[w]

\* The selected rows that still satisfy the WHERE clause.
Claimable(w) ==
    {e \in selected[w] : Exists(e) /\ Eligible(outbox[e], current[w])}

FreshTokens ==
    {t \in Tokens :
        /\ \A e \in Events : Exists(e) => outbox[e].lease_token # t
        /\ \A w \in Workers : token[w] # t}

\* claim_pending_outbox: the UPDATEs of one transaction, and the re-reads.
ClaimUpdate(w) ==
    /\ pc[w] = "update"
    /\ Claimable(w) # {}
    /\ \E t \in FreshTokens :
          /\ outbox' = [e \in Events |->
                          IF e \in Claimable(w)
                          THEN ClaimedRow(outbox[e], current[w], w, t)
                          ELSE outbox[e]]
          /\ token' = [token EXCEPT ![w] = t]
    /\ batch' = [batch EXCEPT ![w] =
                    {[event_id |-> e,
                      attempt_count |-> outbox[e].attempt_count + 1] :
                        e \in Claimable(w)}]
    /\ pc' = [pc EXCEPT ![w] = "process"]
    /\ selected' = [selected EXCEPT ![w] = {}]
    /\ UNCHANGED <<clock, current, checked, acked>>

\* Nothing was eligible, or others claimed it first: run_once returns 0.
ClaimNothing(w) ==
    /\ pc[w] = "update"
    /\ Claimable(w) = {}
    /\ EndPass(w)
    /\ UNCHANGED <<outbox, clock, acked>>

----------------------------------------------------------------------------
(***************************************************************************)
(* _process_record, for the records in the order of the claim.             *)
(***************************************************************************)
IsFirst(w, r) ==
    /\ r \in batch[w]
    /\ \A s \in batch[w] \ {r} : Before(r.event_id, s.event_id)

\* Blank event_id: on to quarantine_outbox_record, without a send.
RejectEventId(w) ==
    /\ pc[w] = "process"
    /\ \E r \in batch[w] : IsFirst(w, r) /\ r.event_id \in Malformed
    /\ pc' = [pc EXCEPT ![w] = "malformed"]
    /\ UNCHANGED <<outbox, clock, current, selected, token, batch, checked, acked>>

SendReturns(w) ==
    /\ pc[w] = "process"
    /\ \E r \in batch[w] :
          /\ IsFirst(w, r)
          /\ r.event_id \notin Malformed
          /\ acked' = [acked EXCEPT ![r.event_id] = @ \cup {r.attempt_count}]
    /\ pc' = [pc EXCEPT ![w] = "sent"]
    /\ UNCHANGED <<outbox, clock, current, selected, token, batch, checked>>

\* Mutants of Exhausted: one attempt less, one attempt more.
ExhaustedEarly(r) == r.attempt_count + 1 >= MaxAttempts
ExhaustedLate(r) == r.attempt_count > MaxAttempts

Exhausted(r) == r.attempt_count >= MaxAttempts

\* _plus_seconds has no date for the next attempt.
BackoffOverflows(r) == ~Exhausted(r) /\ Delay(r.attempt_count) > MaxBackoff

\* send, json.loads or the check of the decoded payload raises.
SendRaises(w) ==
    /\ pc[w] = "process"
    /\ \E r \in batch[w] :
          IsFirst(w, r) /\ r.event_id \notin Malformed /\ ~BackoffOverflows(r)
    /\ pc' = [pc EXCEPT ![w] = "failed"]
    /\ UNCHANGED <<outbox, clock, current, selected, token, batch, checked, acked>>

\* One of them raises, and then timedelta or datetime raises OverflowError
\* out of run_once: the row keeps its lease, the rest of the batch too.
BackoffFails(w) ==
    /\ pc[w] = "process"
    /\ \E r \in batch[w] :
          IsFirst(w, r) /\ r.event_id \notin Malformed /\ BackoffOverflows(r)
    /\ EndPass(w)
    /\ UNCHANGED <<outbox, clock, acked>>

\* The _utc_now() of mark_outbox_* and quarantine_outbox_record.
ReadClock(w) ==
    /\ pc[w] \in Marking
    /\ checked[w] = NULL
    /\ checked' = [checked EXCEPT ![w] = clock]
    /\ UNCHANGED <<outbox, clock, pc, current, selected, token, batch, acked>>

\* On to the next record, or the pass is over.
NextRecord(w, r) ==
    IF batch[w] = {r}
    THEN EndPass(w)
    ELSE /\ pc' = [pc EXCEPT ![w] = "process"]
         /\ batch' = [batch EXCEPT ![w] = @ \ {r}]
         /\ checked' = [checked EXCEPT ![w] = NULL]
         /\ UNCHANGED <<current, selected, token>>

\* The WHERE of a finalising UPDATE finds the row of record r.
Owns(w, r) ==
    /\ Exists(r.event_id)
    /\ LeaseValid(outbox[r.event_id], w, token[w], checked[w])

\* A finalising UPDATE that changes one row.
Finalise(w, r, row) ==
    /\ checked[w] # NULL
    /\ IsFirst(w, r)
    /\ Owns(w, r)
    /\ outbox' = [outbox EXCEPT ![r.event_id] = row]
    /\ NextRecord(w, r)
    /\ UNCHANGED <<clock, acked>>

MarkSent(w) ==
    /\ pc[w] = "sent"
    /\ \E r \in batch[w] :
          Finalise(w, r, SentRow(outbox[r.event_id], current[w]))

MarkRetry(w) ==
    /\ pc[w] = "failed"
    /\ \E r \in batch[w] :
          /\ ~Exhausted(r)
          /\ Finalise(w, r, RetryRow(outbox[r.event_id],
                                    current[w] + Delay(r.attempt_count),
                                    "delivery error"))

MarkDeadLetter(w) ==
    /\ pc[w] = "failed"
    /\ \E r \in batch[w] :
          /\ Exhausted(r)
          /\ Finalise(w, r, DeadLetterRow(outbox[r.event_id], "delivery error"))

Quarantine(w) ==
    /\ pc[w] = "malformed"
    /\ \E r \in batch[w] :
          Finalise(w, r, DeadLetterRow(outbox[r.event_id], "invalid event_id"))

\* rowcount is not 1: ValueError leaves run_once, the rest of the batch too.
LeaseLost(w) ==
    /\ pc[w] \in Marking
    /\ checked[w] # NULL
    /\ \E r \in batch[w] : IsFirst(w, r) /\ ~Owns(w, r)
    /\ EndPass(w)
    /\ UNCHANGED <<outbox, clock, acked>>

(***************************************************************************)
(* The process dies, or SQLite gives up on the write lock (busy_timeout):  *)
(* the open transaction is rolled back and the pass is gone.               *)
(***************************************************************************)
Abort(w) ==
    /\ pc[w] # "idle"
    /\ EndPass(w)
    /\ UNCHANGED <<outbox, clock, acked>>

----------------------------------------------------------------------------
ProcessRecord(w) ==
    \/ RejectEventId(w)
    \/ SendReturns(w)
    \/ SendRaises(w)
    \/ BackoffFails(w)
    \/ ReadClock(w)
    \/ MarkSent(w)
    \/ MarkRetry(w)
    \/ MarkDeadLetter(w)
    \/ Quarantine(w)
    \/ LeaseLost(w)

\* The rest of a pass.
Continue(w) ==
    \/ ClaimSelect(w)
    \/ ClaimUpdate(w)
    \/ ClaimNothing(w)
    \/ ProcessRecord(w)

Worker(w) ==
    \/ \E now \in {clock} \cup Instants : RunOnce(w, now)
    \/ Continue(w)

Next ==
    \/ Tick
    \/ \E e \in Events, k \in Keys, p \in Payloads : Enqueue(e, k, p)
    \/ \E now \in Nows : Recover(now)
    \/ \E w \in Workers : Worker(w) \/ Abort(w)

Spec == Init /\ [][Next]_vars

----------------------------------------------------------------------------
(***************************************************************************)
(* Properties.                                                             *)
(***************************************************************************)
\* At every moment, and so after a crash at any point, the stored rows pass
\* the checks with which SQLiteDecisionPersistence opens the database
\* (_validate_schema_state): no interleaving locks the operator out.
RestartAccepts == \A e \in Events : Exists(e) => RowValid(outbox[e])

\* claim_pending_outbox: the leases that two workers took on one event do
\* not overlap, in the instants they were taken for, however stale the rows
\* are that each of them selected, and whoever recovered the row between.
\* When neither instant is ahead of the clock, two workers never both have
\* a record whose lease still runs.
ExclusiveLease ==
    \A v, w \in Workers : v # w =>
        \A r \in batch[v], s \in batch[w] : r.event_id = s.event_id =>
            \/ current[v] + LeaseSeconds <= current[w]
            \/ current[w] + LeaseSeconds <= current[v]

\* Row e is claimed again, or recovered, at an instant from which its lease
\* has run out.
TakenOver(e) ==
    \E now \in Nows :
        /\ outbox[e].locked_until <= now
        /\ \/ /\ outbox'[e].status = "PROCESSING"
              /\ outbox'[e].locked_until = now + LeaseSeconds
           \/ /\ outbox'[e].status = "RETRY"
              /\ outbox'[e].next_attempt_at = now

LeaseHonouredStep ==
    \A e \in Events :
        /\ Exists(e)
        /\ outbox[e].status = "PROCESSING"
        /\ outbox'[e] # outbox[e]
        => \/ \E w \in Workers :
                /\ outbox[e].lease_token = token[w]
                /\ \E r \in batch[w] : r.event_id = e /\ r \notin batch'[w]
           \/ TakenOver(e)

\* A leased row is changed by the worker holding its token, finalising its
\* record, or else by a claim or recovery for an instant at which the lease
\* has run out: never by the late finalisation of an earlier claim, nor by
\* a claim that chose the row before the lease was taken.  So as long as no
\* caller passes an instant ahead of the clock, a lease that runs is safe.
LeaseHonoured == [][LeaseHonouredStep]_vars

TerminalStableStep ==
    \A e \in Events :
        Exists(e) /\ outbox[e].status \in {"SENT", "DEAD_LETTER"}
        => outbox'[e] = outbox[e]

\* A row that was SENT or DEAD_LETTER stays exactly so: no late mark, claim
\* or recovery reopens it, and a row is never deleted.
TerminalStable == [][TerminalStableStep]_vars

NoEarlyRetryStep ==
    \A e \in Events :
        /\ Exists(e)
        /\ outbox[e].status = "RETRY"
        /\ outbox[e].next_attempt_at # NULL
        /\ outbox'[e].status = "PROCESSING"
        => \E now \in Nows :
              /\ outbox[e].next_attempt_at <= now
              /\ outbox'[e].locked_until = now + LeaseSeconds

\* A row waiting in RETRY is claimed for an instant, the one its new lease
\* starts from, that is not before next_attempt_at: also when the row was
\* marked or recovered after the claim selected it.  So as long as no caller
\* passes an instant ahead of the clock, no retry is early.
NoEarlyRetry == [][NoEarlyRetryStep]_vars

\* A row is SENT only if the transport accepted the event, and in the very
\* attempt the row counts: the success of an attempt whose lease was lost
\* is never booked on a later one.
SentWasAcknowledged ==
    \A e \in Events :
        Exists(e) /\ outbox[e].status = "SENT"
        => outbox[e].attempt_count \in acked[e]

\* One attempt of one event is made by one worker, even when a lease ran
\* out and the row was claimed again.
AttemptsDistinct ==
    \A v, w \in Workers :
        v # w => batch[v] \cap batch[w] = {}

\* A row is given up only after max_attempts claims, or because its
\* event_id is blank.
DeadLetterExhausted ==
    \A e \in Events :
        Exists(e) /\ outbox[e].status = "DEAD_LETTER"
        => outbox[e].attempt_count >= MaxAttempts \/ e \in Malformed

----------------------------------------------------------------------------
(***************************************************************************)
(* What the documents say and the code does not do; each of these is       *)
(* refuted by a run.                                                       *)
(***************************************************************************)
NextNoCrash ==
    \/ Tick
    \/ \E e \in Events, k \in Keys, p \in Payloads : Enqueue(e, k, p)
    \/ \E now \in Nows : Recover(now)
    \/ \E w \in Workers : Worker(w)

SpecNoCrash == Init /\ [][NextNoCrash]_vars

\* "Process each claimed event independently so one malformed or failed
\* event does not stop the batch": records leave a batch one by one.
BatchIndependent ==
    [][\A w \in Workers : Cardinality(batch[w] \ batch'[w]) <= 1]_vars

----------------------------------------------------------------------------
(***************************************************************************)
(* What the properties above rest on: the inductive invariant.             *)
(***************************************************************************)
\* The locals of run_once: `current` is one of the instants, checked_at a
\* past reading of the clock, and records are there only after the claim,
\* with their token.
PassInv ==
    \A w \in Workers :
        /\ pc[w] = "idle" <=> current[w] = NULL
        /\ current[w] # NULL => current[w] \in Nows
        /\ checked[w] # NULL => checked[w] <= clock
        /\ pc[w] \in {"idle", "select", "update"} => batch[w] = {}
        /\ batch[w] # {} => token[w] # NULL

\* A record is of an existing row, counts an attempt that the row has had,
\* and is its worker's only record of that row.
RecordInv ==
    \A w \in Workers : \A r \in batch[w] :
        /\ Exists(r.event_id)
        /\ r.attempt_count <= outbox[r.event_id].attempt_count
        /\ \A s \in batch[w] : s.event_id = r.event_id => s = r

\* A row that left a lease that ended at this instant: others had to wait
\* for the end, and their leases start, or their retries are due, after it.
PassedOn(row, end) ==
    \/ row.status \in {"SENT", "DEAD_LETTER"}
    \/ row.status = "RETRY" /\ row.next_attempt_at # NULL /\ row.next_attempt_at >= end
    \/ row.status = "PROCESSING" /\ row.locked_until >= end + LeaseSeconds

\* A row that carries a worker's token is in the attempt that the worker's
\* record counts, and under its lease; one that does not was passed on.
LeaseInv ==
    \A w \in Workers : \A r \in batch[w] :
        IF outbox[r.event_id].lease_token = token[w]
        THEN /\ outbox[r.event_id].owner_id = w
             /\ outbox[r.event_id].attempt_count = r.attempt_count
             /\ outbox[r.event_id].locked_until = current[w] + LeaseSeconds
        ELSE PassedOn(outbox[r.event_id], current[w] + LeaseSeconds)

\* Why a worker is about to mark its first record.
OutcomeInv ==
    \A w \in Workers : \A r \in batch[w] :
        IsFirst(w, r) =>
           /\ pc[w] = "sent" => r.attempt_count \in acked[r.event_id]
           /\ pc[w] = "malformed" => r.event_id \in Malformed

AttemptsOf(e) == IF Exists(e) THEN outbox[e].attempt_count ELSE 0

\* What the transport accepted was an attempt of the row; a record whose
\* attempt it accepted is the first one of a worker about to mark it.
FreshInv ==
    /\ \A e \in Events : acked[e] \subseteq 1..AttemptsOf(e)
    /\ \A w \in Workers : \A r \in batch[w] :
          r.attempt_count \in acked[r.event_id] => pc[w] = "sent" /\ IsFirst(w, r)

\* What every step keeps, from the initial state on.
InductiveInv ==
    /\ TypeOK
    /\ RestartAccepts
    /\ PassInv
    /\ RecordInv
    /\ LeaseInv
    /\ ExclusiveLease
    /\ OutcomeInv
    /\ AttemptsDistinct
    /\ FreshInv

----------------------------------------------------------------------------
(***************************************************************************)
(* The life of the events, seen through the rows.                          *)
(***************************************************************************)
StatusOf(e) == IF Exists(e) THEN outbox[e].status ELSE "NONE"

Lifecycle == INSTANCE OutboxLifecycle WITH
    status   <- [e \in Events |-> StatusOf(e)],
    attempts <- [e \in Events |-> AttemptsOf(e)]

\* The workers and the table together keep the promises of the lifecycle:
\* every step of the code is one of its steps or changes nothing it sees.
ImplementsLifecycle == Lifecycle!Spec
=============================================================================
