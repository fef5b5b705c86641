---------------------- MODULE NotificationWorkerProofs ----------------------
(***************************************************************************)
(* Proofs about NotificationWorker, for any sets of events, workers and    *)
(* tokens, any lease, batch size, backoff and number of attempts.          *)
(***************************************************************************)
EXTENDS DeliveryProgress, TLAPS

USE DEF Workers

----------------------------------------------------------------------------
(***************************************************************************)
(* The row updates, each a lemma: what row it makes, and that it is valid. *)
(***************************************************************************)
LEMMA ConstantFacts ==
  /\ LeaseSeconds \in Nat /\ LeaseSeconds > 0
  /\ NULL \notin Nat
  /\ NULL \notin Owners
  /\ NULL \notin Tokens
  /\ NULL \notin Errors
  BY TableAssumption

LEMMA NewRowType ==
  ASSUME NEW k \in Keys, NEW p \in Payloads, NEW t \in Time
  PROVE  NewRow(k, p, t) \in Row /\ RowValid(NewRow(k, p, t))
  BY DEF NewRow, Row, Status, Errors, Time, OptTime, RowValid,
         SentStateValid, DeadLetterValid, LeaseFieldsValid

LEMMA ClaimedRowType ==
  ASSUME NEW row \in Row, RowValid(row), NEW now \in Time,
         NEW w \in Owners, NEW t \in Tokens, Eligible(row, now)
  PROVE  /\ ClaimedRow(row, now, w, t) \in Row
         /\ RowValid(ClaimedRow(row, now, w, t))
<1>1. now + LeaseSeconds \in Nat
  BY ConstantFacts DEF Time
<1>2. ClaimedRow(row, now, w, t) \in Row
  <2>1. row.attempt_count + 1 \in Nat
    BY DEF Row
  <2> QED
    BY <1>1, <2>1 DEF ClaimedRow, Row, Status, OptTime
<1>3. row.status # "SENT" /\ row.sent_at = NULL
  BY DEF Eligible, RowValid, SentStateValid
<1>4. LeaseFieldsValid(ClaimedRow(row, now, w, t))
  BY <1>1, ConstantFacts DEF ClaimedRow, LeaseFieldsValid, Row
<1>5. SentStateValid(ClaimedRow(row, now, w, t))
  BY <1>3 DEF ClaimedRow, SentStateValid, Row
<1> QED
  BY <1>2, <1>4, <1>5 DEF ClaimedRow, RowValid, DeadLetterValid, Row, Status

LEMMA SentRowType ==
  ASSUME NEW row \in Row, NEW t \in Time
  PROVE  SentRow(row, t) \in Row /\ RowValid(SentRow(row, t))
<1>1. SentRow(row, t) \in Row
  BY DEF SentRow, Row, Status, OptTime, Time
<1>2. t # NULL
  BY ConstantFacts DEF Time
<1> QED
  BY <1>1, <1>2 DEF SentRow, RowValid, Row, Status, SentStateValid,
                    DeadLetterValid, LeaseFieldsValid

LEMMA RetryRowType ==
  ASSUME NEW row \in Row, RowValid(row), row.status = "PROCESSING",
         NEW t \in Time, NEW err \in Errors
  PROVE  RetryRow(row, t, err) \in Row /\ RowValid(RetryRow(row, t, err))
  BY ConstantFacts
  DEF RetryRow, Row, Status, Errors, Time, OptTime, RowValid,
      SentStateValid, DeadLetterValid, LeaseFieldsValid

\* The error texts are strings, NULL is not one of them.
LEMMA DeadLetterRowType ==
  ASSUME NEW row \in Row, RowValid(row), row.status = "PROCESSING",
         NEW err \in Errors, err # NULL
  PROVE  DeadLetterRow(row, err) \in Row /\ RowValid(DeadLetterRow(row, err))
  BY ConstantFacts
  DEF DeadLetterRow, Row, Status, Errors, Time, OptTime, RowValid,
      SentStateValid, DeadLetterValid, LeaseFieldsValid

LEMMA RecoveredRowType ==
  ASSUME NEW row \in Row, RowValid(row), NEW now \in Time, Expired(row, now)
  PROVE  RecoveredRow(row, now) \in Row /\ RowValid(RecoveredRow(row, now))
  BY ConstantFacts
  DEF RecoveredRow, Row, Status, Errors, Time, OptTime, RowValid, Expired,
      SentStateValid, DeadLetterValid, LeaseFieldsValid

----------------------------------------------------------------------------
(***************************************************************************)
(* Types, the stored rows, and the locals of a pass.                       *)
(***************************************************************************)
BasicInv == TypeOK /\ RestartAccepts /\ PassInv

\* Whatever callers pass, it is an instant.
LEMMA NowsAreTimes ==
  ASSUME clock \in Time
  PROVE  Nows \subseteq Time /\ clock \in Nows
  BY WorkerAssumption DEF Nows, Time

\* Changing one row, or a set of rows, to valid rows.
LEMMA RowsStayValid ==
  ASSUME TypeOK, RestartAccepts, NEW S \in SUBSET Events, NEW f,
         outbox' = [e \in Events |-> IF e \in S THEN f[e] ELSE outbox[e]],
         \A e \in S : f[e] \in Row /\ RowValid(f[e])
  PROVE  outbox' \in [Events -> Row \cup {NULL}] /\ RestartAccepts'
  BY DEF TypeOK, RestartAccepts, Exists

\* The end of a pass.
LEMMA EndPassBasic ==
  ASSUME BasicInv, NEW w \in Workers, EndPass(w), clock' = clock
  PROVE  /\ pc' \in [Workers -> PC]
         /\ current' \in [Workers -> OptTime]
         /\ selected' \in [Workers -> SUBSET Events]
         /\ token' \in [Workers -> Tokens \cup {NULL}]
         /\ batch' \in [Workers -> SUBSET Record]
         /\ checked' \in [Workers -> OptTime]
         /\ PassInv'
<1>1. /\ pc' \in [Workers -> PC]
      /\ current' \in [Workers -> OptTime]
      /\ selected' \in [Workers -> SUBSET Events]
      /\ token' \in [Workers -> Tokens \cup {NULL}]
      /\ batch' \in [Workers -> SUBSET Record]
      /\ checked' \in [Workers -> OptTime]
  BY DEF BasicInv, TypeOK, EndPass, PC, OptTime
<1>2. PassInv'
  BY DEF BasicInv, TypeOK, PassInv, EndPass, Nows
<1> QED
  BY <1>1, <1>2

\* A finalising UPDATE, whatever valid row it writes.
LEMMA FinaliseBasic ==
  ASSUME BasicInv, NEW w \in Workers, NEW r \in batch[w], NEW row,
         Finalise(w, r, row), row \in Row, RowValid(row)
  PROVE  BasicInv'
<1>1. r.event_id \in Events
  BY DEF BasicInv, TypeOK, Record
<1>2. outbox' \in [Events -> Row \cup {NULL}] /\ RestartAccepts'
  BY <1>1 DEF BasicInv, TypeOK, RestartAccepts, Exists, Finalise
<1>3. clock' = clock /\ acked' = acked /\ NextRecord(w, r)
  BY DEF Finalise
<1>4. CASE EndPass(w)
  BY <1>2, <1>3, <1>4, EndPassBasic DEF BasicInv, TypeOK
<1>5. CASE ~EndPass(w)
  <2>1. /\ pc' = [pc EXCEPT ![w] = "process"]
        /\ batch' = [batch EXCEPT ![w] = @ \ {r}]
        /\ checked' = [checked EXCEPT ![w] = NULL]
        /\ UNCHANGED <<current, selected, token>>
    BY <1>3, <1>5 DEF NextRecord
  <2>2. TypeOK'
    BY <1>2, <1>3, <2>1 DEF BasicInv, TypeOK, PC, OptTime
  <2>3. pc[w] # "idle"
    BY DEF BasicInv, PassInv
  <2>4. PassInv'
    BY <1>3, <2>1, <2>3 DEF BasicInv, TypeOK, PassInv, Nows
  <2> QED
    BY <1>2, <2>2, <2>4 DEF BasicInv
<1> QED
  BY <1>4, <1>5

\* No UPDATE touches what persist wrote.
SameSignal(row, old) ==
  /\ row.idempotency_key = old.idempotency_key
  /\ row.payload_json = old.payload_json

\* Every finalising UPDATE gives up the lease and keeps the rest of what
\* the records refer to.
LEMMA FinalRowFields ==
  ASSUME NEW row \in Row, NEW t, NEW err
  PROVE  /\ SentRow(row, t).lease_token = NULL
         /\ SentRow(row, t).attempt_count = row.attempt_count
         /\ SentRow(row, t).created_at = row.created_at
         /\ SentRow(row, t).status = "SENT"
         /\ SameSignal(SentRow(row, t), row)
         /\ DeadLetterRow(row, err).lease_token = NULL
         /\ DeadLetterRow(row, err).attempt_count = row.attempt_count
         /\ DeadLetterRow(row, err).created_at = row.created_at
         /\ DeadLetterRow(row, err).status = "DEAD_LETTER"
         /\ SameSignal(DeadLetterRow(row, err), row)
  BY DEF SentRow, DeadLetterRow, Row, SameSignal

\* The four finalising operations.
Mark(w) == MarkSent(w) \/ MarkRetry(w) \/ MarkDeadLetter(w) \/ Quarantine(w)

\* The row of a record that a finalising UPDATE finds.
LEMMA FinaliseFinds ==
  ASSUME BasicInv, NEW w \in Workers, NEW r \in batch[w], NEW row,
         Finalise(w, r, row)
  PROVE  /\ r.event_id \in Events
         /\ outbox[r.event_id] \in Row
         /\ RowValid(outbox[r.event_id])
         /\ outbox[r.event_id].status = "PROCESSING"
         /\ current[w] \in Time
  BY DEF Finalise, Owns, LeaseValid, BasicInv, TypeOK, Record, Exists,
         RestartAccepts, PassInv, OptTime, Time

\* The next attempt of a record that is not exhausted has a time.
LEMMA RetryTime ==
  ASSUME BasicInv, NEW w \in Workers, NEW r \in batch[w], ~Exhausted(r),
         current[w] \in Time
  PROVE  /\ current[w] + Delay(r.attempt_count) \in Time
         /\ current[w] + Delay(r.attempt_count) >= current[w]
<1>1. r.attempt_count \in Nat \ {0}
  BY DEF BasicInv, TypeOK, Record
<1>2. ~(r.attempt_count >= MaxAttempts)
  BY Zenon DEF Exhausted
<1>3. r.attempt_count \in 1..MaxAttempts
  BY <1>1, <1>2, WorkerAssumption
<1>4. Delay(r.attempt_count) \in Nat
  BY <1>3, DelayAssumption
<1> QED
  BY <1>4 DEF Time

\* Each finalising operation writes one valid row, without a lease.
LEMMA MarkFinalises ==
  ASSUME BasicInv, NEW w \in Workers, Mark(w)
  PROVE  \E r \in batch[w], row \in Row :
            /\ Finalise(w, r, row)
            /\ RowValid(row)
            /\ row.lease_token = NULL
            /\ row.attempt_count = outbox[r.event_id].attempt_count
            /\ row.created_at = outbox[r.event_id].created_at
            /\ SameSignal(row, outbox[r.event_id])
            /\ row.status # "PROCESSING"
            /\ row.status = "SENT" => pc[w] = "sent"
            /\ row.status = "DEAD_LETTER" =>
                  \/ pc[w] = "malformed"
                  \/ pc[w] = "failed" /\ Exhausted(r)
            /\ row.status = "RETRY" =>
                  /\ ~Exhausted(r)
                  /\ row.next_attempt_at \in Nat
                  /\ row.next_attempt_at >= current[w]
            /\ row.status # "PENDING"
<1>1. CASE MarkSent(w)
  <2>1. PICK r \in batch[w] :
          Finalise(w, r, SentRow(outbox[r.event_id], current[w]))
    BY <1>1 DEF MarkSent
  <2>2. pc[w] = "sent"
    BY <1>1 DEF MarkSent
  <2> QED
    BY <2>1, <2>2, FinaliseFinds, SentRowType, FinalRowFields
<1>2. CASE MarkRetry(w)
  <2>1. PICK r \in batch[w] :
          /\ ~Exhausted(r)
          /\ Finalise(w, r, RetryRow(outbox[r.event_id],
                                    current[w] + Delay(r.attempt_count),
                                    "delivery error"))
    BY <1>2 DEF MarkRetry
  <2>2. /\ current[w] + Delay(r.attempt_count) \in Time
        /\ current[w] + Delay(r.attempt_count) >= current[w]
    BY <2>1, RetryTime, FinaliseFinds
  <2> DEFINE row == RetryRow(outbox[r.event_id],
                             current[w] + Delay(r.attempt_count),
                             "delivery error")
  <2>3. "delivery error" \in Errors
    BY DEF Errors
  <2>4. row \in Row /\ RowValid(row)
    <3>1. /\ outbox[r.event_id] \in Row
          /\ RowValid(outbox[r.event_id])
          /\ outbox[r.event_id].status = "PROCESSING"
      BY <2>1, FinaliseFinds
    <3> QED
      BY <2>2, <2>3, <3>1, RetryRowType, Zenon
  <2>5. /\ row.lease_token = NULL
        /\ row.attempt_count = outbox[r.event_id].attempt_count
        /\ row.created_at = outbox[r.event_id].created_at
        /\ SameSignal(row, outbox[r.event_id])
        /\ row.status = "RETRY"
        /\ row.next_attempt_at = current[w] + Delay(r.attempt_count)
    <3>1. outbox[r.event_id] \in Row
      BY <2>1, FinaliseFinds
    <3> QED
      BY <3>1 DEF RetryRow, Row, SameSignal
  <2>6. Finalise(w, r, row)
    BY <2>1
  <2> HIDE DEF row
  <2> QED
    BY <2>1, <2>2, <2>4, <2>5, <2>6 DEF Time
<1>3. CASE MarkDeadLetter(w) \/ Quarantine(w)
  <2>1. PICK r \in batch[w], err \in Errors :
          /\ Finalise(w, r, DeadLetterRow(outbox[r.event_id], err))
          /\ \/ pc[w] = "malformed"
             \/ pc[w] = "failed" /\ Exhausted(r)
    BY <1>3 DEF MarkDeadLetter, Quarantine, Errors
  <2> QED
    BY <2>1, FinaliseFinds, DeadLetterRowType, FinalRowFields, ConstantFacts
<1> QED
  BY <1>1, <1>2, <1>3 DEF Mark

LEMMA BasicInit == Init => BasicInv
  BY ConstantFacts DEF Init, BasicInv, TypeOK, RestartAccepts, PassInv, Exists,
                   PC, Time, OptTime

LEMMA BasicStep == BasicInv /\ [Next]_vars => BasicInv'
<1> SUFFICES ASSUME BasicInv, [Next]_vars PROVE BasicInv'
  OBVIOUS
<1> USE DEF BasicInv, Nows
<1>1. CASE Tick
  BY <1>1 DEF Tick, TypeOK, RestartAccepts, PassInv, workerVars, Exists,
              Time, OptTime
<1>2. ASSUME NEW e \in Events, NEW k \in Keys, NEW p \in Payloads,
             Enqueue(e, k, p)
      PROVE  BasicInv'
  <2>1. PICK created \in 0..clock :
          outbox' = [outbox EXCEPT ![e] = NewRow(k, p, created)]
    BY <1>2 DEF Enqueue
  <2>2. created \in Time
    BY <2>1 DEF TypeOK, Time
  <2>3. NewRow(k, p, created) \in Row /\ RowValid(NewRow(k, p, created))
    BY <2>2, NewRowType
  <2>4. outbox' \in [Events -> Row \cup {NULL}] /\ RestartAccepts'
    BY <2>1, <2>3 DEF TypeOK, RestartAccepts, Exists
  <2> QED
    BY <1>2, <2>4 DEF Enqueue, TypeOK, PassInv, workerVars
<1>3. ASSUME NEW now \in Nows, Recover(now)
      PROVE  BasicInv'
  <2> DEFINE S == {e \in Events : Exists(e) /\ Expired(outbox[e], now)}
             f == [e \in Events |-> RecoveredRow(outbox[e], now)]
  <2>1. now \in Time
    BY NowsAreTimes DEF TypeOK
  <2>2. \A e \in S : f[e] \in Row /\ RowValid(f[e])
    BY <2>1, RecoveredRowType DEF TypeOK, RestartAccepts, Exists
  <2>3. outbox' = [e \in Events |-> IF e \in S THEN f[e] ELSE outbox[e]]
    BY <1>3 DEF Recover
  <2>4. outbox' \in [Events -> Row \cup {NULL}] /\ RestartAccepts'
    <3> HIDE DEF S, f
    <3> S \in SUBSET Events
      BY DEF S
    <3> QED BY <2>2, <2>3, RowsStayValid
  <2> QED
    BY <1>3, <2>4 DEF Recover, TypeOK, PassInv, workerVars
<1>4. ASSUME NEW w \in Workers, NEW now \in {clock} \cup Instants,
             RunOnce(w, now)
      PROVE  BasicInv'
  <2>1. now \in Nows /\ now \in Nat
    BY NowsAreTimes DEF TypeOK, Time
  <2> QED
  BY <1>4, <2>1, ConstantFacts
  DEF RunOnce, TypeOK, PassInv, RestartAccepts, PC, Time, OptTime, Exists
<1>5. ASSUME NEW w \in Workers, ClaimSelect(w)
      PROVE  BasicInv'
  <2>1. FirstEligible(current[w]) \in SUBSET Events
    BY DEF FirstEligible, EligibleEvents
  <2> QED
    BY <1>5, <2>1
    DEF ClaimSelect, TypeOK, PassInv, RestartAccepts, PC, Exists
<1>6. ASSUME NEW w \in Workers, ClaimUpdate(w)
      PROVE  BasicInv'
  <2> DEFINE S == Claimable(w)
  <2>1. PICK t \in FreshTokens :
          /\ outbox' = [e \in Events |->
                          IF e \in S
                          THEN ClaimedRow(outbox[e], current[w], w, t)
                          ELSE outbox[e]]
          /\ token' = [token EXCEPT ![w] = t]
    BY <1>6 DEF ClaimUpdate
  <2>2. t \in Tokens /\ t # NULL
    BY ConstantFacts DEF FreshTokens
  <2>3. current[w] \in Time /\ S \in SUBSET Events
    BY <1>6 DEF ClaimUpdate, PassInv, TypeOK, OptTime, Time, Claimable
  <2> DEFINE f == [e \in Events |-> ClaimedRow(outbox[e], current[w], w, t)]
  <2>4. \A e \in S : f[e] \in Row /\ RowValid(f[e])
    BY <2>2, <2>3, ClaimedRowType
    DEF Claimable, TypeOK, RestartAccepts, Exists
  <2>5. outbox' \in [Events -> Row \cup {NULL}] /\ RestartAccepts'
    <3>1. outbox' = [e \in Events |-> IF e \in S THEN f[e] ELSE outbox[e]]
      BY <2>1
    <3> HIDE DEF S, f
    <3> QED BY <2>3, <2>4, <3>1, RowsStayValid
  <2>6. {[event_id |-> e, attempt_count |-> outbox[e].attempt_count + 1] :
            e \in S} \in SUBSET Record
    <3>1. \A e \in S : e \in Events /\ outbox[e].attempt_count + 1 \in Nat \ {0}
      BY <2>3 DEF Claimable, TypeOK, Exists, Row
    <3> QED BY <3>1 DEF Record
  <2>7. TypeOK'
    BY <1>6, <2>1, <2>2, <2>5, <2>6 DEF ClaimUpdate, TypeOK, PC
  <2>8. PassInv'
    BY <1>6, <2>1, <2>2 DEF ClaimUpdate, TypeOK, PassInv
  <2> QED
    BY <2>5, <2>7, <2>8
<1>7. ASSUME NEW w \in Workers,
             ClaimNothing(w) \/ BackoffFails(w) \/ LeaseLost(w) \/ Abort(w)
      PROVE  BasicInv'
  <2>1. EndPass(w) /\ UNCHANGED <<outbox, clock, acked>>
    BY <1>7 DEF ClaimNothing, BackoffFails, LeaseLost, Abort
  <2> QED
    BY <2>1, EndPassBasic DEF TypeOK, RestartAccepts, Exists
<1>8. ASSUME NEW w \in Workers, RejectEventId(w) \/ SendRaises(w)
      PROVE  BasicInv'
  BY <1>8 DEF RejectEventId, SendRaises, TypeOK, PassInv, RestartAccepts,
              PC, Exists
<1>9. ASSUME NEW w \in Workers, SendReturns(w)
      PROVE  BasicInv'
  <2>1. PICK r \in batch[w] :
          acked' = [acked EXCEPT ![r.event_id] = @ \cup {r.attempt_count}]
    BY <1>9 DEF SendReturns
  <2>2. acked' \in [Events -> SUBSET Nat]
    BY <2>1 DEF TypeOK, Record
  <2> QED
    BY <1>9, <2>2 DEF SendReturns, TypeOK, PassInv, RestartAccepts, PC, Exists
<1>10. ASSUME NEW w \in Workers, ReadClock(w)
       PROVE  BasicInv'
  BY <1>10 DEF ReadClock, TypeOK, PassInv, RestartAccepts, Time, OptTime, Exists
<1>11. ASSUME NEW w \in Workers, Mark(w)
       PROVE  BasicInv'
  BY <1>11, MarkFinalises, FinaliseBasic
<1>12. CASE UNCHANGED vars
  BY <1>12 DEF vars, workerVars, TypeOK, RestartAccepts, PassInv, Exists
<1> QED
  BY <1>1, <1>2, <1>3, <1>4, <1>5, <1>6, <1>7, <1>8, <1>9, <1>10, <1>11, <1>12
  DEF Next, Worker, Continue, ProcessRecord, Mark

\* All variables keep their types in every behaviour.
THEOREM TypeCorrect == Spec => []TypeOK
<1>1. Spec => []BasicInv
  BY BasicInit, BasicStep, PTL DEF Spec
<1> QED
  BY <1>1, PTL DEF BasicInv

\* No reachable state, so no crash, leaves a row that reopening the
\* database would refuse (_validate_schema_state).
THEOREM RestartAlwaysAccepted == Spec => []RestartAccepts
<1>1. Spec => []BasicInv
  BY BasicInit, BasicStep, PTL DEF Spec
<1> QED
  BY <1>1, PTL DEF BasicInv

----------------------------------------------------------------------------
(***************************************************************************)
(* Records and leases.                                                     *)
(***************************************************************************)
HeldInv == BasicInv /\ RecordInv /\ LeaseInv

LEMMA RecoveredRowFields ==
  ASSUME NEW row \in Row, NEW now
  PROVE  /\ RecoveredRow(row, now).lease_token = NULL
         /\ RecoveredRow(row, now).attempt_count = row.attempt_count
         /\ RecoveredRow(row, now).created_at = row.created_at
         /\ RecoveredRow(row, now).status = "RETRY"
         /\ RecoveredRow(row, now).next_attempt_at = now
         /\ SameSignal(RecoveredRow(row, now), row)
  BY DEF RecoveredRow, Row, SameSignal

LEMMA ClaimedRowFields ==
  ASSUME NEW row \in Row, NEW now, NEW w, NEW t
  PROVE  /\ ClaimedRow(row, now, w, t).lease_token = t
         /\ ClaimedRow(row, now, w, t).owner_id = w
         /\ ClaimedRow(row, now, w, t).attempt_count = row.attempt_count + 1
         /\ ClaimedRow(row, now, w, t).locked_until = now + LeaseSeconds
         /\ ClaimedRow(row, now, w, t).created_at = row.created_at
         /\ ClaimedRow(row, now, w, t).status = "PROCESSING"
         /\ SameSignal(ClaimedRow(row, now, w, t), row)
  BY DEF ClaimedRow, Row, SameSignal

\* A row with a worker's token is being processed under that lease.
LEMMA TokenMeansProcessing ==
  ASSUME HeldInv, NEW w \in Workers, NEW r \in batch[w],
         outbox[r.event_id].lease_token = token[w]
  PROVE  outbox[r.event_id].status = "PROCESSING"
<1>1. token[w] # NULL /\ Exists(r.event_id) /\ r.event_id \in Events
  BY DEF HeldInv, BasicInv, PassInv, RecordInv, TypeOK, Record
<1> QED
  BY <1>1 DEF HeldInv, BasicInv, RestartAccepts, RowValid, LeaseFieldsValid

\* Whoever takes over the row of a record, by a claim or a recovery, does so
\* for an instant at which the lease of the record has run out.
LEMMA TakenOverLate ==
  ASSUME HeldInv, NEW w \in Workers, NEW r \in batch[w], NEW now \in Nat,
         Eligible(outbox[r.event_id], now) \/ Expired(outbox[r.event_id], now)
  PROVE  current[w] \in Nat /\ current[w] + LeaseSeconds <= now
<1>1. current[w] \in Nat /\ LeaseSeconds \in Nat
  BY ConstantFacts DEF HeldInv, BasicInv, PassInv, TypeOK, OptTime
<1>2. outbox[r.event_id] \in Row
  BY DEF HeldInv, RecordInv, BasicInv, TypeOK, Record, Exists
<1>3. CASE outbox[r.event_id].lease_token = token[w]
  <2>1. outbox[r.event_id].status = "PROCESSING"
    BY <1>3, TokenMeansProcessing
  <2> QED
    BY <1>1, <1>3, <2>1 DEF HeldInv, LeaseInv, Eligible, Expired
<1>4. CASE outbox[r.event_id].lease_token # token[w]
  <2>1. PassedOn(outbox[r.event_id], current[w] + LeaseSeconds)
    BY <1>4 DEF HeldInv, LeaseInv
  <2>2. /\ outbox[r.event_id].next_attempt_at # NULL =>
              outbox[r.event_id].next_attempt_at \in Nat
        /\ outbox[r.event_id].locked_until # NULL =>
              outbox[r.event_id].locked_until \in Nat
    BY <1>2 DEF Row, OptTime
  <2> QED
    BY <1>1, <2>1, <2>2 DEF PassedOn, Eligible, Expired
<1> QED
  BY <1>3, <1>4

\* Steps that change neither the rows nor the records, tokens and claim
\* times of the passes.
LEMMA HeldUnchanged ==
  ASSUME HeldInv, UNCHANGED <<outbox, current, token, batch>>
  PROVE  RecordInv' /\ LeaseInv'
  BY DEF HeldInv, RecordInv, LeaseInv, Exists

\* Steps of worker w that touch no row and leave it without records.
LEMMA HeldWithoutRecords ==
  ASSUME HeldInv, NEW w \in Workers, outbox' = outbox, batch'[w] = {},
         \A v \in Workers \ {w} : /\ batch'[v] = batch[v]
                                  /\ token'[v] = token[v]
                                  /\ current'[v] = current[v]
  PROVE  RecordInv' /\ LeaseInv'
  BY DEF HeldInv, RecordInv, LeaseInv, Exists

LEMMA HeldInit == Init => RecordInv /\ LeaseInv
  BY DEF Init, RecordInv, LeaseInv

\* What a finalising UPDATE does to the records: worker w gives up r.
LEMMA FinaliseBatch ==
  ASSUME BasicInv, NEW w \in Workers, NEW r \in batch[w], NEW row,
         Finalise(w, r, row)
  PROVE  /\ batch' = [batch EXCEPT ![w] = @ \ {r}]
         /\ \A v \in Workers : v # w =>
               token'[v] = token[v] /\ current'[v] = current[v]
         /\ batch'[w] # {} => token' = token /\ current' = current
<1>1. NextRecord(w, r)
  BY DEF Finalise
<1>2. CASE batch[w] = {r}
  <2>1. EndPass(w)
    BY <1>1, <1>2 DEF NextRecord
  <2>2. batch[w] \ {r} = {}
    BY <1>2
  <2> QED
    BY <2>1, <2>2 DEF EndPass, BasicInv, TypeOK
<1>3. CASE batch[w] # {r}
  BY <1>1, <1>3 DEF NextRecord, BasicInv, TypeOK
<1> QED
  BY <1>2, <1>3

LEMMA FinaliseHeld ==
  ASSUME HeldInv, NEW w \in Workers, NEW r \in batch[w], NEW row,
         Finalise(w, r, row), row \in Row,
         row.lease_token = NULL,
         row.attempt_count = outbox[r.event_id].attempt_count,
         row.status \in {"RETRY", "SENT", "DEAD_LETTER"},
         row.status = "RETRY" => /\ row.next_attempt_at \in Nat
                                 /\ row.next_attempt_at >= current[w]
  PROVE  RecordInv' /\ LeaseInv'
<1> USE DEF HeldInv
<1>1. /\ r.event_id \in Events
      /\ outbox' = [outbox EXCEPT ![r.event_id] = row]
      /\ row # NULL
      /\ outbox[r.event_id].status = "PROCESSING"
      /\ outbox[r.event_id].owner_id = w
      /\ outbox[r.event_id].lease_token = token[w]
  BY TableAssumption
  DEF Finalise, Owns, LeaseValid, BasicInv, TypeOK, Record
<1>2. /\ batch' = [batch EXCEPT ![w] = @ \ {r}]
      /\ \A v \in Workers : v # w =>
            token'[v] = token[v] /\ current'[v] = current[v]
      /\ batch'[w] # {} => token' = token /\ current' = current
  BY FinaliseBatch
<1> SUFFICES ASSUME NEW v \in Workers, NEW s \in batch'[v]
             PROVE  /\ (Exists(s.event_id))'
                    /\ s.attempt_count <= outbox'[s.event_id].attempt_count
                    /\ \A q \in batch'[v] : q.event_id = s.event_id => q = s
                    /\ IF outbox'[s.event_id].lease_token = token'[v]
                       THEN /\ outbox'[s.event_id].owner_id = v
                            /\ outbox'[s.event_id].attempt_count = s.attempt_count
                            /\ outbox'[s.event_id].locked_until
                                  = current'[v] + LeaseSeconds
                       ELSE PassedOn(outbox'[s.event_id], current'[v] + LeaseSeconds)
  BY DEF RecordInv, LeaseInv, PassedOn
<1>3. /\ s \in batch[v] /\ token'[v] = token[v] /\ current'[v] = current[v]
      /\ batch'[v] \subseteq batch[v]
      /\ s.event_id \in Events
      /\ token[v] # NULL
      /\ current[v] \in Nat /\ current[w] \in Nat /\ LeaseSeconds \in Nat
  BY <1>2, ConstantFacts DEF BasicInv, TypeOK, PassInv, Record, OptTime
<1>4. CASE s.event_id # r.event_id
  <2>1. outbox'[s.event_id] = outbox[s.event_id]
    BY <1>1, <1>4
  <2> QED
    BY <1>1, <1>3, <2>1 DEF RecordInv, LeaseInv, Exists
<1>5. CASE s.event_id = r.event_id
  <2>1. v # w
    BY <1>2, <1>3, <1>5 DEF RecordInv, BasicInv, TypeOK
  <2>2. outbox'[s.event_id] = row
    BY <1>1, <1>5 DEF BasicInv, TypeOK
  <2>3. outbox[r.event_id].locked_until = current[w] + LeaseSeconds
    BY <1>1 DEF LeaseInv
  <2>4. PassedOn(outbox[r.event_id], current[v] + LeaseSeconds)
    BY <1>1, <1>3, <1>5, <2>1 DEF LeaseInv
  <2>5. current[w] + LeaseSeconds >= current[v] + LeaseSeconds + LeaseSeconds
    BY <1>1, <2>3, <2>4 DEF PassedOn
  <2>6. row.status = "RETRY" =>
          /\ row.next_attempt_at # NULL
          /\ row.next_attempt_at >= current[v] + LeaseSeconds
    BY <1>3, <2>5, ConstantFacts
  <2>7. PassedOn(row, current[v] + LeaseSeconds)
    BY <2>6 DEF PassedOn
  <2> QED
    BY <1>1, <1>3, <1>5, <2>2, <2>7 DEF RecordInv, Exists
<1> QED
  BY <1>4, <1>5

LEMMA HeldStep == HeldInv /\ [Next]_vars => HeldInv'
<1> SUFFICES ASSUME HeldInv, [Next]_vars PROVE RecordInv' /\ LeaseInv'
  BY BasicStep DEF HeldInv
<1>0. BasicInv
  BY DEF HeldInv
<1>1. CASE Tick
  BY <1>1, HeldUnchanged DEF Tick, workerVars
<1>2. ASSUME NEW e \in Events, NEW k \in Keys, NEW p \in Payloads,
             Enqueue(e, k, p)
      PROVE  RecordInv' /\ LeaseInv'
  <2>1. /\ ~Exists(e)
        /\ UNCHANGED <<current, token, batch>>
        /\ \A f \in Events : f # e => outbox'[f] = outbox[f]
    BY <1>0, <1>2 DEF Enqueue, workerVars, BasicInv, TypeOK
  <2>2. \A w \in Workers : \A r \in batch[w] :
          outbox'[r.event_id] = outbox[r.event_id]
    BY <1>0, <2>1 DEF HeldInv, RecordInv, BasicInv, TypeOK, Record
  <2> QED
    BY <2>1, <2>2 DEF HeldInv, RecordInv, LeaseInv, Exists
<1>3. ASSUME NEW now \in Nows, Recover(now)
      PROVE  RecordInv' /\ LeaseInv'
  <2>1. /\ UNCHANGED <<current, token, batch>>
        /\ \A e \in Events :
              outbox'[e] = IF Exists(e) /\ Expired(outbox[e], now)
                           THEN RecoveredRow(outbox[e], now)
                           ELSE outbox[e]
    BY <1>3 DEF Recover, workerVars
  <2>2. now \in Nat
    BY <1>0, NowsAreTimes DEF BasicInv, TypeOK, Time
  <2>3. ASSUME NEW w \in Workers, NEW r \in batch[w]
        PROVE  /\ (Exists(r.event_id))'
               /\ outbox'[r.event_id].attempt_count
                     = outbox[r.event_id].attempt_count
               /\ \/ outbox'[r.event_id] = outbox[r.event_id]
                  \/ /\ outbox'[r.event_id].lease_token # token[w]
                     /\ PassedOn(outbox'[r.event_id], current[w] + LeaseSeconds)
    <3>1. /\ r.event_id \in Events
          /\ outbox[r.event_id] \in Row
          /\ Exists(r.event_id)
          /\ RowValid(outbox[r.event_id])
          /\ token[w] # NULL
      BY <1>0 DEF HeldInv, RecordInv, BasicInv, TypeOK, Record, PassInv,
                  Exists, RestartAccepts
    <3>2. CASE Expired(outbox[r.event_id], now)
      <4>1. outbox'[r.event_id] = RecoveredRow(outbox[r.event_id], now)
        BY <2>1, <3>1, <3>2
      <4>2. outbox'[r.event_id] # NULL
        BY <2>2, <3>1, <3>2, <4>1, RecoveredRowType, TableAssumption DEF Time
      <4>3. current[w] + LeaseSeconds <= now
        BY <2>2, <3>2, TakenOverLate
      <4>4. PassedOn(outbox'[r.event_id], current[w] + LeaseSeconds)
        <5>1. now # NULL
          BY <2>2, ConstantFacts
        <5>2. /\ outbox'[r.event_id].status = "RETRY"
              /\ outbox'[r.event_id].next_attempt_at = now
          BY <3>1, <4>1, RecoveredRowFields
        <5> QED
          BY <2>2, <4>3, <5>1, <5>2 DEF PassedOn
      <4> QED
        BY <3>1, <4>1, <4>2, <4>4, RecoveredRowFields DEF Exists
    <3>3. CASE ~Expired(outbox[r.event_id], now)
      BY <2>1, <3>1, <3>3 DEF Exists
    <3> QED
      BY <3>2, <3>3
  <2>4. RecordInv'
    BY <2>1, <2>3 DEF HeldInv, RecordInv
  <2>5. LeaseInv'
    BY <2>1, <2>3 DEF HeldInv, LeaseInv
  <2> QED
    BY <2>4, <2>5
<1>4. ASSUME NEW w \in Workers,
             (\E now \in {clock} \cup Instants : RunOnce(w, now)) \/ ClaimSelect(w)
      PROVE  RecordInv' /\ LeaseInv'
  BY <1>0, <1>4, HeldWithoutRecords
  DEF RunOnce, ClaimSelect, BasicInv, TypeOK, PassInv
<1>5. ASSUME NEW w \in Workers,
             ClaimNothing(w) \/ BackoffFails(w) \/ LeaseLost(w) \/ Abort(w)
      PROVE  RecordInv' /\ LeaseInv'
  BY <1>0, <1>5, HeldWithoutRecords
  DEF ClaimNothing, BackoffFails, LeaseLost, Abort, EndPass, BasicInv, TypeOK
<1>6. ASSUME NEW w \in Workers, ClaimUpdate(w)
      PROVE  RecordInv' /\ LeaseInv'
  <2>1. PICK t \in FreshTokens :
          /\ outbox' = [e \in Events |->
                          IF e \in Claimable(w)
                          THEN ClaimedRow(outbox[e], current[w], w, t)
                          ELSE outbox[e]]
          /\ token' = [token EXCEPT ![w] = t]
    BY <1>6 DEF ClaimUpdate
  <2>2. /\ t \in Tokens
        /\ \A e \in Events : Exists(e) => outbox[e].lease_token # t
        /\ \A v \in Workers : token[v] # t
    BY DEF FreshTokens
  <2>3. /\ current' = current
        /\ batch' = [batch EXCEPT ![w] =
                        {[event_id |-> e,
                          attempt_count |-> outbox[e].attempt_count + 1] :
                            e \in Claimable(w)}]
        /\ pc[w] = "update"
    BY <1>6 DEF ClaimUpdate
  <2>4. /\ current[w] \in Nat
        /\ batch[w] = {}
    BY <1>0, <2>3 DEF BasicInv, PassInv, TypeOK, OptTime
  <2>5. \A e \in Claimable(w) :
          /\ e \in Events /\ Exists(e)
          /\ outbox[e] \in Row
          /\ RowValid(outbox[e])
          /\ Eligible(outbox[e], current[w])
    BY <1>0 DEF Claimable, BasicInv, TypeOK, Exists, RestartAccepts
  <2>6. \A e \in Claimable(w) :
          /\ outbox'[e] = ClaimedRow(outbox[e], current[w], w, t)
          /\ outbox'[e] # NULL
    BY <2>1, <2>2, <2>4, <2>5, ClaimedRowType, TableAssumption DEF Time
  <2>7. ASSUME NEW s \in batch'[w]
        PROVE  /\ s.event_id \in Claimable(w)
               /\ s = [event_id |-> s.event_id,
                       attempt_count |-> outbox[s.event_id].attempt_count + 1]
    BY <1>0, <2>3, <2>7 DEF BasicInv, TypeOK
  <2>8. ASSUME NEW v \in Workers, v # w, NEW s \in batch'[v]
        PROVE  /\ s \in batch[v]
               /\ batch'[v] = batch[v] /\ token'[v] = token[v]
               /\ s.event_id \in Events
               /\ Exists(s.event_id)
               /\ token[v] # NULL
               /\ s.attempt_count \in Nat
               /\ s.event_id \notin Claimable(w) =>
                     outbox'[s.event_id] = outbox[s.event_id]
    BY <1>0, <2>1, <2>3, <2>8
    DEF BasicInv, TypeOK, PassInv, Record, HeldInv, RecordInv
  <2>9. RecordInv'
    <3> SUFFICES ASSUME NEW v \in Workers, NEW s \in batch'[v]
                 PROVE  /\ (Exists(s.event_id))'
                        /\ s.attempt_count <= outbox'[s.event_id].attempt_count
                        /\ \A q \in batch'[v] : q.event_id = s.event_id => q = s
      BY DEF RecordInv
    <3>1. CASE v = w
      <4>1. outbox'[s.event_id].attempt_count = s.attempt_count
        BY <2>5, <2>6, <2>7, <3>1, ClaimedRowFields
      <4>2. s.attempt_count \in Nat
        <5>1. outbox[s.event_id].attempt_count \in Nat
          BY <2>5, <2>7, <3>1 DEF Row
        <5> QED BY <2>7, <3>1, <5>1
      <4>3. outbox'[s.event_id] # NULL
        BY <2>6, <2>7, <3>1
      <4>4. \A q \in batch'[v] : q.event_id = s.event_id => q = s
        BY <2>7, <3>1
      <4> QED
        BY <4>1, <4>2, <4>3, <4>4 DEF Exists
    <3>2. CASE v # w
      <4>1. \A q \in batch'[v] : q.event_id = s.event_id => q = s
        BY <2>8, <3>2 DEF HeldInv, RecordInv
      <4>2. CASE s.event_id \notin Claimable(w)
        BY <2>8, <3>2, <4>1, <4>2 DEF HeldInv, RecordInv, Exists
      <4>3. CASE s.event_id \in Claimable(w)
        <5>1. /\ outbox'[s.event_id] # NULL
              /\ outbox'[s.event_id].attempt_count
                    = outbox[s.event_id].attempt_count + 1
          BY <2>5, <2>6, <4>3, ClaimedRowFields
        <5>2. outbox[s.event_id].attempt_count \in Nat
          BY <2>5, <4>3 DEF Row
        <5>3. s.attempt_count <= outbox[s.event_id].attempt_count
          BY <2>8, <3>2 DEF HeldInv, RecordInv
        <5>4. s.attempt_count \in Nat
          BY <2>8, <3>2
        <5>5. s.attempt_count <= outbox'[s.event_id].attempt_count
          BY <5>1, <5>2, <5>3, <5>4
        <5> QED
          BY <4>1, <5>1, <5>5 DEF Exists
      <4> QED
        BY <4>2, <4>3
    <3> QED
      BY <3>1, <3>2
  <2>10. LeaseInv'
    <3> SUFFICES ASSUME NEW v \in Workers, NEW s \in batch'[v]
                 PROVE  IF outbox'[s.event_id].lease_token = token'[v]
                        THEN /\ outbox'[s.event_id].owner_id = v
                             /\ outbox'[s.event_id].attempt_count = s.attempt_count
                             /\ outbox'[s.event_id].locked_until
                                   = current[v] + LeaseSeconds
                        ELSE PassedOn(outbox'[s.event_id], current[v] + LeaseSeconds)
      BY <2>3 DEF LeaseInv, PassedOn
    <3>1. CASE v = w
      <4>1. token'[w] = t
        BY <1>0, <2>1 DEF BasicInv, TypeOK
      <4> QED
        BY <2>5, <2>6, <2>7, <3>1, <4>1, ClaimedRowFields
    <3>2. CASE v # w
      <4>1. CASE s.event_id \notin Claimable(w)
        BY <2>8, <3>2, <4>1 DEF HeldInv, LeaseInv
      <4>2. CASE s.event_id \in Claimable(w)
        <5>1. outbox'[s.event_id].lease_token = t
          BY <2>5, <2>6, <4>2, ClaimedRowFields
        <5>2. t # token'[v]
          BY <2>2, <2>8, <3>2
        <5>3. current[v] \in Nat /\ current[v] + LeaseSeconds <= current[w]
          BY <2>4, <2>5, <2>8, <3>2, <4>2, TakenOverLate
        <5>4. /\ outbox'[s.event_id].status = "PROCESSING"
              /\ outbox'[s.event_id].locked_until = current[w] + LeaseSeconds
          BY <2>5, <2>6, <4>2, ClaimedRowFields
        <5>5. PassedOn(outbox'[s.event_id], current[v] + LeaseSeconds)
          BY <2>4, <5>3, <5>4, ConstantFacts DEF PassedOn
        <5> QED
          BY <5>1, <5>2, <5>5
      <4> QED
        BY <4>1, <4>2
    <3> QED
      BY <3>1, <3>2
  <2> QED
    BY <2>9, <2>10
<1>7. ASSUME NEW w \in Workers,
             \/ RejectEventId(w) \/ SendRaises(w)
             \/ SendReturns(w) \/ ReadClock(w)
      PROVE  RecordInv' /\ LeaseInv'
  BY <1>7, HeldUnchanged DEF RejectEventId, SendRaises, SendReturns, ReadClock
<1>8. ASSUME NEW w \in Workers, Mark(w)
      PROVE  RecordInv' /\ LeaseInv'
  <2>1. PICK r \in batch[w], row \in Row :
          /\ Finalise(w, r, row)
          /\ row.lease_token = NULL
          /\ row.attempt_count = outbox[r.event_id].attempt_count
          /\ row.status # "PROCESSING" /\ row.status # "PENDING"
          /\ row.status = "RETRY" => /\ row.next_attempt_at \in Nat
                                     /\ row.next_attempt_at >= current[w]
    BY <1>0, <1>8, MarkFinalises
  <2>2. row.status \in {"RETRY", "SENT", "DEAD_LETTER"}
    BY <2>1 DEF Row, Status
  <2> QED
    BY <2>1, <2>2, FinaliseHeld
<1>9. CASE UNCHANGED vars
  BY <1>9, HeldUnchanged DEF vars, workerVars
<1> QED
  BY <1>1, <1>2, <1>3, <1>4, <1>5, <1>6, <1>7, <1>8, <1>9
  DEF Next, Worker, Continue, ProcessRecord, Mark

----------------------------------------------------------------------------
(***************************************************************************)
(* What a step may do to a row.                                            *)
(***************************************************************************)
ClaimsRow(e) ==
  \E w \in Workers, t \in FreshTokens :
      /\ current[w] \in Nows /\ current[w] \in Nat
      /\ Eligible(outbox[e], current[w])
      /\ outbox'[e] = ClaimedRow(outbox[e], current[w], w, t)

RecoversRow(e) ==
  \E now \in Nows :
      /\ Expired(outbox[e], now)
      /\ outbox'[e] = RecoveredRow(outbox[e], now)

FinalisesRow(e) ==
  \E w \in Workers : \E r \in batch[w], row \in Row :
      /\ r.event_id = e
      /\ Finalise(w, r, row)
      /\ outbox'[e] = row
      /\ row.attempt_count = outbox[e].attempt_count
      /\ row.created_at = outbox[e].created_at
      /\ SameSignal(row, outbox[e])
      /\ row.status # "PROCESSING"
      /\ row.status = "SENT" => pc[w] = "sent"
      /\ row.status = "DEAD_LETTER" =>
            \/ pc[w] = "malformed"
            \/ pc[w] = "failed" /\ Exhausted(r)

\* A row that exists is only ever claimed, recovered or finalised.
LEMMA RowChanges ==
  ASSUME BasicInv, [Next]_vars, NEW e \in Events, Exists(e),
         outbox'[e] # outbox[e]
  PROVE  ClaimsRow(e) \/ RecoversRow(e) \/ FinalisesRow(e)
<1>1. CASE outbox' = outbox
  BY <1>1
<1>2. ASSUME NEW f \in Events, NEW k \in Keys, NEW p \in Payloads,
             Enqueue(f, k, p)
      PROVE  FALSE
  BY <1>2 DEF Enqueue, BasicInv, TypeOK
<1>3. ASSUME NEW now \in Nows, Recover(now)
      PROVE  RecoversRow(e)
  BY <1>3 DEF Recover, RecoversRow
<1>4. ASSUME NEW w \in Workers, ClaimUpdate(w)
      PROVE  ClaimsRow(e)
  <2>1. PICK t \in FreshTokens :
          outbox' = [f \in Events |->
                        IF f \in Claimable(w)
                        THEN ClaimedRow(outbox[f], current[w], w, t)
                        ELSE outbox[f]]
    BY <1>4 DEF ClaimUpdate
  <2>2. current[w] \in Nows /\ current[w] \in Nat
    BY <1>4 DEF ClaimUpdate, BasicInv, PassInv, TypeOK, OptTime
  <2> QED
    BY <2>1, <2>2 DEF ClaimsRow, Claimable
<1>5. ASSUME NEW w \in Workers, Mark(w)
      PROVE  FinalisesRow(e)
  <2>1. PICK r \in batch[w], row \in Row :
            /\ Finalise(w, r, row)
            /\ row.attempt_count = outbox[r.event_id].attempt_count
            /\ row.created_at = outbox[r.event_id].created_at
            /\ SameSignal(row, outbox[r.event_id])
            /\ row.status # "PROCESSING"
            /\ row.status = "SENT" => pc[w] = "sent"
            /\ row.status = "DEAD_LETTER" =>
                  \/ pc[w] = "malformed"
                  \/ pc[w] = "failed" /\ Exhausted(r)
    BY <1>5, MarkFinalises
  <2>2. outbox' = [outbox EXCEPT ![r.event_id] = row] /\ r.event_id = e
    BY <2>1 DEF Finalise, BasicInv, TypeOK
  <2>3. outbox'[e] = row
    BY <2>2 DEF BasicInv, TypeOK
  <2> QED
    BY <2>1, <2>2, <2>3 DEF FinalisesRow
<1> QED
  BY <1>1, <1>2, <1>3, <1>4, <1>5
  DEF Next, Worker, Continue, ProcessRecord, Mark, Tick, RunOnce, ClaimSelect,
      ClaimNothing, RejectEventId, SendReturns, SendRaises, ReadClock,
      BackoffFails, LeaseLost, Abort, vars

\* Delivery never removes a row, nor parts it from its signal.
LEMMA SignalKept ==
  ASSUME BasicInv, [Next]_vars, NEW e \in Events, Exists(e)
  PROVE  (Exists(e))' /\ SameSignal(outbox'[e], outbox[e])
<1>1. outbox[e] \in Row /\ RowValid(outbox[e])
  BY DEF Exists, BasicInv, TypeOK, RestartAccepts
<1>2. SameSignal(outbox'[e], outbox[e]) /\ outbox'[e] \in Row
  <2>1. CASE ClaimsRow(e)
    BY <1>1, <2>1, ClaimedRowType, ClaimedRowFields
    DEF ClaimsRow, FreshTokens, Time
  <2>2. CASE RecoversRow(e)
    <3>1. Nows \subseteq Time
      BY NowsAreTimes DEF BasicInv, TypeOK
    <3> QED
      BY <1>1, <2>2, <3>1, RecoveredRowType, RecoveredRowFields DEF RecoversRow
  <2>3. CASE FinalisesRow(e)
    BY <2>3 DEF FinalisesRow
  <2>4. CASE outbox'[e] = outbox[e]
    BY <1>1, <2>4 DEF SameSignal
  <2> QED
    BY <2>1, <2>2, <2>3, <2>4, RowChanges
<1> QED
  BY <1>2, TableAssumption DEF Exists

\* A leased row is left to the holder of its token until an instant, of the
\* clock or of a caller, at which the lease has run out.
THEOREM LeaseAlwaysHonoured == Spec => LeaseHonoured
<1>1. Spec => []BasicInv
  BY BasicInit, BasicStep, PTL DEF Spec
<1>2. BasicInv /\ [Next]_vars => [LeaseHonouredStep]_vars
  <2> SUFFICES ASSUME BasicInv, [Next]_vars,
                      NEW e \in Events, Exists(e),
                      outbox[e].status = "PROCESSING",
                      outbox'[e] # outbox[e]
               PROVE  \/ \E w \in Workers :
                            /\ outbox[e].lease_token = token[w]
                            /\ \E r \in batch[w] :
                                  r.event_id = e /\ r \notin batch'[w]
                      \/ TakenOver(e)
    BY DEF LeaseHonouredStep
  <2>1. outbox[e] \in Row
    BY DEF BasicInv, TypeOK, Exists
  <2>2. CASE ClaimsRow(e)
    BY <2>1, <2>2, ClaimedRowFields DEF ClaimsRow, Eligible, TakenOver
  <2>3. CASE RecoversRow(e)
    <3>1. PICK now \in Nows : /\ Expired(outbox[e], now)
                              /\ outbox'[e] = RecoveredRow(outbox[e], now)
      BY <2>3 DEF RecoversRow
    <3> QED
      BY <2>1, <3>1, RecoveredRowFields DEF Expired, TakenOver
  <2>4. CASE FinalisesRow(e)
    <3>1. PICK w \in Workers : \E r \in batch[w], row \in Row :
            r.event_id = e /\ Finalise(w, r, row)
      BY <2>4 DEF FinalisesRow
    <3>2. PICK r \in batch[w], row \in Row :
            r.event_id = e /\ Finalise(w, r, row)
      BY <3>1
    <3>3. outbox[e].lease_token = token[w]
      BY <3>2 DEF Finalise, Owns, LeaseValid
    <3>4. r \notin batch'[w]
      BY <3>2, FinaliseBatch DEF BasicInv, TypeOK
    <3> QED
      BY <3>2, <3>3, <3>4
  <2> QED
    BY <2>2, <2>3, <2>4, RowChanges
<1> QED
  BY <1>1, <1>2, PTL DEF Spec, LeaseHonoured

\* SENT and DEAD_LETTER rows are never touched again.
THEOREM TerminalAlwaysStable == Spec => TerminalStable
<1>1. Spec => []BasicInv
  BY BasicInit, BasicStep, PTL DEF Spec
<1>2. BasicInv /\ [Next]_vars => [TerminalStableStep]_vars
  <2> SUFFICES ASSUME BasicInv, [Next]_vars, NEW e \in Events, Exists(e),
                      outbox[e].status \in {"SENT", "DEAD_LETTER"},
                      outbox'[e] # outbox[e]
               PROVE  FALSE
    BY DEF TerminalStableStep
  <2> QED
    BY RowChanges
    DEF ClaimsRow, RecoversRow, FinalisesRow, Eligible, Expired, Finalise,
        Owns, LeaseValid
<1> QED
  BY <1>1, <1>2, PTL DEF Spec, TerminalStable

\* No claim takes a retry for an instant before next_attempt_at.
THEOREM RetryNeverEarly == Spec => NoEarlyRetry
<1>1. Spec => []BasicInv
  BY BasicInit, BasicStep, PTL DEF Spec
<1>2. BasicInv /\ [Next]_vars => [NoEarlyRetryStep]_vars
  <2> SUFFICES ASSUME BasicInv, [Next]_vars, NEW e \in Events, Exists(e),
                      outbox[e].status = "RETRY",
                      outbox[e].next_attempt_at # NULL,
                      outbox'[e].status = "PROCESSING"
               PROVE  \E now \in Nows :
                         /\ outbox[e].next_attempt_at <= now
                         /\ outbox'[e].locked_until = now + LeaseSeconds
    BY DEF NoEarlyRetryStep
  <2>1. outbox[e] \in Row
    BY DEF BasicInv, TypeOK, Exists
  <2>2. ~RecoversRow(e) /\ ~FinalisesRow(e)
    BY <2>1 DEF RecoversRow, FinalisesRow, Expired
  <2>3. ClaimsRow(e)
    BY <2>2, RowChanges
  <2> QED
    BY <2>1, <2>3, ClaimedRowFields DEF ClaimsRow, Eligible
<1> QED
  BY <1>1, <1>2, PTL DEF Spec, NoEarlyRetry

\* What the last two theorems come to while no caller's instant is ahead of
\* the clock: a lease that runs is left to its holder, and no retry is early.
COROLLARY NobodyAhead ==
  ASSUME clock \in Nat, \A now \in Instants : now <= clock,
         LeaseHonouredStep, NoEarlyRetryStep,
         NEW e \in Events, Exists(e), outbox[e] \in Row
  PROVE  /\ /\ outbox[e].status = "PROCESSING"
            /\ outbox[e].locked_until \in Nat
            /\ outbox[e].locked_until > clock
            /\ outbox'[e] # outbox[e]
            => \E w \in Workers :
                  /\ outbox[e].lease_token = token[w]
                  /\ \E r \in batch[w] : r.event_id = e /\ r \notin batch'[w]
         /\ /\ outbox[e].status = "RETRY"
            /\ outbox[e].next_attempt_at # NULL
            /\ outbox'[e].status = "PROCESSING"
            => outbox[e].next_attempt_at <= clock
<1>1. \A now \in Nows : now \in Nat /\ now <= clock
  BY WorkerAssumption DEF Nows
<1>2. outbox[e].next_attempt_at # NULL => outbox[e].next_attempt_at \in Nat
  BY DEF Row, OptTime
<1> QED
  BY <1>1, <1>2 DEF LeaseHonouredStep, NoEarlyRetryStep, TakenOver

----------------------------------------------------------------------------
(***************************************************************************)
(* Why rows become SENT or DEAD_LETTER.                                    *)
(***************************************************************************)
\* Delivery makes no rows.
LEMMA NoNewRows ==
  ASSUME BasicInv, NEW e \in Events, ~Exists(e),
         \/ Tick
         \/ \E now \in Nows : Recover(now)
         \/ \E w \in Workers : Worker(w) \/ Abort(w)
  PROVE  ~(Exists(e))'
<1>1. ASSUME NEW now \in Nows, Recover(now)
      PROVE  ~(Exists(e))'
  BY <1>1 DEF Recover, Exists
<1>2. ASSUME NEW w \in Workers, ClaimUpdate(w)
      PROVE  ~(Exists(e))'
  <2>1. e \notin Claimable(w)
    BY DEF Claimable
  <2> QED
    BY <1>2, <2>1 DEF ClaimUpdate, Exists
<1>3. ASSUME NEW w \in Workers, Mark(w)
      PROVE  ~(Exists(e))'
  <2>1. PICK r \in batch[w], row \in Row : Finalise(w, r, row)
    BY <1>3, MarkFinalises
  <2> QED
    BY <2>1 DEF Finalise, Owns, Exists, BasicInv, TypeOK
<1>4. CASE outbox' = outbox
  BY <1>4 DEF Exists
<1> QED
  BY <1>1, <1>2, <1>3, <1>4
  DEF Worker, Continue, ProcessRecord, Mark, Tick, RunOnce, ClaimSelect,
      ClaimNothing, RejectEventId, SendReturns, SendRaises, ReadClock,
      BackoffFails, LeaseLost, Abort

\* A row that appears is PENDING and has had no attempt.
LEMMA NewRows ==
  ASSUME BasicInv, [Next]_vars, NEW e \in Events, ~Exists(e), (Exists(e))'
  PROVE  outbox'[e].status = "PENDING" /\ outbox'[e].attempt_count = 0
<1>1. ASSUME NEW f \in Events, NEW k \in Keys, NEW p \in Payloads,
             Enqueue(f, k, p)
      PROVE  outbox'[e].status = "PENDING" /\ outbox'[e].attempt_count = 0
  <2>1. PICK created : outbox' = [outbox EXCEPT ![f] = NewRow(k, p, created)]
    BY <1>1 DEF Enqueue
  <2>2. f = e
    BY <2>1 DEF BasicInv, TypeOK, Exists
  <2> QED
    BY <2>1, <2>2 DEF BasicInv, TypeOK, NewRow
<1>2. CASE UNCHANGED vars
  BY <1>2 DEF vars, Exists
<1> QED
  BY <1>1, <1>2, NoNewRows DEF Next

\* A row keeps its place in the order of the batches.
LEMMA CreatedKept ==
  ASSUME BasicInv, [Next]_vars, NEW e \in Events, Exists(e)
  PROVE  outbox'[e].created_at = outbox[e].created_at
<1>1. outbox[e] \in Row
  BY DEF BasicInv, TypeOK, Exists
<1> QED
  BY <1>1, RowChanges, RecoveredRowFields, ClaimedRowFields
  DEF ClaimsRow, RecoversRow, FinalisesRow

LEMMA FirstKept ==
  ASSUME HeldInv, [Next]_vars, NEW w \in Workers, batch'[w] = batch[w],
         NEW r \in batch[w], (IsFirst(w, r))'
  PROVE  IsFirst(w, r)
<1>1. \A s \in batch[w] :
        /\ s.event_id \in Events
        /\ outbox'[s.event_id].created_at = outbox[s.event_id].created_at
  BY CreatedKept DEF HeldInv, RecordInv, BasicInv, TypeOK, Record
<1> QED
  BY <1>1 DEF IsFirst, Before

\* There is one first record.
LEMMA FirstUnique ==
  ASSUME HeldInv, NEW w \in Workers, NEW r \in batch[w], NEW s \in batch[w],
         IsFirst(w, r), IsFirst(w, s)
  PROVE  r = s
<1> SUFFICES ASSUME r # s PROVE FALSE
  OBVIOUS
<1>1. Before(r.event_id, s.event_id) /\ Before(s.event_id, r.event_id)
  BY DEF IsFirst
<1>2. r.event_id \in Nat /\ s.event_id \in Nat
  <2>1. r.event_id \in Events /\ s.event_id \in Events
    BY DEF HeldInv, BasicInv, TypeOK, Record
  <2>2. Events \subseteq Nat
    BY TableAssumption
  <2> QED
    BY <2>1, <2>2
<1>3. /\ outbox[r.event_id].created_at \in Nat
      /\ outbox[s.event_id].created_at \in Nat
  <2>1. \A q \in batch[w] : outbox[q.event_id] \in Row
    BY DEF HeldInv, RecordInv, BasicInv, TypeOK, Record, Exists
  <2> QED
    BY <2>1 DEF Row, Time
<1> QED
  BY <1>1, <1>2, <1>3 DEF Before

LEMMA AckedGrows ==
  ASSUME BasicInv, [Next]_vars, NEW e \in Events
  PROVE  acked[e] \subseteq acked'[e]
<1>1. ASSUME NEW w \in Workers, SendReturns(w)
      PROVE  acked[e] \subseteq acked'[e]
  BY <1>1 DEF SendReturns, BasicInv, TypeOK
<1> QED
  BY <1>1
  DEF Next, Worker, Continue, ProcessRecord, Enqueue, Recover, Tick, RunOnce,
      ClaimSelect, ClaimUpdate, ClaimNothing, RejectEventId, SendRaises,
      ReadClock, MarkSent, MarkRetry, MarkDeadLetter, Quarantine, Finalise,
      BackoffFails, LeaseLost, Abort, vars

\* How a worker comes to mark an event as sent or malformed.
LEMMA OutcomeArises ==
  ASSUME BasicInv, [Next]_vars, NEW w \in Workers,
         pc'[w] \in {"sent", "malformed"}
  PROVE  \/ pc'[w] = pc[w] /\ batch'[w] = batch[w]
         \/ SendReturns(w)
         \/ RejectEventId(w)
<1>1. ASSUME NEW v \in Workers, Worker(v) \/ Abort(v), v # w
      PROVE  pc'[w] = pc[w] /\ batch'[w] = batch[w]
  <2>1. CASE Mark(v)
    <3>1. PICK r \in batch[v], row \in Row : Finalise(v, r, row)
      BY <2>1, MarkFinalises
    <3> QED
      BY <1>1, <3>1 DEF Finalise, NextRecord, EndPass, BasicInv, TypeOK
  <2>2. CASE ~Mark(v)
    BY <1>1, <2>2
    DEF Worker, Continue, ProcessRecord, Mark, RunOnce, ClaimSelect, ClaimUpdate,
        ClaimNothing, RejectEventId, SendReturns, SendRaises, ReadClock,
        BackoffFails, LeaseLost, Abort, EndPass, BasicInv, TypeOK
  <2> QED
    BY <2>1, <2>2
<1>2. ASSUME Worker(w) \/ Abort(w)
      PROVE  \/ pc'[w] = pc[w] /\ batch'[w] = batch[w]
             \/ SendReturns(w)
             \/ RejectEventId(w)
  <2>1. CASE Mark(w)
    <3>1. PICK r \in batch[w], row \in Row : Finalise(w, r, row)
      BY <2>1, MarkFinalises
    <3>2. pc'[w] \in {"idle", "process"}
      BY <3>1 DEF Finalise, NextRecord, EndPass, BasicInv, TypeOK
    <3> QED
      BY <3>2
  <2>2. CASE ~Mark(w)
    BY <1>2, <2>2
    DEF Worker, Continue, ProcessRecord, Mark, RunOnce, ClaimSelect, ClaimUpdate,
        ClaimNothing, SendRaises, BackoffFails, ReadClock, LeaseLost, Abort,
        EndPass, BasicInv, TypeOK
  <2> QED
    BY <2>1, <2>2
<1>3. CASE UNCHANGED <<pc, batch>>
  BY <1>3
<1> QED
  BY <1>1, <1>2, <1>3 DEF Next, Tick, Enqueue, Recover, vars, workerVars

LEMMA OutcomeInit == Init => OutcomeInv
  BY DEF Init, OutcomeInv

LEMMA OutcomeStep == HeldInv /\ OutcomeInv /\ [Next]_vars => OutcomeInv'
<1> SUFFICES ASSUME HeldInv, OutcomeInv, [Next]_vars,
                    NEW w \in Workers, NEW r \in batch'[w], (IsFirst(w, r))',
                    pc'[w] \in {"sent", "malformed"}
             PROVE  /\ pc'[w] = "sent" => r.attempt_count \in acked'[r.event_id]
                    /\ pc'[w] = "malformed" => r.event_id \in Malformed
  BY DEF OutcomeInv
<1>0. BasicInv
  BY DEF HeldInv
<1>1. CASE pc'[w] = pc[w] /\ batch'[w] = batch[w]
  <2>1. r \in batch[w] /\ IsFirst(w, r) /\ r.event_id \in Events
    BY <1>0, <1>1, FirstKept DEF BasicInv, TypeOK, Record
  <2> QED
    BY <1>0, <1>1, <2>1, AckedGrows DEF OutcomeInv
<1>2. CASE SendReturns(w)
  <2>1. PICK s \in batch[w] :
          /\ IsFirst(w, s)
          /\ acked' = [acked EXCEPT ![s.event_id] = @ \cup {s.attempt_count}]
    BY <1>2 DEF SendReturns
  <2>2. batch'[w] = batch[w] /\ pc'[w] = "sent"
    BY <1>0, <1>2 DEF SendReturns, BasicInv, TypeOK
  <2>3. r = s
    BY <2>1, <2>2, FirstKept, FirstUnique
  <2>4. s.event_id \in Events
    BY <1>0 DEF BasicInv, TypeOK, Record
  <2> QED
    BY <1>0, <2>1, <2>2, <2>3, <2>4 DEF BasicInv, TypeOK
<1>3. CASE RejectEventId(w)
  <2>1. PICK s \in batch[w] : IsFirst(w, s) /\ s.event_id \in Malformed
    BY <1>3 DEF RejectEventId
  <2>2. batch'[w] = batch[w] /\ pc'[w] = "malformed"
    BY <1>0, <1>3 DEF RejectEventId, BasicInv, TypeOK
  <2>3. r = s
    BY <2>1, <2>2, FirstKept, FirstUnique
  <2> QED
    BY <2>1, <2>2, <2>3
<1> QED
  BY <1>0, <1>1, <1>2, <1>3, OutcomeArises

----------------------------------------------------------------------------
(***************************************************************************)
(* No attempt is made twice.                                               *)
(***************************************************************************)
\* A worker's records are those of its claim, and then fewer and fewer.
LEMMA BatchChanges ==
  ASSUME BasicInv, [Next]_vars, NEW w \in Workers
  PROVE  batch'[w] \subseteq batch[w] \/ ClaimUpdate(w)
<1>1. ASSUME NEW v \in Workers, Mark(v)
      PROVE  batch'[w] \subseteq batch[w]
  <2>1. PICK r \in batch[v], row \in Row : Finalise(v, r, row)
    BY <1>1, MarkFinalises
  <2> QED
    BY <2>1, FinaliseBatch DEF BasicInv, TypeOK
<1>2. ASSUME NEW v \in Workers, ClaimUpdate(v), v # w
      PROVE  batch'[w] \subseteq batch[w]
  BY <1>2 DEF ClaimUpdate, BasicInv, TypeOK
<1>3. ASSUME NEW v \in Workers,
             ClaimNothing(v) \/ BackoffFails(v) \/ LeaseLost(v) \/ Abort(v)
      PROVE  batch'[w] \subseteq batch[w]
  BY <1>3 DEF ClaimNothing, BackoffFails, LeaseLost, Abort, EndPass,
              BasicInv, TypeOK
<1>4. CASE batch' = batch
  BY <1>4
<1> QED
  BY <1>1, <1>2, <1>3, <1>4
  DEF Next, Worker, Continue, ProcessRecord, Mark, Tick, Enqueue, Recover, RunOnce,
      ClaimSelect, RejectEventId, SendReturns, SendRaises, ReadClock,
      vars, workerVars

\* A claim begins an attempt that no record counts yet.
LEMMA ClaimIsNew ==
  ASSUME HeldInv, NEW w \in Workers, ClaimUpdate(w), NEW r \in batch'[w]
  PROVE  /\ r.event_id \in Claimable(w)
         /\ r.attempt_count = outbox[r.event_id].attempt_count + 1
         /\ \A v \in Workers \ {w} : batch'[v] = batch[v] /\ r \notin batch[v]
<1>1. PICK e \in Claimable(w) :
        r = [event_id |-> e, attempt_count |-> outbox[e].attempt_count + 1]
  BY DEF ClaimUpdate, HeldInv, BasicInv, TypeOK
<1>2. outbox[e].attempt_count \in Nat
  BY DEF Claimable, Exists, HeldInv, BasicInv, TypeOK, Row
<1>3. \A v \in Workers \ {w} : batch'[v] = batch[v]
  BY DEF ClaimUpdate, HeldInv, BasicInv, TypeOK
<1>4. \A v \in Workers : r \notin batch[v]
  BY <1>1, <1>2 DEF HeldInv, RecordInv
<1> QED
  BY <1>1, <1>3, <1>4

LEMMA DistinctStep ==
  HeldInv /\ AttemptsDistinct /\ [Next]_vars => AttemptsDistinct'
<1> SUFFICES ASSUME HeldInv, AttemptsDistinct, [Next]_vars,
                    NEW v \in Workers, NEW w \in Workers, v # w,
                    NEW r \in batch'[v] \cap batch'[w]
             PROVE  FALSE
  BY DEF AttemptsDistinct
<1>1. CASE ClaimUpdate(v)
  BY <1>1, ClaimIsNew
<1>2. CASE ClaimUpdate(w)
  BY <1>2, ClaimIsNew
<1>3. CASE batch'[v] \subseteq batch[v] /\ batch'[w] \subseteq batch[w]
  BY <1>3 DEF AttemptsDistinct
<1> QED
  BY <1>1, <1>2, <1>3, BatchChanges DEF HeldInv

\* While a worker has records, it keeps the instant it claimed them for.
LEMMA CurrentKept ==
  ASSUME BasicInv, [Next]_vars, NEW w \in Workers, batch'[w] # {}
  PROVE  current'[w] = current[w]
<1>1. ASSUME NEW v \in Workers, Mark(v)
      PROVE  current'[w] = current[w]
  <2>1. PICK r \in batch[v], row \in Row : Finalise(v, r, row)
    BY <1>1, MarkFinalises
  <2> QED
    BY <2>1, FinaliseBatch DEF BasicInv, TypeOK
<1>2. ASSUME NEW v \in Workers, NEW now, RunOnce(v, now)
      PROVE  current'[w] = current[w]
  BY <1>2 DEF RunOnce, BasicInv, TypeOK, PassInv
<1>3. ASSUME NEW v \in Workers, EndPass(v)
      PROVE  current'[w] = current[w]
  BY <1>3 DEF EndPass, BasicInv, TypeOK
<1>4. CASE current' = current
  BY <1>4
<1> QED
  BY <1>1, <1>2, <1>3, <1>4
  DEF Next, Worker, Continue, ProcessRecord, Mark, Tick, Enqueue, Recover,
      ClaimSelect, ClaimUpdate, ClaimNothing, RejectEventId, SendReturns,
      SendRaises, ReadClock, BackoffFails, LeaseLost, Abort, vars, workerVars

\* A claim takes events only after the leases that others took on them.
LEMMA ClaimIsLate ==
  ASSUME HeldInv, [Next]_vars, NEW w \in Workers, ClaimUpdate(w),
         NEW v \in Workers \ {w}, NEW r \in batch'[v], NEW s \in batch'[w],
         r.event_id = s.event_id
  PROVE  current'[v] + LeaseSeconds <= current'[w]
<1>1. r \in batch[v] /\ s.event_id \in Claimable(w)
  BY ClaimIsNew
<1>2. current'[v] = current[v] /\ current'[w] = current[w]
  BY CurrentKept DEF HeldInv
<1>3. Eligible(outbox[r.event_id], current[w]) /\ current[w] \in Nat
  BY <1>1 DEF Claimable, ClaimUpdate, HeldInv, BasicInv, TypeOK, PassInv, OptTime
<1> QED
  BY <1>1, <1>2, <1>3, TakenOverLate

LEMMA ExclusiveStep ==
  HeldInv /\ ExclusiveLease /\ [Next]_vars => ExclusiveLease'
<1> SUFFICES ASSUME HeldInv, ExclusiveLease, [Next]_vars,
                    NEW v \in Workers, NEW w \in Workers, v # w,
                    NEW r \in batch'[v], NEW s \in batch'[w],
                    r.event_id = s.event_id
             PROVE  \/ current'[v] + LeaseSeconds <= current'[w]
                    \/ current'[w] + LeaseSeconds <= current'[v]
  BY DEF ExclusiveLease
<1>1. CASE ClaimUpdate(v)
  BY <1>1, ClaimIsLate
<1>2. CASE ClaimUpdate(w)
  BY <1>2, ClaimIsLate
<1>3. CASE batch'[v] \subseteq batch[v] /\ batch'[w] \subseteq batch[w]
  <2>1. current'[v] = current[v] /\ current'[w] = current[w]
    BY CurrentKept DEF HeldInv
  <2> QED
    BY <1>3, <2>1 DEF ExclusiveLease
<1> QED
  BY <1>1, <1>2, <1>3, BatchChanges DEF HeldInv

LEMMA FirstStays ==
  ASSUME HeldInv, [Next]_vars, NEW w \in Workers, batch'[w] = batch[w],
         NEW r \in batch[w], IsFirst(w, r)
  PROVE  (IsFirst(w, r))'
<1>1. \A s \in batch[w] :
        /\ s.event_id \in Events
        /\ outbox'[s.event_id].created_at = outbox[s.event_id].created_at
  BY CreatedKept DEF HeldInv, RecordInv, BasicInv, TypeOK, Record
<1> QED
  BY <1>1 DEF IsFirst, Before

\* Attempts are counted up.
LEMMA AttemptsGrow ==
  ASSUME BasicInv, [Next]_vars, NEW e \in Events
  PROVE  /\ AttemptsOf(e) \in Nat /\ (AttemptsOf(e))' \in Nat
         /\ AttemptsOf(e) <= (AttemptsOf(e))'
<1>1. BasicInv'
  BY BasicStep
<1>2. AttemptsOf(e) \in Nat /\ (AttemptsOf(e))' \in Nat
  BY <1>1 DEF AttemptsOf, Exists, BasicInv, TypeOK, Row
<1>3. CASE Exists(e) /\ outbox'[e] # outbox[e]
  <2>1. outbox[e] \in Row /\ RowValid(outbox[e])
    BY <1>3 DEF Exists, BasicInv, TypeOK, RestartAccepts
  <2>2. /\ (Exists(e))'
        /\ \/ outbox'[e].attempt_count = outbox[e].attempt_count
           \/ outbox'[e].attempt_count = outbox[e].attempt_count + 1
    <3>0. (Exists(e))'
      BY <1>3, SignalKept
    <3>1. CASE ClaimsRow(e)
      BY <2>1, <3>0, <3>1, ClaimedRowFields DEF ClaimsRow
    <3>2. CASE RecoversRow(e)
      BY <2>1, <3>0, <3>2, RecoveredRowFields DEF RecoversRow
    <3>3. CASE FinalisesRow(e)
      BY <3>0, <3>3 DEF FinalisesRow
    <3> QED
      BY <1>3, <3>1, <3>2, <3>3, RowChanges
  <2>3. outbox[e].attempt_count \in Nat
    BY <2>1 DEF Row
  <2> QED
    BY <1>3, <2>2, <2>3 DEF AttemptsOf
<1>4. CASE ~Exists(e) \/ outbox'[e] = outbox[e]
  BY <1>2, <1>4 DEF AttemptsOf, Exists
<1> QED
  BY <1>2, <1>3, <1>4

\* Only a send that returns is recorded as accepted.
LEMMA AckedChanges ==
  ASSUME [Next]_vars
  PROVE  acked' = acked \/ \E w \in Workers : SendReturns(w)
  BY DEF Next, Worker, Continue, ProcessRecord, Enqueue, Recover, Tick, RunOnce,
      ClaimSelect, ClaimUpdate, ClaimNothing, RejectEventId, SendRaises,
      ReadClock, MarkSent, MarkRetry, MarkDeadLetter, Quarantine, Finalise,
      BackoffFails, LeaseLost, Abort, vars

\* A worker about to mark a record as sent goes on to do so, or loses it.
LEMMA SentGoesOn ==
  ASSUME BasicInv, [Next]_vars, NEW w \in Workers, pc[w] = "sent",
         batch'[w] # {}
  PROVE  (pc'[w] = pc[w] /\ batch'[w] = batch[w]) \/ Mark(w)
<1>1. ASSUME NEW v \in Workers, Worker(v) \/ Abort(v), v # w
      PROVE  pc'[w] = pc[w] /\ batch'[w] = batch[w]
  <2>1. CASE Mark(v)
    <3>1. PICK r \in batch[v], row \in Row : Finalise(v, r, row)
      BY <2>1, MarkFinalises
    <3> QED
      BY <1>1, <3>1 DEF Finalise, NextRecord, EndPass, BasicInv, TypeOK
  <2>2. CASE ~Mark(v)
    BY <1>1, <2>2
    DEF Worker, Continue, ProcessRecord, Mark, RunOnce, ClaimSelect, ClaimUpdate,
        ClaimNothing, RejectEventId, SendReturns, SendRaises, ReadClock,
        BackoffFails, LeaseLost, Abort, EndPass, BasicInv, TypeOK
  <2> QED
    BY <2>1, <2>2
<1>2. CASE (Worker(w) \/ Abort(w)) /\ ~Mark(w)
  BY <1>2
  DEF Worker, Continue, ProcessRecord, Mark, RunOnce, ClaimSelect, ClaimUpdate,
      ClaimNothing, RejectEventId, SendReturns, SendRaises, ReadClock,
      BackoffFails, LeaseLost, Abort, EndPass, BasicInv, TypeOK
<1>3. CASE UNCHANGED <<pc, batch>>
  BY <1>3
<1> QED
  BY <1>1, <1>2, <1>3 DEF Next, Tick, Enqueue, Recover, vars, workerVars

LEMMA FreshStep ==
  HeldInv /\ AttemptsDistinct /\ FreshInv /\ [Next]_vars => FreshInv'
<1> SUFFICES ASSUME HeldInv, AttemptsDistinct, FreshInv, [Next]_vars
             PROVE  FreshInv'
  OBVIOUS
<1>0. BasicInv
  BY DEF HeldInv
<1>1. ASSUME NEW e \in Events, NEW n \in acked'[e]
      PROVE  n \in 1..(AttemptsOf(e))'
  <2>1. AttemptsOf(e) \in Nat /\ (AttemptsOf(e))' \in Nat
        /\ AttemptsOf(e) <= (AttemptsOf(e))'
    BY <1>0, AttemptsGrow
  <2>2. n \in 1..AttemptsOf(e)
    <3>1. CASE n \in acked[e]
      BY <3>1 DEF FreshInv
    <3>2. CASE n \notin acked[e]
      <4>1. PICK w \in Workers : SendReturns(w)
        BY <1>1, <3>2, AckedChanges
      <4>2. PICK r \in batch[w] :
              acked' = [acked EXCEPT ![r.event_id] = @ \cup {r.attempt_count}]
        BY <4>1 DEF SendReturns
      <4>3. n = r.attempt_count /\ e = r.event_id
        BY <1>0, <1>1, <3>2, <4>2 DEF BasicInv, TypeOK
      <4>4. /\ Exists(e)
            /\ n \in Nat \ {0}
            /\ n <= outbox[e].attempt_count
        BY <1>0, <4>3 DEF HeldInv, RecordInv, BasicInv, TypeOK, Record
      <4> QED
        BY <2>1, <4>4 DEF AttemptsOf
    <3> QED
      BY <3>1, <3>2
  <2> QED
    BY <2>1, <2>2
<1>2. ASSUME NEW w \in Workers, NEW r \in batch'[w],
             r.attempt_count \in acked'[r.event_id]
      PROVE  pc'[w] = "sent" /\ (IsFirst(w, r))'
  <2>1. CASE ClaimUpdate(w)
    <3>1. /\ r.event_id \in Claimable(w)
          /\ r.attempt_count = outbox[r.event_id].attempt_count + 1
      BY <2>1, ClaimIsNew
    <3>2. acked' = acked /\ r.event_id \in Events /\ Exists(r.event_id)
      BY <1>0, <2>1, <3>1 DEF ClaimUpdate, Claimable, BasicInv, TypeOK
    <3>3. r.attempt_count \in 1..outbox[r.event_id].attempt_count
      BY <1>2, <3>2 DEF FreshInv, AttemptsOf
    <3>4. outbox[r.event_id].attempt_count \in Nat
      BY <1>0, <3>2 DEF Exists, BasicInv, TypeOK, Row
    <3> QED
      BY <3>1, <3>3, <3>4
  <2>2. CASE batch'[w] \subseteq batch[w] /\ acked' = acked
    <3>1. r \in batch[w] /\ pc[w] = "sent" /\ IsFirst(w, r)
      BY <1>2, <2>2 DEF FreshInv
    <3>2. CASE Mark(w)
      <4>1. PICK s \in batch[w], row \in Row : Finalise(w, s, row)
        BY <1>0, <3>2, MarkFinalises
      <4>2. s = r
        BY <3>1, <4>1, FirstUnique DEF Finalise
      <4> QED
        BY <1>0, <1>2, <4>1, <4>2, FinaliseBatch DEF BasicInv, TypeOK
    <3>3. CASE pc'[w] = pc[w] /\ batch'[w] = batch[w]
      BY <3>1, <3>3, FirstStays
    <3> QED
      BY <1>0, <1>2, <3>1, <3>2, <3>3, SentGoesOn
  <2>3. ASSUME NEW v \in Workers, SendReturns(v)
        PROVE  pc'[w] = "sent" /\ (IsFirst(w, r))'
    <3>1. PICK q \in batch[v] :
            /\ IsFirst(v, q)
            /\ acked' = [acked EXCEPT ![q.event_id] = @ \cup {q.attempt_count}]
      BY <2>3 DEF SendReturns
    <3>2. /\ pc' = [pc EXCEPT ![v] = "sent"] /\ pc[v] = "process"
          /\ batch' = batch /\ outbox' = outbox
      BY <2>3 DEF SendReturns
    <3>3. q \in Record /\ r \in Record /\ r \in batch[w]
      BY <1>0, <1>2, <3>2 DEF BasicInv, TypeOK
    <3>4. CASE r = q
      <4>1. v = w
        BY <3>3, <3>4 DEF AttemptsDistinct
      <4> QED
        BY <1>0, <3>1, <3>2, <3>4, <4>1
        DEF IsFirst, Before, BasicInv, TypeOK
    <3>5. CASE r # q
      <4>1. r.event_id # q.event_id \/ r.attempt_count # q.attempt_count
        BY <3>3, <3>5 DEF Record
      <4>2. r.attempt_count \in acked[r.event_id]
        BY <1>0, <1>2, <3>1, <3>3, <4>1 DEF BasicInv, TypeOK, Record
      <4>3. pc[w] = "sent" /\ IsFirst(w, r)
        BY <3>3, <4>2 DEF FreshInv
      <4>4. pc'[w] = pc[w]
        BY <1>0, <3>2, <4>3 DEF BasicInv, TypeOK
      <4> QED
        BY <3>2, <3>3, <4>3, <4>4, FirstStays
    <3> QED
      BY <3>4, <3>5
  <2> QED
    BY <1>0, <2>1, <2>2, <2>3, BatchChanges, AckedChanges
<1>3. \A e \in Events : acked'[e] \subseteq 1..(AttemptsOf(e))'
  BY <1>1
<1> QED
  BY <1>2, <1>3 DEF FreshInv

FullInv ==
  HeldInv /\ ExclusiveLease /\ OutcomeInv /\ AttemptsDistinct /\ FreshInv

LEMMA FullInit == Init => FullInv
<1> SUFFICES ASSUME Init PROVE ExclusiveLease /\ AttemptsDistinct /\ FreshInv
  BY BasicInit, HeldInit, OutcomeInit DEF FullInv, HeldInv
<1> QED
  BY DEF Init, ExclusiveLease, AttemptsDistinct, FreshInv

LEMMA InductiveInvHolds == Spec => []FullInv
<1>1. FullInv /\ [Next]_vars => FullInv'
  BY HeldStep, ExclusiveStep, OutcomeStep, DistinctStep, FreshStep DEF FullInv
<1> QED
  BY <1>1, FullInit, PTL DEF Spec

\* The invariant that TLC checks in the run outbox holds for any number of
\* workers, events, seconds and tokens: what run_once holds in its hands
\* agrees with the table until the lease runs out.
THEOREM InductiveAlways == Spec => []InductiveInv
<1>1. FullInv => InductiveInv
  BY DEF FullInv, HeldInv, BasicInv, InductiveInv
<1> QED
  BY <1>1, InductiveInvHolds, PTL

\* The leases that two workers take on one event never overlap
\* (claim_pending_outbox), whatever instants they are given.
THEOREM LeasesExclusive == Spec => []ExclusiveLease
<1>1. FullInv => ExclusiveLease
  BY DEF FullInv
<1> QED
  BY <1>1, InductiveInvHolds, PTL

\* So as long as the workers are not ahead of the clock, two of them never
\* both have a record of an event whose lease still runs.
COROLLARY RunningLeasesExclusive ==
  ASSUME FullInv, NEW v \in Workers, NEW w \in Workers,
         NEW r \in batch[v], NEW s \in batch[w], r.event_id = s.event_id,
         current[v] <= clock, clock < current[v] + LeaseSeconds,
         current[w] <= clock, clock < current[w] + LeaseSeconds
  PROVE  v = w
<1>1. /\ current[v] \in Nat /\ current[w] \in Nat
      /\ clock \in Nat /\ LeaseSeconds \in Nat
  BY ConstantFacts DEF FullInv, HeldInv, BasicInv, TypeOK, PassInv, OptTime, Time
<1> QED
  BY <1>1 DEF FullInv, ExclusiveLease

\* No two workers ever make the same attempt of an event.
THEOREM AttemptsAlwaysDistinct == Spec => []AttemptsDistinct
<1>1. FullInv => AttemptsDistinct
  BY DEF FullInv
<1> QED
  BY <1>1, InductiveInvHolds, PTL

\* The row of a first record that is finalised is in that record's attempt.
LEMMA FinaliseCounts ==
  ASSUME HeldInv, NEW w \in Workers, NEW r \in batch[w], NEW row,
         Finalise(w, r, row)
  PROVE  outbox[r.event_id].attempt_count = r.attempt_count
  BY DEF HeldInv, LeaseInv, Finalise, Owns, LeaseValid

\* SENT means that the transport accepted the event in the very attempt
\* the row counts.
THEOREM SentAlwaysAcknowledged == Spec => []SentWasAcknowledged
<1>1. Init => SentWasAcknowledged
  BY DEF Init, SentWasAcknowledged, Exists
<1>2. HeldInv /\ OutcomeInv /\ SentWasAcknowledged /\ [Next]_vars
        => SentWasAcknowledged'
  <2> SUFFICES ASSUME HeldInv, OutcomeInv, SentWasAcknowledged, [Next]_vars,
                      NEW e \in Events, (Exists(e))',
                      outbox'[e].status = "SENT"
               PROVE  outbox'[e].attempt_count \in acked'[e]
    BY DEF SentWasAcknowledged
  <2>0. BasicInv
    BY DEF HeldInv
  <2>1. Exists(e)
    BY <2>0, NewRows
  <2>2. acked[e] \subseteq acked'[e]
    BY <2>0, AckedGrows
  <2>3. CASE outbox'[e] = outbox[e]
    BY <2>1, <2>2, <2>3 DEF SentWasAcknowledged
  <2>4. CASE outbox'[e] # outbox[e]
    <3>1. outbox[e] \in Row
      BY <2>0, <2>1 DEF BasicInv, TypeOK, Exists
    <3>2. FinalisesRow(e)
      BY <2>0, <2>1, <2>4, <3>1, RowChanges, RecoveredRowFields, ClaimedRowFields
      DEF ClaimsRow, RecoversRow
    <3>3. PICK w \in Workers : \E r \in batch[w], row \in Row :
            /\ r.event_id = e /\ Finalise(w, r, row) /\ pc[w] = "sent"
            /\ outbox'[e].attempt_count = outbox[e].attempt_count
      BY <3>2 DEF FinalisesRow
    <3>4. PICK r \in batch[w], row \in Row :
            /\ r.event_id = e /\ Finalise(w, r, row) /\ pc[w] = "sent"
            /\ outbox'[e].attempt_count = outbox[e].attempt_count
      BY <3>3
    <3>5. IsFirst(w, r)
      BY <3>4 DEF Finalise
    <3>6. outbox'[e].attempt_count = r.attempt_count
      BY <3>4, FinaliseCounts
    <3>7. r.attempt_count \in acked[e]
      BY <3>4, <3>5 DEF OutcomeInv
    <3> QED
      BY <2>2, <3>6, <3>7
  <2> QED
    BY <2>3, <2>4
<1> QED
  BY <1>1, <1>2, InductiveInvHolds, PTL DEF Spec, FullInv

\* DEAD_LETTER means max_attempts claims, or a blank event_id.
THEOREM DeadLetterAlwaysExhausted == Spec => []DeadLetterExhausted
<1>1. Init => DeadLetterExhausted
  BY DEF Init, DeadLetterExhausted, Exists
<1>2. HeldInv /\ OutcomeInv /\ DeadLetterExhausted /\ [Next]_vars
        => DeadLetterExhausted'
  <2> SUFFICES ASSUME HeldInv, OutcomeInv, DeadLetterExhausted, [Next]_vars,
                      NEW e \in Events, (Exists(e))',
                      outbox'[e].status = "DEAD_LETTER"
               PROVE  outbox'[e].attempt_count >= MaxAttempts \/ e \in Malformed
    BY DEF DeadLetterExhausted
  <2>0. BasicInv
    BY DEF HeldInv
  <2>1. Exists(e)
    BY <2>0, NewRows
  <2>2. CASE outbox'[e] = outbox[e]
    BY <2>1, <2>2 DEF DeadLetterExhausted
  <2>3. CASE outbox'[e] # outbox[e]
    <3>1. outbox[e] \in Row
      BY <2>0, <2>1 DEF BasicInv, TypeOK, Exists
    <3>2. FinalisesRow(e)
      BY <2>0, <2>1, <2>3, <3>1, RowChanges, RecoveredRowFields, ClaimedRowFields
      DEF ClaimsRow, RecoversRow
    <3>3. PICK w \in Workers : \E r \in batch[w], row \in Row :
            /\ r.event_id = e /\ Finalise(w, r, row)
            /\ pc[w] = "malformed" \/ Exhausted(r)
            /\ outbox'[e].attempt_count = outbox[e].attempt_count
      BY <3>2 DEF FinalisesRow
    <3>4. PICK r \in batch[w], row \in Row :
            /\ r.event_id = e /\ Finalise(w, r, row)
            /\ pc[w] = "malformed" \/ Exhausted(r)
            /\ outbox'[e].attempt_count = outbox[e].attempt_count
      BY <3>3
    <3>5. IsFirst(w, r)
      BY <3>4 DEF Finalise
    <3>6. outbox'[e].attempt_count = r.attempt_count
      BY <3>4, FinaliseCounts
    <3>7. pc[w] = "malformed" => e \in Malformed
      BY <3>4, <3>5 DEF OutcomeInv
    <3> QED
      BY <3>4, <3>6, <3>7 DEF Exhausted
  <2> QED
    BY <2>2, <2>3
<1> QED
  BY <1>1, <1>2, InductiveInvHolds, PTL DEF Spec, FullInv

----------------------------------------------------------------------------
(***************************************************************************)
(* NotificationWorker implements OutboxLifecycle: each step of the workers *)
(* and of the table is one step in the life of the events, or a stutter.   *)
(***************************************************************************)
LifecycleStep == [Lifecycle!Next]_(Lifecycle!vars)

\* The rows' statuses and attempts determine the mapped state.
LEMMA StutterStep ==
  ASSUME \A e \in Events : /\ (StatusOf(e))' = StatusOf(e)
                           /\ (AttemptsOf(e))' = AttemptsOf(e),
         acked' = acked
  PROVE  LifecycleStep
  BY DEF LifecycleStep, Lifecycle!vars

LEMMA SameRows ==
  ASSUME outbox' = outbox
  PROVE  \A e \in Events : /\ (StatusOf(e))' = StatusOf(e)
                           /\ (AttemptsOf(e))' = AttemptsOf(e)
  BY DEF StatusOf, AttemptsOf, Exists

LEMMA EnqueueStep ==
  ASSUME BasicInv, NEW e \in Events, NEW k \in Keys, NEW p \in Payloads,
         Enqueue(e, k, p)
  PROVE  LifecycleStep
<1>1. PICK created \in 0..clock :
        outbox' = [outbox EXCEPT ![e] = NewRow(k, p, created)]
  BY DEF Enqueue
<1>2. NewRow(k, p, created) \in Row
  BY NewRowType DEF Time, BasicInv, TypeOK
<1>3. NewRow(k, p, created) # NULL
  BY <1>2, TableAssumption
<1>4. /\ \A f \in Events : (StatusOf(f))' = IF f = e THEN "PENDING" ELSE StatusOf(f)
      /\ \A f \in Events : (AttemptsOf(f))' = AttemptsOf(f)
      /\ StatusOf(e) = "NONE"
  BY <1>1, <1>3 DEF StatusOf, AttemptsOf, Exists, NewRow, Enqueue, BasicInv, TypeOK
<1>5. acked' = acked
  BY DEF Enqueue
<1>6. Lifecycle!Create(e)
  BY <1>4, <1>5 DEF Lifecycle!Create
<1> QED
  BY <1>6 DEF LifecycleStep, Lifecycle!Next

LEMMA PostponeStep ==
  ASSUME NEW S \in SUBSET Events, acked' = acked,
         \A e \in S : StatusOf(e) = "PROCESSING",
         \A e \in Events : (StatusOf(e))' = IF e \in S THEN "RETRY" ELSE StatusOf(e),
         \A e \in Events : (AttemptsOf(e))' = AttemptsOf(e)
  PROVE  LifecycleStep
<1>1. Lifecycle!Postpone(S)
  BY DEF Lifecycle!Postpone
<1> QED
  BY <1>1 DEF LifecycleStep, Lifecycle!Next

LEMMA RecoverStep ==
  ASSUME BasicInv, NEW now \in Nows, Recover(now)
  PROVE  LifecycleStep
<1> DEFINE S == {e \in Events : Exists(e) /\ Expired(outbox[e], now)}
<1>1. \A e \in Events :
        outbox'[e] = IF e \in S THEN RecoveredRow(outbox[e], now) ELSE outbox[e]
  BY DEF Recover
<1>2. now \in Time
  BY NowsAreTimes DEF BasicInv, TypeOK
<1>3. \A e \in S : /\ RecoveredRow(outbox[e], now) # NULL
                   /\ RecoveredRow(outbox[e], now).status = "RETRY"
                   /\ RecoveredRow(outbox[e], now).attempt_count
                        = outbox[e].attempt_count
                   /\ outbox[e].status = "PROCESSING"
  <2> SUFFICES ASSUME NEW e \in S
               PROVE  /\ RecoveredRow(outbox[e], now) # NULL
                      /\ RecoveredRow(outbox[e], now).status = "RETRY"
                      /\ RecoveredRow(outbox[e], now).attempt_count
                           = outbox[e].attempt_count
                      /\ outbox[e].status = "PROCESSING"
    OBVIOUS
  <2>1. outbox[e] \in Row /\ RowValid(outbox[e]) /\ Expired(outbox[e], now)
    BY DEF BasicInv, TypeOK, RestartAccepts, Exists
  <2>2. RecoveredRow(outbox[e], now) \in Row
    BY <1>2, <2>1, RecoveredRowType
  <2> QED
    BY <2>1, <2>2, RecoveredRowFields, TableAssumption DEF Expired
<1>4. \A e \in S : Exists(e)
  OBVIOUS
<1>5. S \in SUBSET Events
  OBVIOUS
<1>6. acked' = acked
  BY DEF Recover
<1> HIDE DEF S
<1>7. /\ \A e \in S : StatusOf(e) = "PROCESSING"
      /\ \A e \in Events : (StatusOf(e))' = IF e \in S THEN "RETRY" ELSE StatusOf(e)
      /\ \A e \in Events : (AttemptsOf(e))' = AttemptsOf(e)
  BY <1>1, <1>3, <1>4, <1>5 DEF StatusOf, AttemptsOf, Exists
<1> QED
  BY <1>5, <1>6, <1>7, PostponeStep

LEMMA ClaimStep ==
  ASSUME BasicInv, NEW w \in Workers, ClaimUpdate(w)
  PROVE  LifecycleStep
<1> DEFINE S == Claimable(w)
<1>1. PICK t \in FreshTokens :
        outbox' = [e \in Events |->
                     IF e \in S THEN ClaimedRow(outbox[e], current[w], w, t)
                     ELSE outbox[e]]
  BY DEF ClaimUpdate
<1>2. \A e \in S : /\ ClaimedRow(outbox[e], current[w], w, t) # NULL
                   /\ ClaimedRow(outbox[e], current[w], w, t).status = "PROCESSING"
                   /\ ClaimedRow(outbox[e], current[w], w, t).attempt_count
                        = outbox[e].attempt_count + 1
                   /\ outbox[e].status \in {"PENDING", "RETRY", "PROCESSING"}
  <2> SUFFICES ASSUME NEW e \in S
               PROVE  /\ ClaimedRow(outbox[e], current[w], w, t) # NULL
                      /\ ClaimedRow(outbox[e], current[w], w, t).status = "PROCESSING"
                      /\ ClaimedRow(outbox[e], current[w], w, t).attempt_count
                           = outbox[e].attempt_count + 1
                      /\ outbox[e].status \in {"PENDING", "RETRY", "PROCESSING"}
    OBVIOUS
  <2>1. /\ outbox[e] \in Row /\ RowValid(outbox[e])
        /\ Eligible(outbox[e], current[w])
    BY DEF Claimable, BasicInv, TypeOK, RestartAccepts, Exists
  <2>2. current[w] \in Time
    BY DEF ClaimUpdate, BasicInv, TypeOK, PassInv, OptTime, Time
  <2>3. ClaimedRow(outbox[e], current[w], w, t) \in Row
    BY <2>1, <2>2, ClaimedRowType DEF FreshTokens
  <2> QED
    BY <2>1, <2>3, ClaimedRowFields, TableAssumption DEF Eligible
<1>3. S \in SUBSET Events /\ \A e \in S : Exists(e)
  BY DEF Claimable, BasicInv, TypeOK
<1>4. acked' = acked
  BY DEF ClaimUpdate
<1> HIDE DEF S
<1>5. /\ \A e \in S : StatusOf(e) \in {"PENDING", "RETRY", "PROCESSING"}
      /\ \A e \in Events :
            (StatusOf(e))' = IF e \in S THEN "PROCESSING" ELSE StatusOf(e)
      /\ \A e \in Events :
            (AttemptsOf(e))' = IF e \in S THEN AttemptsOf(e) + 1 ELSE AttemptsOf(e)
  BY <1>1, <1>2, <1>3 DEF StatusOf, AttemptsOf, Exists
<1>6. Lifecycle!Begin(S)
  BY <1>3, <1>4, <1>5 DEF Lifecycle!Begin
<1> QED
  BY <1>3, <1>6 DEF LifecycleStep, Lifecycle!Next

LEMMA SendStep ==
  ASSUME FullInv, NEW w \in Workers, SendReturns(w)
  PROVE  LifecycleStep
<1>0. HeldInv /\ BasicInv /\ FreshInv
  BY DEF FullInv, HeldInv
<1>1. PICK r \in batch[w] :
        /\ r.event_id \notin Malformed
        /\ acked' = [acked EXCEPT ![r.event_id] = @ \cup {r.attempt_count}]
  BY DEF SendReturns
<1> DEFINE e == r.event_id
           n == r.attempt_count
<1>2. e \in Events /\ n \in Nat \ {0} /\ Exists(e) /\ n <= AttemptsOf(e)
  BY <1>0 DEF HeldInv, RecordInv, BasicInv, TypeOK, Record, AttemptsOf
<1>3. AttemptsOf(e) \in Nat
  BY <1>0, <1>2 DEF AttemptsOf, Exists, BasicInv, TypeOK, Row
<1>4. n \notin acked[e]
  BY <1>0 DEF FreshInv, SendReturns
<1>5. \A f \in Events : /\ (StatusOf(f))' = StatusOf(f)
                        /\ (AttemptsOf(f))' = AttemptsOf(f)
  BY SameRows DEF SendReturns
<1>6. n \in 1..AttemptsOf(e)
  BY <1>2, <1>3
<1>7. Lifecycle!Accept(e, n)
  BY <1>1, <1>2, <1>4, <1>5, <1>6 DEF Lifecycle!Accept
<1>8. n \in 1..([f \in Events |-> AttemptsOf(f)])[e]
  BY <1>2, <1>6
<1> QED
  BY <1>2, <1>7, <1>8 DEF LifecycleStep, Lifecycle!Next

\* What a finalising UPDATE does to the mapped state.
LEMMA FinaliseMaps ==
  ASSUME FullInv, NEW w \in Workers, NEW r \in batch[w], NEW row \in Row,
         Finalise(w, r, row),
         row.attempt_count = outbox[r.event_id].attempt_count
  PROVE  /\ r.event_id \in Events
         /\ StatusOf(r.event_id) = "PROCESSING"
         /\ AttemptsOf(r.event_id) = r.attempt_count
         /\ \A f \in Events :
               (StatusOf(f))' = IF f = r.event_id THEN row.status ELSE StatusOf(f)
         /\ \A f \in Events : (AttemptsOf(f))' = AttemptsOf(f)
         /\ acked' = acked
<1>1. HeldInv /\ BasicInv
  BY DEF FullInv, HeldInv
<1>2. /\ r.event_id \in Events
      /\ outbox[r.event_id] \in Row
      /\ outbox[r.event_id].status = "PROCESSING"
      /\ outbox[r.event_id].attempt_count = r.attempt_count
  BY <1>1, FinaliseFinds, FinaliseCounts
<1>3. outbox' = [outbox EXCEPT ![r.event_id] = row] /\ acked' = acked
  BY DEF Finalise
<1> QED
  BY <1>1, <1>2, <1>3, TableAssumption
  DEF StatusOf, AttemptsOf, Exists, BasicInv, TypeOK

LEMMA MarkSentStep ==
  ASSUME FullInv, NEW w \in Workers, MarkSent(w)
  PROVE  LifecycleStep
<1>1. PICK r \in batch[w] :
        Finalise(w, r, SentRow(outbox[r.event_id], current[w]))
  BY DEF MarkSent
<1> DEFINE row == SentRow(outbox[r.event_id], current[w])
           e == r.event_id
<1>2. BasicInv /\ OutcomeInv
  BY DEF FullInv, HeldInv
<1>3. outbox[e] \in Row /\ current[w] \in Time
  BY <1>1, <1>2, FinaliseFinds
<1>4. row \in Row /\ row.attempt_count = outbox[e].attempt_count
      /\ row.status = "SENT"
  BY <1>3, SentRowType, FinalRowFields
<1>5. Finalise(w, r, row)
  BY <1>1
<1> HIDE DEF row
<1>6. /\ e \in Events /\ StatusOf(e) = "PROCESSING"
      /\ AttemptsOf(e) = r.attempt_count
      /\ \A f \in Events : (StatusOf(f))' = IF f = e THEN "SENT" ELSE StatusOf(f)
      /\ \A f \in Events : (AttemptsOf(f))' = AttemptsOf(f)
      /\ acked' = acked
  BY <1>4, <1>5, FinaliseMaps
<1>7. r.attempt_count \in acked[e]
  BY <1>2, <1>5 DEF OutcomeInv, MarkSent, Finalise
<1>8. Lifecycle!Complete(e)
  BY <1>6, <1>7 DEF Lifecycle!Complete
<1> QED
  BY <1>6, <1>8 DEF LifecycleStep, Lifecycle!Next

LEMMA MarkRetryStep ==
  ASSUME FullInv, NEW w \in Workers, MarkRetry(w)
  PROVE  LifecycleStep
<1>1. BasicInv /\ Mark(w) /\ pc[w] = "failed"
  BY DEF FullInv, HeldInv, Mark, MarkRetry
<1>2. PICK r \in batch[w] :
        /\ ~Exhausted(r)
        /\ Finalise(w, r, RetryRow(outbox[r.event_id],
                                  current[w] + Delay(r.attempt_count),
                                  "delivery error"))
  BY DEF MarkRetry
<1> DEFINE row == RetryRow(outbox[r.event_id],
                           current[w] + Delay(r.attempt_count),
                           "delivery error")
           e == r.event_id
<1>3. /\ outbox[e] \in Row /\ RowValid(outbox[e])
      /\ outbox[e].status = "PROCESSING" /\ e \in Events
  BY <1>1, <1>2, FinaliseFinds
<1>4. row \in Row
  <2>1. current[w] + Delay(r.attempt_count) \in Time
    BY <1>1, <1>2, RetryTime, FinaliseFinds
  <2>2. "delivery error" \in Errors
    BY DEF Errors
  <2> QED
    BY <1>3, <2>1, <2>2, RetryRowType, Zenon
<1>5. row.status = "RETRY" /\ row.attempt_count = outbox[e].attempt_count
  BY <1>3 DEF RetryRow, Row
<1>6. Finalise(w, r, row)
  BY <1>2
<1> HIDE DEF row
<1>7. /\ StatusOf(e) = "PROCESSING"
      /\ \A f \in Events : (StatusOf(f))' = IF f = e THEN "RETRY" ELSE StatusOf(f)
      /\ \A f \in Events : (AttemptsOf(f))' = AttemptsOf(f)
      /\ acked' = acked
  BY <1>4, <1>5, <1>6, FinaliseMaps
<1> DEFINE S == {e}
<1>8. S \in SUBSET Events
  BY <1>3
<1>9. /\ \A f \in S : StatusOf(f) = "PROCESSING"
      /\ \A f \in Events : (StatusOf(f))' = IF f \in S THEN "RETRY" ELSE StatusOf(f)
  BY <1>7
<1> QED
  BY <1>7, <1>8, <1>9, PostponeStep

LEMMA GiveUpStep ==
  ASSUME FullInv, NEW w \in Workers, MarkDeadLetter(w) \/ Quarantine(w)
  PROVE  LifecycleStep
<1>1. BasicInv /\ OutcomeInv
  BY DEF FullInv, HeldInv
<1>2. PICK r \in batch[w], err \in Errors :
        /\ Finalise(w, r, DeadLetterRow(outbox[r.event_id], err))
        /\ pc[w] = "malformed" \/ Exhausted(r)
  BY DEF MarkDeadLetter, Quarantine, Errors
<1> DEFINE row == DeadLetterRow(outbox[r.event_id], err)
           e == r.event_id
<1>3. /\ outbox[e] \in Row /\ RowValid(outbox[e])
      /\ outbox[e].status = "PROCESSING"
  BY <1>1, <1>2, FinaliseFinds
<1>4. row \in Row /\ row.attempt_count = outbox[e].attempt_count
      /\ row.status = "DEAD_LETTER"
  BY <1>3, DeadLetterRowType, FinalRowFields, ConstantFacts
<1>5. Finalise(w, r, row)
  BY <1>2
<1> HIDE DEF row
<1>6. /\ e \in Events /\ StatusOf(e) = "PROCESSING"
      /\ AttemptsOf(e) = r.attempt_count
      /\ \A f \in Events :
            (StatusOf(f))' = IF f = e THEN "DEAD_LETTER" ELSE StatusOf(f)
      /\ \A f \in Events : (AttemptsOf(f))' = AttemptsOf(f)
      /\ acked' = acked
  BY <1>4, <1>5, FinaliseMaps
<1>7. AttemptsOf(e) >= MaxAttempts \/ e \in Malformed
  BY <1>1, <1>2, <1>5, <1>6 DEF OutcomeInv, Exhausted, Finalise
<1>8. Lifecycle!GiveUp(e)
  BY <1>6, <1>7 DEF Lifecycle!GiveUp
<1> QED
  BY <1>6, <1>8 DEF LifecycleStep, Lifecycle!Next

\* Every step of the code is one of the lifecycle, or changes nothing it sees.
LEMMA StepImplements == FullInv /\ [Next]_vars => LifecycleStep
<1> SUFFICES ASSUME FullInv, [Next]_vars PROVE LifecycleStep
  OBVIOUS
<1>0. BasicInv
  BY DEF FullInv, HeldInv
<1>1. CASE outbox' = outbox /\ acked' = acked
  BY <1>1, SameRows, StutterStep
<1>2. ASSUME NEW e \in Events, NEW k \in Keys, NEW p \in Payloads,
             Enqueue(e, k, p)
      PROVE  LifecycleStep
  BY <1>0, <1>2, EnqueueStep
<1>3. ASSUME NEW now \in Nows, Recover(now)
      PROVE  LifecycleStep
  BY <1>0, <1>3, RecoverStep
<1>4. ASSUME NEW w \in Workers, Worker(w) \/ Abort(w)
      PROVE  LifecycleStep
  <2>1. CASE ClaimUpdate(w)
    BY <1>0, <2>1, ClaimStep
  <2>2. CASE SendReturns(w)
    BY <2>2, SendStep
  <2>3. CASE MarkSent(w)
    BY <2>3, MarkSentStep
  <2>4. CASE MarkRetry(w)
    BY <2>4, MarkRetryStep
  <2>5. CASE MarkDeadLetter(w) \/ Quarantine(w)
    BY <2>5, GiveUpStep
  <2>6. CASE \/ \E now \in {clock} \cup Instants : RunOnce(w, now)
             \/ ClaimSelect(w) \/ ClaimNothing(w)
             \/ RejectEventId(w) \/ SendRaises(w) \/ BackoffFails(w)
             \/ ReadClock(w) \/ LeaseLost(w) \/ Abort(w)
    BY <1>1, <2>6
    DEF RunOnce, ClaimSelect, ClaimNothing, RejectEventId, SendRaises,
        BackoffFails, ReadClock, LeaseLost, Abort
  <2> QED
    BY <1>4, <2>1, <2>2, <2>3, <2>4, <2>5, <2>6 DEF Worker, Continue, ProcessRecord
<1> QED
  BY <1>1, <1>2, <1>3, <1>4 DEF Next, Tick, vars

LEMMA InitImplements == Init => Lifecycle!Init
  BY DEF Init, Lifecycle!Init, StatusOf, AttemptsOf, Exists

\* The delivery promises of the outbox: at least one send before SENT, at
\* most one per numbered attempt, and nothing given up early, for any number
\* of workers, events, seconds and crashes.
THEOREM LifecycleImplemented == Spec => ImplementsLifecycle
<1>1. FullInv /\ [Next]_vars => [Lifecycle!Next]_(Lifecycle!vars)
  BY StepImplements DEF LifecycleStep
<1> QED
  BY <1>1, InitImplements, InductiveInvHolds, PTL
  DEF Spec, ImplementsLifecycle, Lifecycle!Spec

----------------------------------------------------------------------------
(***************************************************************************)
(* What an event costs, when passes end before their leases (module        *)
(* DeliveryProgress).  Moving the stored instants into the past is the one *)
(* step of LiveSpec that is not a step of Spec: the invariant survives it. *)
(***************************************************************************)
LEMMA AgedTime ==
  ASSUME NEW t \in OptTime
  PROVE  /\ Aged(t) \in OptTime
         /\ Aged(t) = NULL <=> t = NULL
         /\ t \in Nat \ {0} => Aged(t) = t - 1
         /\ t \in Nat => Aged(t) \in Nat /\ Aged(t) <= t
  BY ConstantFacts DEF Aged, OptTime

LEMMA AgedRowFields ==
  ASSUME NEW row \in Row
  PROVE  /\ AgedRow(row) \in Row
         /\ AgedRow(row).attempt_count = row.attempt_count
         /\ AgedRow(row).status = row.status
         /\ AgedRow(row).created_at = row.created_at
         /\ AgedRow(row).owner_id = row.owner_id
         /\ AgedRow(row).lease_token = row.lease_token
         /\ AgedRow(row).locked_until = Aged(row.locked_until)
         /\ RowValid(row) => RowValid(AgedRow(row))
<1>1. /\ row.next_attempt_at \in OptTime
      /\ row.locked_until \in OptTime
      /\ row.sent_at \in OptTime
  BY DEF Row
<1>2. /\ Aged(row.next_attempt_at) \in OptTime
      /\ Aged(row.locked_until) \in OptTime
      /\ Aged(row.sent_at) \in OptTime
      /\ Aged(row.locked_until) = NULL <=> row.locked_until = NULL
      /\ Aged(row.sent_at) = NULL <=> row.sent_at = NULL
  BY <1>1, AgedTime
<1>3. AgedRow(row) \in Row
  BY <1>2 DEF AgedRow, Row
<1>4. /\ AgedRow(row).attempt_count = row.attempt_count
      /\ AgedRow(row).status = row.status
      /\ AgedRow(row).created_at = row.created_at
      /\ AgedRow(row).owner_id = row.owner_id
      /\ AgedRow(row).lease_token = row.lease_token
      /\ AgedRow(row).locked_until = Aged(row.locked_until)
      /\ AgedRow(row).sent_at = Aged(row.sent_at)
      /\ AgedRow(row).last_error = row.last_error
  BY DEF AgedRow, Row
<1>5. RowValid(row) => RowValid(AgedRow(row))
  BY <1>2, <1>4
  DEF RowValid, SentStateValid, DeadLetterValid, LeaseFieldsValid
<1> QED
  BY <1>3, <1>4, <1>5

LEMMA AgedRows ==
  ASSUME BasicInv, AgeAll, NEW e \in Events
  PROVE  /\ (Exists(e))' <=> Exists(e)
         /\ Exists(e) => outbox[e] \in Row /\ outbox'[e] = AgedRow(outbox[e])
         /\ ~Exists(e) => outbox'[e] = NULL
<1>1. Exists(e) => outbox[e] \in Row /\ outbox'[e] = AgedRow(outbox[e])
  BY DEF BasicInv, TypeOK, Exists, AgeAll
<1>2. ~Exists(e) => outbox'[e] = NULL
  BY DEF AgeAll, Exists
<1>3. Exists(e) => outbox'[e] \in Row
  BY <1>1, AgedRowFields
<1> QED
  BY <1>1, <1>2, <1>3, TableAssumption DEF Exists

LEMMA AgeBasic ==
  ASSUME BasicInv, PromptInv, AgeAll
  PROVE  BasicInv'
<1>1. \A e \in Events : outbox'[e] \in Row \cup {NULL}
  BY AgedRows, AgedRowFields
<1>2. RestartAccepts'
  BY AgedRows, AgedRowFields DEF BasicInv, RestartAccepts
<1>3. \A w \in Workers : /\ current[w] \in OptTime /\ checked[w] \in OptTime
                         /\ current'[w] = Aged(current[w])
                         /\ checked'[w] = Aged(checked[w])
  BY DEF BasicInv, TypeOK, AgeAll
<1>4. \A w \in Workers :
        /\ current'[w] \in OptTime /\ checked'[w] \in OptTime
        /\ current'[w] = NULL <=> current[w] = NULL
        /\ checked'[w] = NULL <=> checked[w] = NULL
        /\ current'[w] # NULL => current'[w] \in Nat /\ current'[w] <= current[w]
                                /\ current[w] \in Nat
        /\ checked'[w] # NULL => checked'[w] \in Nat /\ checked'[w] <= checked[w]
                                /\ checked[w] \in Nat
  BY <1>3, AgedTime DEF OptTime
<1>5. TypeOK'
  BY <1>1, <1>4 DEF BasicInv, TypeOK, AgeAll
<1>6. PassInv'
  <2>1. \A w \in Workers : current[w] # NULL => current[w] <= clock
    BY DEF BasicInv, PassInv, PromptInv
  <2>2. \A w \in Workers : current'[w] # NULL => current'[w] \in 0..clock
    BY <1>4, <2>1 DEF BasicInv, TypeOK, Time
  <2> QED
    BY <1>4, <2>2 DEF BasicInv, PassInv, TypeOK, Time, AgeAll, Nows
<1> QED
  BY <1>2, <1>5, <1>6 DEF BasicInv

LEMMA AgeHeld ==
  ASSUME HeldInv, PromptInv, HoldInv, AgeAll, Prompt
  PROVE  /\ HeldInv'
         /\ \A w \in Workers : \A r \in batch[w] :
               current[w] \in Nat /\ current'[w] = current[w] - 1
<1>0. BasicInv
  BY DEF HeldInv
<1>1. /\ batch' = batch /\ token' = token /\ pc' = pc /\ clock' = clock
      /\ clock = MaxTime
  BY DEF AgeAll
<1>2. \A w \in Workers : \A r \in batch[w] :
        /\ r.event_id \in Events /\ Exists(r.event_id)
        /\ outbox[r.event_id] \in Row
        /\ outbox'[r.event_id] = AgedRow(outbox[r.event_id])
        /\ (Exists(r.event_id))'
  BY <1>0, AgedRows DEF HeldInv, RecordInv, BasicInv, TypeOK, Record
<1>3. RecordInv'
  BY <1>1, <1>2, AgedRowFields DEF HeldInv, RecordInv
<1>4. ASSUME NEW w \in Workers, NEW r \in batch[w]
      PROVE  current[w] \in Nat /\ current'[w] = current[w] - 1
  <2>1. pc[w] # "idle" /\ current[w] # NULL
    BY <1>0, <1>4 DEF BasicInv, PassInv
  <2>2. current[w] \in Nat /\ current'[w] = Aged(current[w])
    BY <1>0, <2>1 DEF BasicInv, TypeOK, OptTime, AgeAll
  <2>3. MaxTime + 1 < current[w] + LeaseSeconds
    BY <1>1, <2>1 DEF Prompt
  <2>4. /\ MaxTime \in Nat /\ LeaseSeconds \in Nat /\ MaxTime >= LeaseSeconds
    BY WorkerAssumption, ConstantFacts, ProgressAssumption
  <2>5. current[w] # 0
    BY <2>2, <2>3, <2>4
  <2>6. current[w] \in OptTime
    BY <2>2 DEF OptTime
  <2>7. current'[w] = current[w] - 1
    BY <2>2, <2>5, <2>6, AgedTime
  <2> QED
    BY <1>1, <2>2, <2>3, <2>4, <2>7
<1>5. ASSUME NEW w \in Workers, NEW r \in batch[w],
             outbox[r.event_id].lease_token = token[w]
      PROVE  /\ outbox'[r.event_id].owner_id = w
             /\ outbox'[r.event_id].attempt_count = r.attempt_count
             /\ outbox'[r.event_id].locked_until = current'[w] + LeaseSeconds
  <2>1. /\ outbox[r.event_id].owner_id = w
        /\ outbox[r.event_id].attempt_count = r.attempt_count
        /\ outbox[r.event_id].locked_until = current[w] + LeaseSeconds
    BY <1>5 DEF HeldInv, LeaseInv
  <2>2. current[w] + LeaseSeconds \in Nat \ {0}
    BY <1>4, ConstantFacts
  <2>3. Aged(current[w] + LeaseSeconds) = current'[w] + LeaseSeconds
    BY <1>4, <2>2, AgedTime, ConstantFacts DEF OptTime
  <2> QED
    BY <1>2, <2>1, <2>3, AgedRowFields
<1>6. \A w \in Workers : \A r \in batch[w] :
        /\ outbox[r.event_id].lease_token = token[w]
        /\ outbox'[r.event_id].lease_token = token[w]
  BY <1>2, AgedRowFields DEF HoldInv
<1>7. LeaseInv'
  BY <1>1, <1>5, <1>6 DEF LeaseInv
<1> QED
  BY <1>0, <1>3, <1>4, <1>7, AgeBasic DEF HeldInv

LEMMA AgeFull ==
  ASSUME FullInv, PromptInv, HoldInv, AgeAll, Prompt
  PROVE  FullInv'
<1>0. HeldInv /\ BasicInv
  BY DEF FullInv, HeldInv
<1>1. batch' = batch /\ pc' = pc /\ acked' = acked
  BY DEF AgeAll
<1>2. \A w \in Workers : \A r \in batch[w] :
        outbox'[r.event_id].created_at = outbox[r.event_id].created_at
  <2>1. \A w \in Workers : \A r \in batch[w] :
          r.event_id \in Events /\ Exists(r.event_id)
    BY <1>0 DEF HeldInv, RecordInv, BasicInv, TypeOK, Record
  <2> QED
    BY <1>0, <2>1, AgedRows, AgedRowFields
<1>3. \A w \in Workers : \A r \in batch[w] : (IsFirst(w, r))' <=> IsFirst(w, r)
  BY <1>1, <1>2 DEF IsFirst, Before
<1>4. OutcomeInv' /\ AttemptsDistinct'
  BY <1>1, <1>3 DEF FullInv, OutcomeInv, AttemptsDistinct
<1>5. \A e \in Events : (AttemptsOf(e))' = AttemptsOf(e)
  BY <1>0, AgedRows, AgedRowFields DEF AttemptsOf
<1>6. FreshInv'
  BY <1>1, <1>3, <1>5 DEF FullInv, FreshInv
<1>7. ExclusiveLease'
  <2>1. \A w \in Workers : \A r \in batch[w] :
          current[w] \in Nat /\ current'[w] = current[w] - 1
    BY <1>0, AgeHeld
  <2> QED
    BY <1>1, <2>1, ConstantFacts DEF FullInv, ExclusiveLease
<1> QED
  BY <1>0, <1>4, <1>6, <1>7, AgeHeld DEF FullInv

\* Otherwise the steps with counters are steps of NotificationWorker.
LEMMA ProgressIsDelivery ==
  ASSUME BasicInv, [LiveNext]_liveVars
  PROVE  [Next]_vars \/ (AgeAll /\ Prompt /\ UNCHANGED <<crashes, dropped>>)
<1>1. CASE PromptTick
  BY <1>1 DEF PromptTick, Next
<1>2. ASSUME NEW e \in Events, NEW p \in Payloads, Arrive(e, p)
      PROVE  Next
  BY <1>2, ProgressAssumption DEF Arrive, Next
<1>3. CASE RecoverNow
  <2>1. clock \in Nows
    BY NowsAreTimes DEF BasicInv, TypeOK
  <2> QED
    BY <1>3, <2>1 DEF RecoverNow, Next
<1>4. ASSUME NEW w \in Workers, Pass(w) \/ Crash(w)
      PROVE  Next
  BY <1>4 DEF Pass, Crash, Worker, Next
<1>5. CASE UNCHANGED liveVars
  BY <1>5 DEF liveVars
<1> QED
  BY <1>1, <1>2, <1>3, <1>4, <1>5 DEF LiveNext

LEMMA FullStep == FullInv /\ [Next]_vars => FullInv'
  BY HeldStep, ExclusiveStep, OutcomeStep, DistinctStep, FreshStep DEF FullInv

CountsInv == crashes \in Nat /\ dropped \in [Events -> Nat]

\* The bound on the attempts of an event only grows.
LEMMA CountsGrow ==
  ASSUME CountsInv, [LiveNext]_liveVars
  PROVE  /\ CountsInv'
         /\ crashes <= crashes'
         /\ \A e \in Events : dropped[e] <= dropped'[e]
<1>1. ASSUME NEW w \in Workers, Pass(w)
      PROVE  /\ crashes' = crashes
             /\ dropped' \in [Events -> Nat]
             /\ \A e \in Events : dropped[e] <= dropped'[e]
  BY <1>1 DEF CountsInv, Pass
<1>2. ASSUME NEW w \in Workers, Crash(w)
      PROVE  crashes' = crashes + 1 /\ dropped' = dropped
  BY <1>2 DEF Crash
<1>3. CASE UNCHANGED <<crashes, dropped>>
  BY <1>3 DEF CountsInv
<1> QED
  BY <1>1, <1>2, <1>3
  DEF CountsInv, LiveNext, PromptTick, Arrive, RecoverNow, liveVars

\* A pass begins with a new reading of the clock, and time only passes when
\* all passes are ahead of their leases.
LEMMA PromptStep ==
  ASSUME BasicInv, PromptInv, [LiveNext]_liveVars
  PROVE  PromptInv'
<1>0. clock \in Nat /\ LeaseSeconds \in Nat \ {0} /\ MaxTime \in Nat
  BY TableAssumption, WorkerAssumption DEF BasicInv, TypeOK, Time
<1>1. \A w \in Workers : pc[w] # "idle" => current[w] \in Nat
  BY DEF BasicInv, TypeOK, PassInv, OptTime
<1>2. CASE PromptTick
  <2>1. CASE Tick
    BY <1>0, <1>1, <1>2, <2>1 DEF PromptTick, Prompt, PromptInv, Tick, workerVars
  <2>2. CASE AgeAll
    <3>1. \A w \in Workers : current'[w] = Aged(current[w])
      BY <2>2 DEF AgeAll
    <3>2. \A w \in Workers : pc[w] # "idle" =>
            /\ current'[w] \in Nat
            /\ current'[w] >= current[w] - 1
            /\ current'[w] <= current[w]
      BY <1>1, <3>1 DEF Aged
    <3> QED
      BY <1>0, <1>1, <1>2, <2>2, <3>2 DEF PromptTick, Prompt, PromptInv, AgeAll
  <2> QED
    BY <1>2, <2>1, <2>2 DEF PromptTick
<1>3. CASE ~PromptTick /\ clock' = clock
  <2>1. ASSUME NEW w \in Workers, pc'[w] # "idle"
        PROVE  \/ current'[w] = clock
               \/ pc[w] # "idle" /\ current'[w] = current[w]
    <3>1. ASSUME NEW v \in Workers, RunOnce(v, clock)
          PROVE  \/ current'[w] = clock
                 \/ pc[w] # "idle" /\ current'[w] = current[w]
      BY <2>1, <3>1 DEF RunOnce, BasicInv, TypeOK
    <3>2. ASSUME NEW v \in Workers, EndPass(v)
          PROVE  pc[w] # "idle" /\ current'[w] = current[w]
      BY <2>1, <3>2 DEF EndPass, BasicInv, TypeOK
    <3>3. ASSUME NEW v \in Workers, pc[v] # "idle", current' = current,
                 \/ pc' = pc
                 \/ \E p \in PC : pc' = [pc EXCEPT ![v] = p]
          PROVE  pc[w] # "idle" /\ current'[w] = current[w]
      BY <2>1, <3>3 DEF BasicInv, TypeOK
    <3>4. ASSUME NEW v \in Workers, Mark(v)
          PROVE  pc[w] # "idle" /\ current'[w] = current[w]
      <4>1. pc[v] # "idle"
        BY <3>4 DEF Mark, MarkSent, MarkRetry, MarkDeadLetter, Quarantine
      <4>2. PICK r \in batch[v], row \in Row : Finalise(v, r, row)
        BY <3>4, MarkFinalises
      <4>3. NextRecord(v, r)
        BY <4>2 DEF Finalise
      <4> QED
        BY <3>2, <3>3, <4>1, <4>3 DEF NextRecord, PC
    <3>5. CASE UNCHANGED <<pc, current>>
      BY <2>1, <3>5
    <3>6. ASSUME NEW v \in Workers,
                 \/ ClaimSelect(v) \/ ClaimUpdate(v) \/ RejectEventId(v)
                 \/ SendReturns(v) \/ SendRaises(v)
          PROVE  pc[w] # "idle" /\ current'[w] = current[w]
      BY <3>3, <3>6 DEF ClaimSelect, ClaimUpdate, RejectEventId, SendReturns,
                        SendRaises, PC
    <3> QED
      BY <1>3, <3>1, <3>2, <3>4, <3>5, <3>6
      DEF LiveNext, Arrive, RecoverNow, Pass, Crash, Continue, ProcessRecord,
          Mark, Enqueue, Recover, ClaimNothing, ReadClock, BackoffFails,
          LeaseLost, Abort, liveVars, vars, workerVars
  <2> QED
    BY <1>0, <1>3, <2>1 DEF PromptInv
<1>4. PromptTick \/ clock' = clock
  <2>1. ASSUME NEW w \in Workers, Mark(w)
        PROVE  clock' = clock
    BY <2>1, MarkFinalises DEF Finalise
  <2>2. ASSUME NEW w \in Workers, Continue(w), ~Mark(w)
        PROVE  clock' = clock
    BY <2>2
    DEF Continue, ProcessRecord, Mark, ClaimSelect, ClaimUpdate, ClaimNothing,
        RejectEventId, SendReturns, SendRaises, BackoffFails, ReadClock, LeaseLost
  <2> QED
    BY <2>1, <2>2
    DEF LiveNext, Arrive, Enqueue, RecoverNow, Recover, Pass, RunOnce, Crash,
        Abort, liveVars, vars
<1> QED
  BY <1>2, <1>3, <1>4

\* As long as passes end before their leases, nobody may take what is in the
\* hands of a worker.
LEMMA HeldIsSafe ==
  ASSUME HeldInv, PromptInv, NEW w \in Workers, NEW r \in batch[w],
         NEW now \in Nat, now <= clock
  PROVE  /\ ~Eligible(outbox[r.event_id], now)
         /\ ~Expired(outbox[r.event_id], now)
<1>1. clock < current[w] + LeaseSeconds /\ current[w] \in Nat
  BY DEF HeldInv, BasicInv, PassInv, PromptInv, TypeOK, OptTime
<1>2. clock \in Nat /\ LeaseSeconds \in Nat
  BY ConstantFacts DEF HeldInv, BasicInv, TypeOK, Time
<1> QED
  BY <1>1, <1>2, TakenOverLate

LEMMA ClaimerIsPrompt ==
  ASSUME HeldInv, PromptInv, NEW w \in Workers, pc[w] # "idle"
  PROVE  current[w] \in Nat /\ current[w] <= clock
  BY DEF HeldInv, BasicInv, PassInv, PromptInv, TypeOK, OptTime

LEMMA HoldStep ==
  ASSUME HeldInv, PromptInv, HoldInv, [LiveNext]_liveVars
  PROVE  HoldInv'
<1>0. BasicInv
  BY DEF HeldInv
<1>records. \A w \in Workers : \A r \in batch[w] :
        /\ r.event_id \in Events /\ Exists(r.event_id)
        /\ outbox[r.event_id] \in Row
        /\ outbox[r.event_id].lease_token = token[w]
  BY DEF HeldInv, RecordInv, BasicInv, TypeOK, Record, Exists, HoldInv
<1>1. CASE UNCHANGED <<batch, token>> /\ \A w \in Workers : \A r \in batch[w] :
             outbox'[r.event_id].lease_token = outbox[r.event_id].lease_token
  BY <1>1 DEF HoldInv
<1>2. CASE Tick \/ UNCHANGED liveVars
  BY <1>1, <1>2 DEF Tick, liveVars, vars, workerVars
<1>3. CASE AgeAll
  <2>1. \A w \in Workers : \A r \in batch[w] :
          outbox'[r.event_id].lease_token = outbox[r.event_id].lease_token
    BY <1>0, <1>3, <1>records, AgedRows, AgedRowFields
  <2> QED
    BY <1>1, <1>3, <2>1 DEF AgeAll
<1>4. ASSUME NEW e \in Events, NEW k \in Keys, NEW p \in Payloads, Enqueue(e, k, p)
      PROVE  HoldInv'
  <2>1. \A f \in Events : Exists(f) => outbox'[f] = outbox[f]
    BY <1>0, <1>4 DEF Enqueue, BasicInv, TypeOK
  <2> QED
    BY <1>1, <1>4, <1>records, <2>1 DEF Enqueue, workerVars
<1>5. CASE Recover(clock)
  <2>1. clock \in Nat /\ clock <= clock
    BY <1>0 DEF BasicInv, TypeOK, Time
  <2>2. \A w \in Workers : \A r \in batch[w] :
          outbox'[r.event_id] = outbox[r.event_id]
    BY <1>5, <1>records, <2>1, HeldIsSafe DEF Recover
  <2> QED
    BY <1>1, <1>5, <2>2 DEF Recover, workerVars
<1>6. ASSUME NEW w \in Workers, outbox' = outbox, batch'[w] = {},
             \A v \in Workers : v # w =>
                batch'[v] = batch[v] /\ token'[v] = token[v]
      PROVE  HoldInv'
  BY <1>6 DEF HoldInv
<1>7. ASSUME NEW w \in Workers,
             \/ ClaimNothing(w) \/ BackoffFails(w) \/ LeaseLost(w) \/ Abort(w)
      PROVE  HoldInv'
  BY <1>0, <1>6, <1>7
  DEF ClaimNothing, BackoffFails, LeaseLost, Abort, EndPass, BasicInv, TypeOK
<1>8. ASSUME NEW w \in Workers,
             \/ RunOnce(w, clock) \/ ClaimSelect(w) \/ RejectEventId(w)
             \/ SendReturns(w) \/ SendRaises(w) \/ ReadClock(w)
      PROVE  HoldInv'
  BY <1>1, <1>8
  DEF RunOnce, ClaimSelect, RejectEventId, SendReturns, SendRaises, ReadClock
<1>9. ASSUME NEW w \in Workers, ClaimUpdate(w)
      PROVE  HoldInv'
  <2>1. PICK t \in FreshTokens :
          /\ outbox' = [e \in Events |->
                          IF e \in Claimable(w)
                          THEN ClaimedRow(outbox[e], current[w], w, t)
                          ELSE outbox[e]]
          /\ token' = [token EXCEPT ![w] = t]
    BY <1>9 DEF ClaimUpdate
  <2>2. current[w] \in Nat /\ current[w] <= clock
    BY <1>9, ClaimerIsPrompt DEF ClaimUpdate
  <2>3. ASSUME NEW v \in Workers, v # w, NEW r \in batch'[v]
        PROVE  outbox'[r.event_id].lease_token = token'[v]
    <3>1. r \in batch[v] /\ token'[v] = token[v]
      BY <1>0, <1>9, <2>1, <2>3 DEF ClaimUpdate, BasicInv, TypeOK
    <3>2. r.event_id \notin Claimable(w)
      BY <2>2, <3>1, HeldIsSafe DEF Claimable
    <3> QED
      BY <1>records, <2>1, <3>1, <3>2
  <2>4. ASSUME NEW r \in batch'[w]
        PROVE  outbox'[r.event_id].lease_token = token'[w]
    <3>1. r.event_id \in Claimable(w)
      BY <1>9, ClaimIsNew
    <3>2. r.event_id \in Events /\ outbox[r.event_id] \in Row
      BY <1>0, <3>1 DEF Claimable, Exists, BasicInv, TypeOK
    <3>3. token'[w] = t
      BY <1>0, <2>1 DEF BasicInv, TypeOK
    <3> QED
      BY <2>1, <3>1, <3>2, <3>3, ClaimedRowFields
  <2> QED
    BY <2>3, <2>4 DEF HoldInv
<1>10. ASSUME NEW w \in Workers, Mark(w)
       PROVE  HoldInv'
  <2>1. PICK r \in batch[w], row \in Row : Finalise(w, r, row)
    BY <1>0, <1>10, MarkFinalises
  <2>2. /\ batch' = [batch EXCEPT ![w] = @ \ {r}]
        /\ \A v \in Workers : v # w => token'[v] = token[v]
        /\ batch'[w] # {} => token' = token
    BY <1>0, <2>1, FinaliseBatch
  <2>3. outbox' = [outbox EXCEPT ![r.event_id] = row]
    BY <2>1 DEF Finalise
  <2>4. ASSUME NEW v \in Workers, NEW s \in batch'[v]
        PROVE  outbox'[s.event_id].lease_token = token'[v]
    <3>1. s \in batch[v] /\ token'[v] = token[v] /\ (v = w => s # r)
      BY <1>0, <2>2, <2>4 DEF BasicInv, TypeOK
    <3>2. s.event_id # r.event_id
      <4>1. CASE v = w
        BY <3>1, <4>1 DEF HeldInv, RecordInv
      <4>2. CASE v # w
        <5>1. /\ outbox[r.event_id].owner_id = w
              /\ outbox[s.event_id].owner_id = v
          BY <1>records, <3>1 DEF HeldInv, LeaseInv
        <5> QED
          BY <4>2, <5>1
      <4> QED
        BY <4>1, <4>2
    <3> QED
      BY <1>0, <1>records, <2>3, <3>1, <3>2 DEF BasicInv, TypeOK
  <2> QED
    BY <2>4 DEF HoldInv
<1> QED
  BY <1>2, <1>3, <1>4, <1>5, <1>7, <1>8, <1>9, <1>10, ProgressAssumption
  DEF LiveNext, PromptTick, Arrive, RecoverNow, Pass, Crash, Continue,
      ProcessRecord, Mark

\* A worker that is in time always finds the row of its record.
LEMMA LeaseNeverLost ==
  ASSUME HeldInv, PromptInv, HoldInv, NEW w \in Workers
  PROVE  ~LeaseLost(w)
<1> SUFFICES ASSUME LeaseLost(w) PROVE FALSE
  OBVIOUS
<1>1. PICK r \in batch[w] : ~Owns(w, r) /\ checked[w] # NULL /\ pc[w] # "idle"
  BY DEF LeaseLost, IsFirst, Marking
<1>2. /\ clock \in Nat /\ checked[w] \in Nat /\ current[w] \in Nat
      /\ checked[w] <= clock /\ clock < current[w] + LeaseSeconds
  BY <1>1 DEF HeldInv, BasicInv, TypeOK, PassInv, PromptInv, OptTime, Time
<1>3. current[w] + LeaseSeconds \in Nat
  BY <1>2, ConstantFacts
<1>4. /\ outbox[r.event_id].lease_token = token[w]
      /\ outbox[r.event_id].owner_id = w
      /\ outbox[r.event_id].locked_until = current[w] + LeaseSeconds
      /\ Exists(r.event_id)
  BY DEF HeldInv, LeaseInv, RecordInv, HoldInv
<1>5. outbox[r.event_id].status = "PROCESSING"
  BY <1>4, TokenMeansProcessing
<1> QED
  BY <1>1, <1>2, <1>3, <1>4, <1>5, ConstantFacts DEF Owns, LeaseValid

\* Only a claim counts an attempt.
LEMMA CountedByClaim ==
  ASSUME BasicInv, [Next]_vars, NEW e \in Events, Exists(e),
         outbox'[e].attempt_count # outbox[e].attempt_count
  PROVE  \E w \in Workers : /\ ClaimUpdate(w) /\ e \in Claimable(w)
                            /\ outbox'[e].attempt_count = outbox[e].attempt_count + 1
<1>0. outbox[e] \in Row
  BY DEF Exists, BasicInv, TypeOK
<1>1. CASE outbox' = outbox
  BY <1>1
<1>2. ASSUME NEW f \in Events, NEW k \in Keys, NEW p \in Payloads,
             Enqueue(f, k, p)
      PROVE  FALSE
  BY <1>2 DEF Enqueue, BasicInv, TypeOK
<1>3. ASSUME NEW now \in Nows, Recover(now)
      PROVE  FALSE
  BY <1>0, <1>3, RecoveredRowFields DEF Recover
<1>4. ASSUME NEW w \in Workers, ClaimUpdate(w)
      PROVE  /\ e \in Claimable(w)
             /\ outbox'[e].attempt_count = outbox[e].attempt_count + 1
  BY <1>0, <1>4, ClaimedRowFields DEF ClaimUpdate
<1>5. ASSUME NEW w \in Workers, Mark(w)
      PROVE  FALSE
  <2>1. PICK r \in batch[w], row \in Row :
            /\ Finalise(w, r, row)
            /\ row.attempt_count = outbox[r.event_id].attempt_count
    BY <1>5, MarkFinalises
  <2>2. outbox' = [outbox EXCEPT ![r.event_id] = row] /\ r.event_id \in Events
    BY <2>1 DEF Finalise, BasicInv, TypeOK, Record
  <2> QED
    BY <2>1, <2>2 DEF BasicInv, TypeOK
<1> QED
  BY <1>1, <1>2, <1>3, <1>4, <1>5
  DEF Next, Worker, Continue, ProcessRecord, Mark, Tick, RunOnce, ClaimSelect,
      ClaimNothing, RejectEventId, SendReturns, SendRaises, ReadClock,
      BackoffFails, LeaseLost, Abort, vars

\* Who is claimed is in hand afterwards, and was not before.
LEMMA ClaimTakesInHand ==
  ASSUME HeldInv, PromptInv, NEW w \in Workers, ClaimUpdate(w),
         NEW e \in Claimable(w)
  PROVE  /\ e \in Events /\ Exists(e) /\ ~InHand(e) /\ (InHand(e))'
         /\ outbox[e].status \notin {"SENT", "DEAD_LETTER"}
<1>1. /\ e \in Events /\ Exists(e) /\ Eligible(outbox[e], current[w])
      /\ current[w] \in Nat /\ current[w] <= clock
  BY ClaimerIsPrompt DEF Claimable, ClaimUpdate, HeldInv, BasicInv, TypeOK
<1>2. outbox[e].status \notin {"SENT", "DEAD_LETTER"}
  BY <1>1 DEF Eligible
<1>3. ~InHand(e)
  <2> SUFFICES ASSUME NEW v \in Workers, NEW r \in batch[v], r.event_id = e
               PROVE  FALSE
    BY DEF InHand
  <2> QED
    BY <1>1, HeldIsSafe
<1>4. (InHand(e))'
  <2> DEFINE claim == [event_id |-> e, attempt_count |-> outbox[e].attempt_count + 1]
  <2>1. claim \in batch'[w]
    BY DEF ClaimUpdate, HeldInv, BasicInv, TypeOK
  <2>2. claim.event_id = e
    OBVIOUS
  <2> HIDE DEF claim
  <2> QED
    BY <2>1, <2>2 DEF InHand
<1> QED
  BY <1>1, <1>2, <1>3, <1>4

\* Who leaves the hands of a worker is settled, or has an attempt to spare.
LEMMA OutOfHand ==
  ASSUME HeldInv, CountsInv, PromptInv, HoldInv, AttemptsPerCrash, LiveNext,
         NEW e \in Events, Exists(e), InHand(e), (~InHand(e))'
  PROVE  \/ outbox'[e].status \in {"SENT", "DEAD_LETTER"}
         \/ outbox[e].attempt_count < MaxAttempts + crashes' + dropped'[e]
<1>0. BasicInv
  BY DEF HeldInv
<1>holder. PICK w \in Workers : \E r \in batch[w] : r.event_id = e
  BY DEF InHand
<1>1. PICK r \in batch[w] : r.event_id = e
  BY <1>holder
<1>2. r \notin batch'[w]
  BY <1>1 DEF InHand
<1>3. /\ outbox[e].attempt_count = r.attempt_count
      /\ outbox[e].attempt_count \in Nat /\ outbox[e] \in Row
      /\ outbox[e].attempt_count <= MaxAttempts + crashes + dropped[e]
  <2>1. outbox[e] \in Row
    BY <1>0 DEF BasicInv, TypeOK, Exists
  <2> QED
    BY <1>1, <2>1 DEF HeldInv, LeaseInv, HoldInv, AttemptsPerCrash, Row
<1>4. crashes \in Nat /\ dropped[e] \in Nat /\ MaxAttempts \in Nat
  BY WorkerAssumption DEF CountsInv
<1>5. ~Exhausted(r) =>
        outbox[e].attempt_count < MaxAttempts + crashes + dropped[e]
  BY <1>3, <1>4 DEF Exhausted
<1>6. /\ CountsInv'
      /\ crashes <= crashes' /\ dropped[e] <= dropped'[e]
  BY CountsGrow
<1>7. ~Exhausted(r) =>
        outbox[e].attempt_count < MaxAttempts + crashes' + dropped'[e]
  BY <1>3, <1>4, <1>5, <1>6 DEF CountsInv
<1>8. ASSUME NEW v \in Workers, Crash(v)
      PROVE  outbox[e].attempt_count < MaxAttempts + crashes' + dropped'[e]
  BY <1>3, <1>4, <1>8 DEF Crash
<1>9. ASSUME NEW v \in Workers, Pass(v), BackoffFails(v)
      PROVE  outbox[e].attempt_count < MaxAttempts + crashes' + dropped'[e]
  <2>1. v = w
    BY <1>0, <1>1, <1>2, <1>9 DEF BackoffFails, EndPass, BasicInv, TypeOK
  <2>2. PICK s \in batch[w] : IsFirst(w, s) /\ BackoffOverflows(s)
    BY <1>9, <2>1 DEF BackoffFails
  <2>3. CASE s = r
    BY <1>7, <2>2, <2>3 DEF BackoffOverflows
  <2>4. CASE s # r
    <3>1. ~IsFirst(w, r)
      BY <2>2, <2>4, FirstUnique
    <3>2. Behind(w, e)
      BY <1>1, <3>1 DEF Behind
    <3>3. dropped'[e] = dropped[e] + 1 /\ crashes' = crashes
      BY <1>9, <2>1, <3>2 DEF Pass
    <3> QED
      BY <1>3, <1>4, <3>3
  <2> QED
    BY <2>3, <2>4
<1>10. ASSUME NEW v \in Workers, Mark(v)
       PROVE  \/ outbox'[e].status \in {"SENT", "DEAD_LETTER"}
              \/ ~Exhausted(r)
  <2>1. PICK s \in batch[v], row \in Row :
            /\ Finalise(v, s, row)
            /\ row.status # "PROCESSING"
            /\ row.status = "RETRY" => ~Exhausted(s)
            /\ row.attempt_count = outbox[s.event_id].attempt_count
            /\ row.status # "PENDING"
    BY <1>0, <1>10, MarkFinalises
  <2>2. batch' = [batch EXCEPT ![v] = @ \ {s}]
    BY <1>0, <2>1, FinaliseBatch
  <2>3. v = w /\ s = r
    BY <1>0, <1>1, <1>2, <2>2 DEF BasicInv, TypeOK
  <2>4. outbox'[e] = row
    BY <1>0, <1>1, <2>1, <2>3 DEF Finalise, BasicInv, TypeOK
  <2>5. row.status \in {"RETRY", "SENT", "DEAD_LETTER"}
    BY <2>1 DEF Row, Status
  <2> QED
    BY <2>1, <2>3, <2>4, <2>5
<1>11. ASSUME NEW v \in Workers, ClaimUpdate(v) \/ ClaimNothing(v)
       PROVE  FALSE
  <2>1. v # w
    BY <1>0, <1>1, <1>11 DEF ClaimUpdate, ClaimNothing, BasicInv, PassInv
  <2> QED
    BY <1>0, <1>1, <1>2, <1>11, <2>1
    DEF ClaimUpdate, ClaimNothing, EndPass, BasicInv, TypeOK
<1>12. batch' # batch
  BY <1>2
<1>13. ASSUME NEW v \in Workers, Pass(v), ~BackoffFails(v)
       PROVE  Mark(v) \/ ClaimUpdate(v) \/ ClaimNothing(v)
  BY <1>12, <1>13, LeaseNeverLost
  DEF Pass, Worker, Continue, ProcessRecord, Mark, RunOnce, ClaimSelect, RejectEventId,
      SendReturns, SendRaises, ReadClock
<1>14. \E v \in Workers : Pass(v) \/ Crash(v)
  BY <1>12
  DEF LiveNext, PromptTick, Tick, AgeAll, Arrive, Enqueue, RecoverNow, Recover,
      workerVars
<1> QED
  BY <1>7, <1>8, <1>9, <1>10, <1>11, <1>13, <1>14

AttemptsInv ==
  /\ FullInv
  /\ CountsInv
  /\ PromptInv
  /\ HoldInv
  /\ SpareInv
  /\ AttemptsPerCrash

\* What a step leaves of the attempts of an event that exists already.
LEMMA CostStep ==
  ASSUME AttemptsInv, [LiveNext]_liveVars, NEW e \in Events, Exists(e)
  PROVE  /\ (Exists(e))'
         /\ outbox'[e].attempt_count <= MaxAttempts + crashes' + dropped'[e]
         /\ outbox'[e].status \notin {"SENT", "DEAD_LETTER"} /\ (~InHand(e))'
               => outbox'[e].attempt_count < MaxAttempts + crashes' + dropped'[e]
<1>0. FullInv /\ HeldInv /\ BasicInv /\ CountsInv /\ PromptInv /\ HoldInv
  BY DEF AttemptsInv, FullInv, HeldInv
<1>1. /\ outbox[e] \in Row /\ outbox[e].attempt_count \in Nat
      /\ MaxAttempts \in Nat
  BY <1>0, WorkerAssumption DEF BasicInv, TypeOK, Exists, Row
<1>2. /\ crashes \in Nat /\ crashes' \in Nat /\ crashes <= crashes'
      /\ dropped[e] \in Nat /\ dropped'[e] \in Nat /\ dropped[e] <= dropped'[e]
  BY <1>0, CountsGrow DEF CountsInv
<1>3. outbox[e].attempt_count <= MaxAttempts + crashes + dropped[e]
  BY DEF AttemptsInv, AttemptsPerCrash
<1>4. CASE AgeAll /\ Prompt /\ UNCHANGED <<crashes, dropped>>
  <2>1. /\ (Exists(e))' /\ outbox'[e].attempt_count = outbox[e].attempt_count
        /\ outbox'[e].status = outbox[e].status
    BY <1>0, <1>1, <1>4, AgedRows, AgedRowFields
  <2>2. InHand(e) <=> (InHand(e))'
    BY <1>4 DEF InHand, AgeAll
  <2> QED
    BY <1>3, <1>4, <2>1, <2>2 DEF AttemptsInv, SpareInv
<1>5. CASE [Next]_vars
  <2>1. (Exists(e))'
    BY <1>0, <1>5, SignalKept
  <2>2. CASE outbox'[e].attempt_count # outbox[e].attempt_count
    <3>1. PICK w \in Workers :
            /\ ClaimUpdate(w) /\ e \in Claimable(w)
            /\ outbox'[e].attempt_count = outbox[e].attempt_count + 1
      BY <1>0, <1>5, <2>2, CountedByClaim
    <3>2. /\ ~InHand(e) /\ (InHand(e))'
          /\ outbox[e].status \notin {"SENT", "DEAD_LETTER"}
      BY <1>0, <3>1, ClaimTakesInHand
    <3>3. outbox[e].attempt_count < MaxAttempts + crashes + dropped[e]
      BY <3>2 DEF AttemptsInv, SpareInv
    <3> QED
      BY <1>1, <1>2, <2>1, <3>1, <3>2, <3>3
  <2>3. CASE outbox'[e].attempt_count = outbox[e].attempt_count
    <3>1. outbox'[e].attempt_count <= MaxAttempts + crashes' + dropped'[e]
      BY <1>1, <1>2, <1>3, <2>3
    <3>2. ASSUME outbox'[e].status \notin {"SENT", "DEAD_LETTER"}, (~InHand(e))'
          PROVE  outbox'[e].attempt_count < MaxAttempts + crashes' + dropped'[e]
      <4>1. CASE InHand(e)
        <5>1. LiveNext
          BY <3>2, <4>1 DEF InHand, liveVars, vars, workerVars
        <5> QED
          BY <1>0, <2>3, <3>2, <4>1, <5>1, OutOfHand DEF AttemptsInv
      <4>2. CASE ~InHand(e)
        <5>1. outbox[e].status \notin {"SENT", "DEAD_LETTER"}
          <6> SUFFICES ASSUME outbox'[e] # outbox[e]
                       PROVE  outbox[e].status \notin {"SENT", "DEAD_LETTER"}
            BY <3>2
          <6>1. ~FinalisesRow(e)
            BY <4>2 DEF FinalisesRow, InHand
          <6> QED
            BY <1>0, <1>5, <6>1, RowChanges
            DEF ClaimsRow, RecoversRow, Eligible, Expired
        <5>2. outbox[e].attempt_count < MaxAttempts + crashes + dropped[e]
          BY <4>2, <5>1 DEF AttemptsInv, SpareInv
        <5> QED
          BY <1>1, <1>2, <2>3, <5>2
      <4> QED
        BY <4>1, <4>2
    <3> QED
      BY <2>1, <3>1, <3>2
  <2> QED
    BY <2>2, <2>3
<1> QED
  BY <1>0, <1>4, <1>5, ProgressIsDelivery

LEMMA AttemptsStep == AttemptsInv /\ [LiveNext]_liveVars => AttemptsInv'
<1> SUFFICES ASSUME AttemptsInv, [LiveNext]_liveVars PROVE AttemptsInv'
  OBVIOUS
<1>0. FullInv /\ HeldInv /\ BasicInv /\ CountsInv /\ PromptInv /\ HoldInv
  BY DEF AttemptsInv, FullInv, HeldInv
<1>1. FullInv'
  BY <1>0, FullStep, AgeFull, ProgressIsDelivery
<1>2. CountsInv' /\ PromptInv' /\ HoldInv'
  BY <1>0, CountsGrow, PromptStep, HoldStep
<1>3. ASSUME NEW e \in Events, ~Exists(e), (Exists(e))'
      PROVE  outbox'[e].attempt_count < MaxAttempts + crashes' + dropped'[e]
  <2>1. [Next]_vars
    BY <1>0, <1>3, ProgressIsDelivery, AgedRows
  <2>2. outbox'[e].attempt_count = 0
    BY <1>0, <1>3, <2>1, NewRows
  <2>3. crashes' \in Nat /\ dropped'[e] \in Nat /\ MaxAttempts \in Nat \ {0}
    BY <1>2, WorkerAssumption DEF CountsInv
  <2> QED
    BY <2>2, <2>3
<1>4. \A e \in Events : (Exists(e))' =>
        /\ outbox'[e].attempt_count \in Nat
        /\ crashes' \in Nat /\ dropped'[e] \in Nat /\ MaxAttempts \in Nat
  BY <1>1, <1>2, WorkerAssumption
  DEF FullInv, HeldInv, BasicInv, TypeOK, Exists, Row, CountsInv
<1>5. AttemptsPerCrash'
  BY <1>3, <1>4, CostStep DEF AttemptsPerCrash
<1>6. SpareInv'
  BY <1>3, CostStep DEF SpareInv
<1> QED
  BY <1>1, <1>2, <1>5, <1>6 DEF AttemptsInv

LEMMA AttemptsInvHolds == LiveSpec => []AttemptsInv
<1>1. LiveInit => AttemptsInv
  BY FullInit
  DEF LiveInit, Init, AttemptsInv, CountsInv, PromptInv, HoldInv, SpareInv,
      AttemptsPerCrash, Exists
<1> QED
  BY <1>1, AttemptsStep, PTL DEF LiveSpec

\* The invariant that TLC checks in the run settle.
THEOREM ProgressInvHolds == LiveSpec => []ProgressInv
<1>1. AttemptsInv => ProgressInv
  BY DEF AttemptsInv, FullInv, HeldInv, BasicInv, InductiveInv, CountsInv,
         ProgressInv
<1> QED
  BY <1>1, AttemptsInvHolds, PTL

\* However many workers are called and however many events wait: an event is
\* claimed max_attempts times, and once more at most for each crash and for
\* each overflow of a record in front of it.
THEOREM AttemptsAlwaysBounded == LiveSpec => []AttemptsPerCrash
<1>1. AttemptsInv => AttemptsPerCrash
  BY DEF AttemptsInv
<1> QED
  BY <1>1, AttemptsInvHolds, PTL
=============================================================================
