------------------------ MODULE SignalDeliveryProofs ------------------------
(***************************************************************************)
(* Proofs about SignalDelivery, for any requests, keys and events, any     *)
(* number of writers and workers and any interleaving of them.             *)
(*                                                                         *)
(* The writers give NotificationWorker its rows, so its invariant holds of *)
(* the whole; from it follows that delivery leaves alone what the writers  *)
(* wrote, and then what the store promises.                                *)
(***************************************************************************)
EXTENDS SignalDelivery, NotificationWorkerProofs

USE DEF Workers

----------------------------------------------------------------------------
(***************************************************************************)
(* The writers by themselves.                                              *)
(***************************************************************************)
WriterTypeOK ==
  /\ decisions \in [Keys -> DecisionRow \cup {NULL}]
  /\ step \in [Writers -> {"idle", "read", "insert", "reread", "outbox"}]
  /\ request \in [Writers -> Payloads \cup {NULL}]
  /\ result \in [Writers -> {"fresh", "replay", "collision", NULL}]

\* A call in progress has its request, and no result yet.
CallInv ==
  \A w \in Writers :
     /\ step[w] = "idle" <=> request[w] = NULL
     /\ step[w] # "idle" => result[w] = NULL

\* A stored row is of the request it carries.
DecisionInv ==
  \A k \in Keys :
     decisions[k] # NULL =>
        /\ KeyOf[decisions[k].payload_json] = k
        /\ decisions[k].decision_status = DecisionOf[decisions[k].payload_json]

WriterInv == WriterTypeOK /\ CallInv /\ DecisionInv

LEMMA StoreFacts ==
  /\ \A p \in Payloads : /\ KeyOf[p] \in Keys
                         /\ EventOf[p] \in Events
                         /\ DecisionOf[p] \in {"SIGNAL", "BLOCKED"}
                         /\ p # NULL
  /\ NULL \notin DecisionRow
  /\ NULL \notin {"fresh", "replay", "collision"}
  BY StoreAssumption

LEMMA WriterInit == StoreInit => WriterInv
  BY DEF StoreInit, WriterInv, WriterTypeOK, CallInv, DecisionInv

\* The steps that only move a writer on, or end its call.
LEMMA GoToKeeps ==
  ASSUME WriterInv, NEW w \in Writers, step[w] # "idle",
         UNCHANGED decisions,
         \/ \E s \in {"insert", "reread", "outbox"} : GoTo(w, s)
         \/ \E r \in {"fresh", "replay", "collision", NULL} : Return(w, r)
  PROVE  WriterInv'
  BY DEF WriterInv, WriterTypeOK, CallInv, DecisionInv, GoTo, Return

LEMMA InsertKeeps ==
  ASSUME WriterInv, NEW w \in Writers, Insert(w)
  PROVE  WriterInv'
<1> DEFINE p == request[w]
<1>1. p \in Payloads
  BY DEF WriterInv, WriterTypeOK, CallInv, Insert
<1>2. decisions' = [decisions EXCEPT ![KeyOf[p]] =
                      [decision_status |-> DecisionOf[p], payload_json |-> p]]
  BY DEF Insert, StoreDecision
<1>3. [decision_status |-> DecisionOf[p], payload_json |-> p] \in DecisionRow
  BY <1>1, StoreFacts DEF DecisionRow
<1>4. decisions' \in [Keys -> DecisionRow \cup {NULL}] /\ DecisionInv'
  BY <1>1, <1>2, <1>3, StoreFacts DEF WriterInv, WriterTypeOK, DecisionInv
<1>5. Return(w, "fresh") \/ Return(w, NULL)
  BY DEF Insert
<1> QED
  BY <1>4, <1>5 DEF WriterInv, WriterTypeOK, CallInv, Return

LEMMA WriterStep ==
  ASSUME WriterInv, NEW w \in Writers, Writer(w)
  PROVE  WriterInv'
<1>1. ASSUME NEW p \in Payloads, Call(w, p)
      PROVE  WriterInv'
  BY <1>1, StoreFacts
  DEF Call, WriterInv, WriterTypeOK, CallInv, DecisionInv
<1>2. CASE Insert(w)
  BY <1>2, InsertKeeps
<1>3. CASE \/ ReadDecision(w) \/ InsertFails(w) \/ RereadDecision(w)
           \/ ReadOutbox(w) \/ WriterAborts(w)
  <2>1. /\ step[w] # "idle"
        /\ UNCHANGED decisions
        /\ \/ \E s \in {"insert", "reread", "outbox"} : GoTo(w, s)
           \/ \E r \in {"fresh", "replay", "collision", NULL} : Return(w, r)
    BY <1>3
    DEF ReadDecision, InsertFails, RereadDecision, ReadOutbox, WriterAborts
  <2> QED
    BY <2>1, GoToKeeps
<1> QED
  BY <1>1, <1>2, <1>3 DEF Writer

LEMMA WriterAlways == SignalSpec => []WriterInv
<1>1. SignalInit => WriterInv
  BY WriterInit DEF SignalInit
<1>2. WriterInv /\ [SignalNext]_signalVars => WriterInv'
  <2> SUFFICES ASSUME WriterInv, [SignalNext]_signalVars PROVE WriterInv'
    OBVIOUS
  <2>1. ASSUME NEW w \in Writers, Write(w)
        PROVE  WriterInv'
    BY <2>1, WriterStep DEF Write
  <2>2. CASE UNCHANGED <<decisions, writerVars>>
    BY <2>2 DEF writerVars, WriterInv, WriterTypeOK, CallInv, DecisionInv
  <2> QED
    BY <2>1, <2>2 DEF SignalNext, Deliver, signalVars, storeVars
<1> QED
  BY <1>1, <1>2, PTL DEF SignalSpec

----------------------------------------------------------------------------
(***************************************************************************)
(* The writers as NotificationWorker sees them.                            *)
(***************************************************************************)
LEMMA InsertEnqueues ==
  ASSUME WriterInv, NEW w \in Writers, Insert(w), UNCHANGED <<workerVars, acked>>
  PROVE  \/ /\ DecisionOf[request[w]] = "SIGNAL"
            /\ Enqueue(EventOf[request[w]], KeyOf[request[w]], request[w])
         \/ /\ DecisionOf[request[w]] = "BLOCKED"
            /\ outbox' = outbox
<1> DEFINE p == request[w]
<1>1. p \in Payloads
  BY DEF WriterInv, WriterTypeOK, CallInv, Insert
<1>2. clock' = clock
  BY DEF Insert
<1>3. CASE DecisionOf[p] = "SIGNAL"
  <2>1. ~Exists(EventOf[p]) /\ OutboxRowsOf(KeyOf[p]) = {}
    BY <1>3 DEF Insert, InsertAllowed
  <2>2. \A f \in Events : Exists(f) => outbox[f].idempotency_key # KeyOf[p]
    BY <2>1 DEF OutboxRowsOf
  <2>3. \E created \in 0..clock :
          outbox' = [outbox EXCEPT ![EventOf[p]] = NewRow(KeyOf[p], p, created)]
    BY <1>3 DEF Insert, StoreOutbox
  <2> QED
    BY <1>2, <1>3, <2>1, <2>2, <2>3 DEF Enqueue
<1>4. CASE DecisionOf[p] # "SIGNAL"
  BY <1>1, <1>4, StoreFacts DEF Insert, StoreOutbox
<1> QED
  BY <1>3, <1>4

LEMMA StepDelivers ==
  WriterInv /\ [SignalNext]_signalVars => [Next]_vars
<1> SUFFICES ASSUME WriterInv, [SignalNext]_signalVars PROVE [Next]_vars
  OBVIOUS
<1>1. ASSUME NEW w \in Writers, Write(w)
      PROVE  [Next]_vars
  <2>1. UNCHANGED <<workerVars, acked>>
    BY <1>1 DEF Write
  <2>2. CASE Insert(w)
    <3>1. /\ request[w] \in Payloads
          /\ clock' = clock
      BY <2>2 DEF WriterInv, WriterTypeOK, CallInv, Insert
    <3> QED
      BY <2>1, <2>2, <3>1, InsertEnqueues, StoreFacts DEF Next, vars
  <2>3. CASE UNCHANGED <<outbox, clock>>
    BY <2>1, <2>3 DEF vars
  <2> QED
    BY <1>1, <2>2, <2>3
    DEF Write, Writer, Call, ReadDecision, InsertFails, RereadDecision,
        ReadOutbox, WriterAborts
<1>2. CASE Deliver
  BY <1>2 DEF Deliver, Next
<1>3. CASE UNCHANGED signalVars
  BY <1>3 DEF signalVars, storeVars, vars
<1> QED
  BY <1>1, <1>2, <1>3 DEF SignalNext

\* To the workers the writers are an environment that adds whole rows, so
\* all that is proved of NotificationWorker holds in the composition.
THEOREM DeliveryImplemented == SignalSpec => ImplementsDelivery
<1>1. SignalInit => Init
  BY DEF SignalInit
<1> QED
  BY <1>1, StepDelivers, WriterAlways, PTL
  DEF SignalSpec, ImplementsDelivery, Spec

LEMMA WorkersAlways == SignalSpec => []FullInv
  BY DeliveryImplemented, InductiveInvHolds, PTL DEF ImplementsDelivery

----------------------------------------------------------------------------
(***************************************************************************)
(* A signal and its row.                                                   *)
(***************************************************************************)
AllInv == WriterInv /\ FullInv /\ SignalHasOutbox

\* The signal behind a row.
LEMMA RowHasSignal ==
  ASSUME AllInv, NEW e \in Events, Exists(e)
  PROVE  LET k == outbox[e].idempotency_key
         IN  /\ k \in Keys /\ decisions[k] # NULL
             /\ decisions[k].payload_json \in Payloads
             /\ decisions[k].payload_json = outbox[e].payload_json
             /\ decisions[k].decision_status = "SIGNAL"
             /\ DecisionOf[decisions[k].payload_json] = "SIGNAL"
             /\ EventOf[decisions[k].payload_json] = e
<1> DEFINE k == outbox[e].idempotency_key
           p == decisions[k].payload_json
<1>1. outbox[e] \in Row
  BY DEF AllInv, FullInv, HeldInv, BasicInv, TypeOK, Exists
<1>2. k \in Keys
  BY <1>1 DEF Row
<1>3. decisions[k] # NULL /\ p = outbox[e].payload_json
  BY DEF AllInv, SignalHasOutbox
<1>4. decisions[k] \in DecisionRow
  BY <1>2, <1>3 DEF AllInv, WriterInv, WriterTypeOK
<1>5. p \in Payloads /\ DecisionOf[p] = decisions[k].decision_status
  BY <1>2, <1>3, <1>4 DEF AllInv, WriterInv, DecisionInv, DecisionRow
<1>6. e \in OutboxRowsOf(k)
  BY DEF OutboxRowsOf
<1>7. decisions[k].decision_status = "SIGNAL" /\ OutboxRowsOf(k) = {EventOf[p]}
  BY <1>2, <1>3, <1>6 DEF AllInv, SignalHasOutbox
<1> QED
  BY <1>2, <1>3, <1>5, <1>6, <1>7

\* Delivery neither makes nor removes a row, and keeps its signal.
LEMMA DeliverKeeps ==
  ASSUME AllInv, Deliver
  PROVE  SignalHasOutbox'
<1>0. BasicInv
  BY DEF AllInv, FullInv, HeldInv
<1>1. [Next]_vars /\ decisions' = decisions
  BY DEF Deliver, Next
<1>2. \A e \in Events :
        /\ (Exists(e))' <=> Exists(e)
        /\ Exists(e) => SameSignal(outbox'[e], outbox[e])
  BY <1>0, <1>1, SignalKept, NoNewRows DEF Deliver
<1>3. \A k \in Keys : (OutboxRowsOf(k))' = OutboxRowsOf(k)
  BY <1>2 DEF OutboxRowsOf, SameSignal
<1>4. \A e \in Events :
        (Exists(e))' => /\ Exists(e)
                        /\ outbox'[e].idempotency_key = outbox[e].idempotency_key
                        /\ outbox'[e].payload_json = outbox[e].payload_json
  BY <1>2 DEF SameSignal
<1> QED
  BY <1>1, <1>3, <1>4 DEF AllInv, SignalHasOutbox

\* The transaction of a signal writes both rows.
LEMMA InsertSignalKeeps ==
  ASSUME AllInv, NEW w \in Writers, NEW p \in Payloads, p = request[w],
         Insert(w), DecisionOf[p] = "SIGNAL"
  PROVE  SignalHasOutbox'
<1> DEFINE e == EventOf[p]
           k == KeyOf[p]
<1>1. e \in Events /\ k \in Keys
  BY StoreFacts
<1>2. ~Exists(e) /\ OutboxRowsOf(k) = {} /\ decisions[k] = NULL
  BY DEF Insert, InsertAllowed
<1>3. PICK created \in 0..clock :
        outbox' = [outbox EXCEPT ![e] = NewRow(k, p, created)]
  BY DEF Insert, StoreOutbox
<1>4. created \in Time
  BY DEF Time
<1>5. /\ NewRow(k, p, created) \in Row
      /\ NewRow(k, p, created).idempotency_key = k
      /\ NewRow(k, p, created).payload_json = p
  BY <1>1, <1>4, NewRowType DEF NewRow
<1>6. decisions' = [decisions EXCEPT ![k] =
                      [decision_status |-> "SIGNAL", payload_json |-> p]]
  BY DEF Insert, StoreDecision
<1>7. [decision_status |-> "SIGNAL", payload_json |-> p] # NULL
  BY <1>1, StoreFacts DEF DecisionRow
<1> HIDE DEF e, k
<1>8. /\ outbox'[e].idempotency_key = k /\ outbox'[e].payload_json = p
      /\ (Exists(e))'
      /\ \A f \in Events : f # e => outbox'[f] = outbox[f]
  <2>1. outbox \in [Events -> Row \cup {NULL}]
    BY DEF AllInv, FullInv, HeldInv, BasicInv, TypeOK
  <2>2. outbox'[e] = NewRow(k, p, created)
    BY <1>1, <1>3, <2>1
  <2> QED
    BY <1>3, <1>5, <2>1, <2>2, TableAssumption DEF Exists
<1>9. /\ decisions'[k] # NULL /\ decisions'[k].payload_json = p
      /\ decisions'[k].decision_status = "SIGNAL"
      /\ \A j \in Keys : j # k => decisions'[j] = decisions[j]
  BY <1>1, <1>6, <1>7 DEF AllInv, WriterInv, WriterTypeOK
<1>10. \A f \in Events : f # e => ((Exists(f))' <=> Exists(f))
  BY <1>8 DEF Exists
<1>11. \A f \in Events : Exists(f) => outbox[f].idempotency_key # k
  BY <1>2 DEF OutboxRowsOf
<1>12. (OutboxRowsOf(k))' = {e}
  <2>1. \A f \in Events :
          (Exists(f))' /\ outbox'[f].idempotency_key = k <=> f = e
    BY <1>8, <1>10, <1>11
  <2> QED
    BY <1>1, <2>1 DEF OutboxRowsOf
<1>13. \A j \in Keys : j # k => (OutboxRowsOf(j))' = OutboxRowsOf(j)
  BY <1>2, <1>8, <1>10 DEF OutboxRowsOf
<1>14. ASSUME NEW j \in Keys, decisions'[j] # NULL
       PROVE  IF decisions'[j].decision_status = "SIGNAL"
              THEN (OutboxRowsOf(j))' = {EventOf[decisions'[j].payload_json]}
              ELSE (OutboxRowsOf(j))' = {}
  <2>1. CASE j = k
    BY <1>9, <1>12, <2>1 DEF e
  <2>2. CASE j # k
    BY <1>9, <1>13, <1>14, <2>2 DEF AllInv, SignalHasOutbox
  <2> QED
    BY <2>1, <2>2
<1>15. ASSUME NEW f \in Events, (Exists(f))'
       PROVE  /\ decisions'[outbox'[f].idempotency_key] # NULL
              /\ decisions'[outbox'[f].idempotency_key].payload_json
                   = outbox'[f].payload_json
  <2>1. CASE f = e
    BY <1>8, <1>9, <2>1
  <2>2. CASE f # e
    <3>1. Exists(f) /\ outbox'[f] = outbox[f]
      BY <1>8, <1>10, <1>15, <2>2
    <3>2. outbox[f].idempotency_key \in Keys /\ outbox[f].idempotency_key # k
      BY <1>11, <3>1, RowHasSignal
    <3> QED
      BY <1>9, <3>1, <3>2 DEF AllInv, SignalHasOutbox
  <2> QED
    BY <2>1, <2>2
<1> QED
  BY <1>14, <1>15 DEF SignalHasOutbox

LEMMA InsertBlockedKeeps ==
  ASSUME AllInv, NEW w \in Writers, Insert(w), DecisionOf[request[w]] = "BLOCKED"
  PROVE  SignalHasOutbox'
<1> DEFINE p == request[w]
           k == KeyOf[p]
<1>1. p \in Payloads /\ k \in Keys
  BY StoreFacts DEF AllInv, WriterInv, WriterTypeOK, CallInv, Insert
<1>2. outbox' = outbox /\ decisions[k] = NULL
  BY DEF Insert, InsertAllowed, StoreOutbox
<1>3. decisions' = [decisions EXCEPT ![k] =
                      [decision_status |-> "BLOCKED", payload_json |-> p]]
  BY DEF Insert, StoreDecision
<1>4. /\ decisions'[k].decision_status = "BLOCKED"
      /\ \A j \in Keys : j # k => decisions'[j] = decisions[j]
  BY <1>1, <1>3 DEF AllInv, WriterInv, WriterTypeOK
<1>5. \A f \in Events : Exists(f) => /\ outbox[f].idempotency_key \in Keys
                                    /\ outbox[f].idempotency_key # k
  BY <1>2, RowHasSignal
<1>6. /\ \A f \in Events : (Exists(f))' <=> Exists(f)
      /\ \A j \in Keys : (OutboxRowsOf(j))' = OutboxRowsOf(j)
      /\ OutboxRowsOf(k) = {}
  BY <1>2, <1>5 DEF Exists, OutboxRowsOf
<1> QED
  BY <1>1, <1>2, <1>4, <1>5, <1>6 DEF AllInv, SignalHasOutbox

LEMMA SignalStep ==
  AllInv /\ [SignalNext]_signalVars => SignalHasOutbox'
<1> SUFFICES ASSUME AllInv, [SignalNext]_signalVars PROVE SignalHasOutbox'
  OBVIOUS
<1>1. CASE UNCHANGED <<outbox, decisions>>
  BY <1>1 DEF AllInv, SignalHasOutbox, OutboxRowsOf, Exists
<1>2. ASSUME NEW w \in Writers, Insert(w)
      PROVE  SignalHasOutbox'
  <2>1. request[w] \in Payloads
    BY <1>2 DEF AllInv, WriterInv, WriterTypeOK, CallInv, Insert
  <2> QED
    BY <1>2, <2>1, StoreFacts, InsertSignalKeeps, InsertBlockedKeeps
<1>3. CASE Deliver
  BY <1>3, DeliverKeeps
<1> QED
  BY <1>1, <1>2, <1>3
  DEF SignalNext, Write, Writer, Call, ReadDecision, InsertFails,
      RereadDecision, ReadOutbox, WriterAborts, signalVars, storeVars

LEMMA AllAlways == SignalSpec => []AllInv
<1>1. SignalInit => SignalHasOutbox
  BY DEF SignalInit, StoreInit, SignalHasOutbox, OutboxRowsOf, Exists
<1>2. WriterInv /\ FullInv /\ SignalHasOutbox /\ [SignalNext]_signalVars
        => SignalHasOutbox'
  BY SignalStep DEF AllInv
<1>3. SignalSpec => []SignalHasOutbox
  BY <1>1, <1>2, WriterAlways, WorkersAlways, PTL DEF SignalSpec
<1> QED
  BY <1>3, WriterAlways, WorkersAlways, PTL DEF AllInv

\* A stored signal and its notification are never apart, whatever writers
\* and workers do in whatever order.
THEOREM SignalAlwaysHasOutbox == SignalSpec => []SignalHasOutbox
<1>1. AllInv => SignalHasOutbox
  BY DEF AllInv
<1> QED
  BY <1>1, AllAlways, PTL

\* The types of the store.
THEOREM StoreTypeCorrect == SignalSpec => []StoreTypeOK
<1>1. AllInv => StoreTypeOK
  BY DEF AllInv, WriterInv, WriterTypeOK, FullInv, HeldInv, BasicInv, TypeOK,
         StoreTypeOK
<1> QED
  BY <1>1, AllAlways, PTL

\* What a transport has accepted, in whatever attempt, was decided to be a
\* signal and is stored as one.
THEOREM AlwaysOnlySignalsSent == SignalSpec => []OnlySignalsSent
<1>1. ASSUME AllInv PROVE OnlySignalsSent
  <2> SUFFICES ASSUME NEW e \in Events, acked[e] # {}
               PROVE  \E k \in Keys :
                         /\ decisions[k] # NULL
                         /\ decisions[k].decision_status = "SIGNAL"
                         /\ EventOf[decisions[k].payload_json] = e
    BY DEF OnlySignalsSent
  <2>1. acked[e] \subseteq 1..AttemptsOf(e)
    BY <1>1 DEF AllInv, FullInv, FreshInv
  <2>2. Exists(e)
    BY <2>1 DEF AttemptsOf
  <2> QED
    BY <1>1, <2>2, RowHasSignal
<1> QED
  BY <1>1, AllAlways, PTL

----------------------------------------------------------------------------
(***************************************************************************)
(* How a call ends.                                                        *)
(***************************************************************************)
\* A writer that compares the outbox has found its decision stored.  One
\* that lost a race finds the decision of the winner, or else another
\* signal has its event_id.
RaceInv ==
  \A w \in Writers :
     /\ step[w] = "outbox" => decisions[Key(w)] # NULL /\ SameDecision(w)
     /\ step[w] = "reread" /\ decisions[Key(w)] = NULL =>
           DecisionOf[request[w]] = "SIGNAL" /\ Exists(EventOf[request[w]])

\* Nothing that is stored is removed or replaced.
LEMMA StoredStays ==
  ASSUME AllInv, [SignalNext]_signalVars
  PROVE  /\ \A k \in Keys : decisions[k] # NULL => decisions'[k] = decisions[k]
         /\ \A e \in Events : Exists(e) => (Exists(e))'
<1>1. \A e \in Events : Exists(e) => (Exists(e))'
  BY StepDelivers, SignalKept DEF AllInv, FullInv, HeldInv
<1>2. ASSUME NEW w \in Writers, Insert(w)
      PROVE  \A k \in Keys : decisions[k] # NULL => decisions'[k] = decisions[k]
  BY <1>2 DEF Insert, InsertAllowed, StoreDecision, AllInv, WriterInv, WriterTypeOK
<1>3. CASE decisions' = decisions
  BY <1>1, <1>3
<1> QED
  BY <1>1, <1>2, <1>3
  DEF SignalNext, Write, Writer, Call, ReadDecision, InsertFails, Deliver,
      RereadDecision, ReadOutbox, WriterAborts, signalVars, storeVars

\* Other steps do not disturb a writer.
LEMMA RaceKept ==
  ASSUME AllInv, RaceInv, [SignalNext]_signalVars, NEW w \in Writers,
         step'[w] = step[w], request'[w] = request[w]
  PROVE  /\ step'[w] = "outbox" => (decisions[Key(w)] # NULL)' /\ (SameDecision(w))'
         /\ step'[w] = "reread" /\ (decisions[Key(w)] = NULL)' =>
               DecisionOf[request'[w]] = "SIGNAL" /\ (Exists(EventOf[request[w]]))'
<1>1. CASE step[w] \in {"outbox", "reread"}
  <2>1. request[w] \in Payloads
    BY <1>1 DEF AllInv, WriterInv, WriterTypeOK, CallInv
  <2>2. Key(w) \in Keys /\ EventOf[request[w]] \in Events
    BY <2>1, StoreFacts DEF Key
  <2> QED
    BY <1>1, <2>2, StoredStays DEF RaceInv, SameDecision, Key, Exists
<1>2. CASE step[w] \notin {"outbox", "reread"}
  BY <1>2
<1> QED
  BY <1>1, <1>2

\* A refused transaction has a reason, which is the same after the rollback.
LEMMA InsertFailsWhy ==
  ASSUME AllInv, NEW w \in Writers, InsertFails(w), decisions[Key(w)] = NULL
  PROVE  DecisionOf[request[w]] = "SIGNAL" /\ Exists(EventOf[request[w]])
<1> DEFINE p == request[w]
<1>1. DecisionOf[p] = "SIGNAL" /\ (Exists(EventOf[p]) \/ OutboxRowsOf(KeyOf[p]) # {})
  BY DEF InsertFails, InsertAllowed, Key
<1>2. OutboxRowsOf(KeyOf[p]) = {}
  BY RowHasSignal DEF OutboxRowsOf, Key
<1> QED
  BY <1>1, <1>2

LEMMA RaceStep ==
  AllInv /\ RaceInv /\ [SignalNext]_signalVars => RaceInv'
<1> SUFFICES ASSUME AllInv, RaceInv, [SignalNext]_signalVars, NEW w \in Writers
             PROVE  /\ step'[w] = "outbox" =>
                          (decisions[Key(w)] # NULL)' /\ (SameDecision(w))'
                    /\ step'[w] = "reread" /\ (decisions[Key(w)] = NULL)' =>
                          /\ DecisionOf[request'[w]] = "SIGNAL"
                          /\ (Exists(EventOf[request[w]]))'
  BY DEF RaceInv
<1>1. CASE step'[w] = step[w] /\ request'[w] = request[w]
  BY <1>1, RaceKept
<1>2. CASE step'[w] \notin {"outbox", "reread"}
  BY <1>2
<1>3. CASE ReadDecision(w) \/ RereadDecision(w)
  <2>1. step'[w] \in {"idle", "insert", "outbox"}
    BY <1>3 DEF ReadDecision, RereadDecision, GoTo, Return, AllInv, WriterInv,
                WriterTypeOK
  <2>2. CASE step'[w] = "outbox"
    <3>1. /\ decisions[Key(w)] # NULL /\ SameDecision(w)
          /\ UNCHANGED <<decisions, request>>
      BY <1>3, <2>2 DEF ReadDecision, RereadDecision, GoTo, Return, AllInv,
                        WriterInv, WriterTypeOK
    <3> QED
      BY <2>2, <3>1 DEF SameDecision, Key
  <2> QED
    BY <2>1, <2>2
<1>4. CASE InsertFails(w)
  <2>1. step'[w] = "reread" /\ UNCHANGED <<outbox, decisions, request>>
    BY <1>4 DEF InsertFails, GoTo, AllInv, WriterInv, WriterTypeOK
  <2> QED
    BY <1>4, <2>1, InsertFailsWhy DEF Key, Exists
<1>5. ASSUME NEW v \in Writers, Writer(v), v # w
      PROVE  step'[w] = step[w] /\ request'[w] = request[w]
  BY <1>5
  DEF Writer, Call, ReadDecision, Insert, InsertFails, RereadDecision,
      ReadOutbox, WriterAborts, GoTo, Return, AllInv, WriterInv, WriterTypeOK
<1>6. ASSUME \/ \E p \in Payloads : Call(w, p)
             \/ Insert(w) \/ ReadOutbox(w) \/ WriterAborts(w)
      PROVE  step'[w] \notin {"outbox", "reread"}
  BY <1>6 DEF Call, Insert, ReadOutbox, WriterAborts, Return, AllInv, WriterInv,
              WriterTypeOK
<1>7. CASE UNCHANGED <<step, request>>
  BY <1>1, <1>7
<1> QED
  BY <1>1, <1>2, <1>3, <1>4, <1>5, <1>6, <1>7
  DEF SignalNext, Write, Writer, Deliver, writerVars, signalVars, storeVars

LEMMA RaceAlways == SignalSpec => []RaceInv
<1>1. SignalInit => RaceInv
  BY DEF SignalInit, StoreInit, RaceInv
<1> QED
  BY <1>1, RaceStep, AllAlways, PTL DEF SignalSpec

\* A collision is never answered for the outbox.
LEMMA OutboxAgrees ==
  ASSUME AllInv, RaceInv, NEW w \in Writers, step[w] = "outbox"
  PROVE  SameOutbox(w)
<1> DEFINE p == request[w]
           k == KeyOf[p]
<1>1. p \in Payloads /\ k \in Keys /\ EventOf[p] \in Events
  BY StoreFacts DEF AllInv, WriterInv, WriterTypeOK, CallInv
<1>2. /\ decisions[k] # NULL /\ decisions[k].payload_json = p
      /\ decisions[k].decision_status = DecisionOf[p]
  BY DEF RaceInv, SameDecision, Key
<1>3. CASE DecisionOf[p] = "SIGNAL"
  <2>1. OutboxRowsOf(k) = {EventOf[p]}
    BY <1>1, <1>2, <1>3 DEF AllInv, SignalHasOutbox
  <2>2. Exists(EventOf[p]) /\ outbox[EventOf[p]].idempotency_key = k
    BY <2>1 DEF OutboxRowsOf
  <2>3. outbox[EventOf[p]].payload_json = p
    BY <1>1, <1>2, <2>2 DEF AllInv, SignalHasOutbox
  <2> QED
    BY <1>3, <2>1, <2>3 DEF SameOutbox
<1>4. CASE DecisionOf[p] # "SIGNAL"
  BY <1>1, <1>2, <1>4 DEF AllInv, SignalHasOutbox, SameOutbox
<1> QED
  BY <1>3, <1>4

\* The reasons for which a call is refused.
Justified(w) ==
  LET p == request[w]
  IN  \/ /\ decisions[KeyOf[p]] # NULL
         /\ decisions[KeyOf[p]].payload_json # p
      \/ /\ decisions[KeyOf[p]] = NULL
         /\ DecisionOf[p] = "SIGNAL"
         /\ Exists(EventOf[p])
         /\ outbox[EventOf[p]].idempotency_key # KeyOf[p]

LEMMA CollisionWhy ==
  ASSUME AllInv, RaceInv, NEW w \in Writers, Writer(w),
         result'[w] = "collision"
  PROVE  /\ Return(w, "collision") /\ Justified(w)
         /\ step[w] # "idle" /\ UNCHANGED <<outbox, clock, decisions>>
<1> DEFINE p == request[w]
<1>1. CASE ReadDecision(w) \/ RereadDecision(w)
  <2>1. /\ step[w] \in {"read", "reread"}
        /\ Return(w, "collision") /\ UNCHANGED <<outbox, clock, decisions>>
        /\ \/ decisions[Key(w)] # NULL /\ ~SameDecision(w)
           \/ step[w] = "reread" /\ decisions[Key(w)] = NULL
    BY <1>1, StoreFacts
    DEF ReadDecision, RereadDecision, GoTo, AllInv, WriterInv, CallInv
  <2>2. p \in Payloads /\ Key(w) \in Keys /\ EventOf[p] \in Events
    BY <2>1, StoreFacts DEF AllInv, WriterInv, WriterTypeOK, CallInv, Key
  <2>3. CASE decisions[Key(w)] # NULL
    BY <2>1, <2>2, <2>3
    DEF AllInv, WriterInv, DecisionInv, SameDecision, Justified, Key
  <2>4. CASE decisions[Key(w)] = NULL
    <3>1. DecisionOf[p] = "SIGNAL" /\ Exists(EventOf[p])
      BY <2>1, <2>4 DEF RaceInv
    <3>2. outbox[EventOf[p]].idempotency_key # Key(w)
      BY <2>2, <2>4, <3>1, RowHasSignal
    <3> QED
      BY <2>1, <2>4, <3>1, <3>2 DEF Justified, Key
  <2> QED
    BY <2>1, <2>3, <2>4
<1>2. CASE ReadOutbox(w)
  BY <1>2, OutboxAgrees DEF ReadOutbox, Return, AllInv, WriterInv, WriterTypeOK
<1>3. CASE \/ \E q \in Payloads : Call(w, q)
           \/ Insert(w) \/ InsertFails(w) \/ WriterAborts(w)
  BY <1>3, StoreFacts
  DEF Call, Insert, InsertFails, WriterAborts, GoTo, Return, AllInv, WriterInv,
      WriterTypeOK, CallInv
<1> QED
  BY <1>1, <1>2, <1>3 DEF Writer

\* persist refuses no request without a reason that lies in the store.
THEOREM CollisionAlwaysJustified == SignalSpec => CollisionJustified
<1> DEFINE Reason ==
      \A w \in Writers :
        LET p == request[w]
        IN  result'[w] = "collision" /\ result[w] # "collision" =>
               \/ /\ decisions[KeyOf[p]] # NULL
                  /\ decisions[KeyOf[p]].payload_json # p
               \/ /\ DecisionOf[p] = "SIGNAL"
                  /\ Exists(EventOf[p])
                  /\ outbox[EventOf[p]].idempotency_key # KeyOf[p]
<1>1. AllInv /\ RaceInv /\ [SignalNext]_signalVars => [Reason]_storeVars
  <2> SUFFICES ASSUME AllInv, RaceInv, [SignalNext]_signalVars,
                      NEW w \in Writers, result'[w] = "collision",
                      result[w] # "collision"
               PROVE  Justified(w)
    BY DEF Justified
  <2>1. Writer(w)
    <3>1. ASSUME NEW v \in Writers, Writer(v), v # w
          PROVE  result'[w] = result[w]
      BY <3>1
      DEF Writer, Call, ReadDecision, Insert, InsertFails, RereadDecision,
          ReadOutbox, WriterAborts, GoTo, Return, AllInv, WriterInv, WriterTypeOK
    <3> QED
      BY <3>1 DEF SignalNext, Write, Deliver, writerVars, signalVars, storeVars
  <2> QED
    BY <2>1, CollisionWhy
<1> QED
  BY <1>1, AllAlways, RaceAlways, PTL DEF SignalSpec, CollisionJustified

----------------------------------------------------------------------------
(***************************************************************************)
(* persist is atomic.                                                      *)
(***************************************************************************)
LogStep == [Log!LogNext]_(Log!logVars)

\* What DecisionLog sees of the store.
StoredAt(k) == IF decisions[k] = NULL THEN NULL ELSE decisions[k].payload_json

LEMMA LogStutter ==
  ASSUME UNCHANGED <<decisions, request, result>>
  PROVE  LogStep
  BY DEF LogStep, Log!logVars

\* The answer to a request, as DecisionLog would give it.
LEMMA LogOutcome ==
  ASSUME AllInv, NEW p \in Payloads
  PROVE  /\ Log!Stored(p) = StoredAt(KeyOf[p])
         /\ Log!EventTaken(p) <=>
               DecisionOf[p] = "SIGNAL" /\ Exists(EventOf[p])
<1>1. Log!Stored(p) = StoredAt(KeyOf[p])
  BY StoreFacts DEF Log!Stored, StoredAt
<1>2. ASSUME DecisionOf[p] = "SIGNAL", Exists(EventOf[p])
      PROVE  Log!EventTaken(p)
  <2> DEFINE k == outbox[EventOf[p]].idempotency_key
  <2>1. /\ k \in Keys /\ StoredAt(k) # NULL
        /\ DecisionOf[StoredAt(k)] = "SIGNAL"
        /\ EventOf[StoredAt(k)] = EventOf[p]
    BY <1>2, RowHasSignal, StoreFacts DEF StoredAt
  <2> QED
    BY <1>2, <2>1 DEF Log!EventTaken, StoredAt
<1>3. ASSUME Log!EventTaken(p)
      PROVE  DecisionOf[p] = "SIGNAL" /\ Exists(EventOf[p])
  <2>1. PICK k \in Keys : /\ StoredAt(k) # NULL
                          /\ DecisionOf[StoredAt(k)] = "SIGNAL"
                          /\ EventOf[StoredAt(k)] = EventOf[p]
    BY <1>3 DEF Log!EventTaken, StoredAt
  <2>2. /\ decisions[k] # NULL
        /\ decisions[k].decision_status = "SIGNAL"
        /\ EventOf[decisions[k].payload_json] = EventOf[p]
    BY <2>1 DEF StoredAt, AllInv, WriterInv, DecisionInv
  <2>3. EventOf[p] \in OutboxRowsOf(k)
    BY <2>2 DEF AllInv, SignalHasOutbox
  <2> QED
    BY <1>3, <2>3 DEF Log!EventTaken, OutboxRowsOf
<1> QED
  BY <1>1, <1>2, <1>3

LEMMA LogCall ==
  ASSUME AllInv, NEW w \in Writers, NEW p \in Payloads, Call(w, p)
  PROVE  LogStep
<1>1. request[w] = NULL /\ decisions' = decisions
  BY DEF AllInv, WriterInv, CallInv, Call
<1>2. Log!Call(w, p)
  BY <1>1 DEF Log!Call, Call
<1> QED
  BY <1>2 DEF LogStep, Log!LogNext

LEMMA LogInsert ==
  ASSUME AllInv, NEW w \in Writers, NEW p \in Payloads, p = request[w], Insert(w)
  PROVE  LogStep
<1> DEFINE k == KeyOf[p]
           before == [j \in Keys |-> StoredAt(j)]
<1>1. k \in Keys /\ p # NULL /\ decisions[k] = NULL
  BY StoreFacts DEF Insert, InsertAllowed
<1>2. ~(DecisionOf[p] = "SIGNAL" /\ Exists(EventOf[p]))
  BY DEF Insert, InsertAllowed
<1>3. Log!Stored(p) = NULL /\ ~Log!EventTaken(p)
  BY <1>1, <1>2, LogOutcome DEF StoredAt
<1>4. Log!Outcome(p) = "fresh"
  BY <1>1, <1>3 DEF Log!Outcome
<1>5. decisions' = [decisions EXCEPT ![k] =
                      [decision_status |-> DecisionOf[p], payload_json |-> p]]
  BY DEF Insert, StoreDecision
<1>6. [decision_status |-> DecisionOf[p], payload_json |-> p] # NULL
  BY StoreFacts DEF DecisionRow
<1>7. \A j \in Keys : (StoredAt(j))' = IF j = k THEN p ELSE StoredAt(j)
  BY <1>1, <1>5, <1>6 DEF StoredAt, AllInv, WriterInv, WriterTypeOK
<1>8. [j \in Keys |-> StoredAt(j)]' = [before EXCEPT ![k] = p]
  BY <1>1, <1>7
<1>9. CASE Return(w, "fresh")
  <2>1. Log!Persist(w)
    BY <1>1, <1>4, <1>8, <1>9 DEF Log!Persist, Return, StoredAt
  <2> QED
    BY <2>1 DEF LogStep, Log!LogNext
<1>10. CASE Return(w, NULL)
  <2>1. result' = result
    BY <1>10 DEF Return, Insert, AllInv, WriterInv, WriterTypeOK, CallInv
  <2>2. Log!Vanish(w)
    BY <1>1, <1>4, <1>8, <1>10, <2>1 DEF Log!Vanish, Return, StoredAt
  <2> QED
    BY <2>2 DEF LogStep, Log!LogNext
<1> QED
  BY <1>9, <1>10 DEF Insert

\* A call that ends without a write: the log agrees with its answer.
LEMMA LogAnswer ==
  ASSUME AllInv, NEW w \in Writers, NEW p \in Payloads, p = request[w],
         NEW r, Return(w, r), decisions' = decisions, r # "fresh",
         Log!Outcome(p) = r
  PROVE  LogStep
<1>1. p # NULL
  BY StoreFacts
<1>2. Log!Persist(w)
  BY <1>1 DEF Log!Persist, Return
<1> QED
  BY <1>2 DEF LogStep, Log!LogNext

LEMMA LogCollision ==
  ASSUME AllInv, RaceInv, NEW w \in Writers, NEW p \in Payloads, p = request[w],
         Writer(w), result'[w] = "collision"
  PROVE  LogStep
<1>1. Return(w, "collision") /\ Justified(w) /\ decisions' = decisions
  BY CollisionWhy
<1>2. CASE decisions[KeyOf[p]] # NULL
  <2>1. StoredAt(KeyOf[p]) # NULL /\ StoredAt(KeyOf[p]) # p
    <3>1. KeyOf[p] \in Keys
      BY StoreFacts
    <3>2. decisions[KeyOf[p]] \in DecisionRow
      BY <1>2, <3>1 DEF AllInv, WriterInv, WriterTypeOK
    <3>3. decisions[KeyOf[p]].payload_json # NULL
      BY <3>2, StoreFacts DEF DecisionRow
    <3> QED
      BY <1>1, <1>2, <3>3 DEF Justified, StoredAt
  <2>2. Log!Outcome(p) = "collision"
    BY <2>1, LogOutcome DEF Log!Outcome
  <2> QED
    BY <1>1, <2>2, LogAnswer
<1>3. CASE decisions[KeyOf[p]] = NULL
  <2>1. Log!EventTaken(p) /\ Log!Stored(p) = NULL /\ p # NULL
    BY <1>1, <1>3, LogOutcome, StoreFacts DEF Justified, StoredAt
  <2>2. Log!Outcome(p) = "collision"
    BY <2>1 DEF Log!Outcome
  <2> QED
    BY <1>1, <2>2, LogAnswer
<1> QED
  BY <1>2, <1>3

LEMMA LogReplay ==
  ASSUME AllInv, RaceInv, NEW w \in Writers, NEW p \in Payloads, p = request[w],
         ReadOutbox(w)
  PROVE  LogStep
<1>1. Return(w, "replay") /\ decisions' = decisions
  BY OutboxAgrees DEF ReadOutbox
<1>2. decisions[KeyOf[p]] # NULL /\ decisions[KeyOf[p]].payload_json = p
  BY DEF ReadOutbox, RaceInv, SameDecision, Key
<1>3. Log!Stored(p) = p /\ p # NULL
  BY <1>2, LogOutcome, StoreFacts DEF StoredAt
<1>4. Log!Outcome(p) = "replay"
  BY <1>3 DEF Log!Outcome
<1> QED
  BY <1>1, <1>4, LogAnswer

LEMMA LogAbort ==
  ASSUME AllInv, NEW w \in Writers, WriterAborts(w)
  PROVE  LogStep
<1>1. request[w] # NULL /\ result' = result /\ decisions' = decisions
  BY DEF WriterAborts, Return, AllInv, WriterInv, WriterTypeOK, CallInv
<1>2. Log!Vanish(w)
  BY <1>1 DEF Log!Vanish, WriterAborts, Return
<1> QED
  BY <1>2 DEF LogStep, Log!LogNext

LEMMA StepLogs ==
  AllInv /\ RaceInv /\ [SignalNext]_signalVars => LogStep
<1> SUFFICES ASSUME AllInv, RaceInv, [SignalNext]_signalVars PROVE LogStep
  OBVIOUS
<1>1. ASSUME NEW w \in Writers, Writer(w)
      PROVE  LogStep
  <2>1. ASSUME NEW p \in Payloads, Call(w, p)
        PROVE  LogStep
    BY <2>1, LogCall
  <2>2. ASSUME step[w] # "idle"
        PROVE  request[w] \in Payloads
    BY <2>2 DEF AllInv, WriterInv, WriterTypeOK, CallInv
  <2>3. CASE Insert(w)
    BY <2>2, <2>3, LogInsert DEF Insert
  <2>4. CASE InsertFails(w)
    BY <2>4, LogStutter DEF InsertFails, GoTo
  <2>5. CASE ReadDecision(w) \/ RereadDecision(w)
    <3>1. CASE result'[w] = "collision"
      BY <1>1, <2>2, <2>5, <3>1, LogCollision DEF ReadDecision, RereadDecision
    <3>2. CASE result'[w] # "collision"
      <4>1. UNCHANGED <<decisions, request, result>>
        BY <2>5, <3>2
        DEF ReadDecision, RereadDecision, GoTo, Return, AllInv, WriterInv,
            WriterTypeOK
      <4> QED
        BY <4>1, LogStutter
    <3> QED
      BY <3>1, <3>2
  <2>6. CASE ReadOutbox(w)
    BY <2>2, <2>6, LogReplay DEF ReadOutbox
  <2>7. CASE WriterAborts(w)
    BY <2>7, LogAbort
  <2> QED
    BY <1>1, <2>1, <2>3, <2>4, <2>5, <2>6, <2>7 DEF Writer
<1>2. CASE UNCHANGED <<decisions, request, result>>
  BY <1>2, LogStutter
<1> QED
  BY <1>1, <1>2
  DEF SignalNext, Write, Deliver, writerVars, signalVars, storeVars

\* Concurrent calls of persist, crashes among them, end as if each were one
\* step, whatever the workers do to the rows in between.
THEOREM LogImplemented == SignalSpec => ImplementsLog
<1>1. SignalInit => Log!LogInit
  BY DEF SignalInit, StoreInit, Log!LogInit
<1>2. AllInv /\ RaceInv /\ [SignalNext]_signalVars => [Log!LogNext]_(Log!logVars)
  BY StepLogs DEF LogStep
<1> QED
  BY <1>1, <1>2, AllAlways, RaceAlways, PTL
  DEF SignalSpec, ImplementsLog, Log!LogSpec
=============================================================================
