--------------------------- MODULE DecisionStore ---------------------------
(***************************************************************************)
(* SQLiteDecisionPersistence.persist                                       *)
(* (src/src/tabdeal_signal/persistence/sqlite.py): concurrent writers      *)
(* store decisions and, with a signal, its outbox row.                     *)
(*                                                                         *)
(* The reads run in autocommit mode, each its own step; the two INSERTs    *)
(* are one transaction.  payload_json encodes the whole request, so a      *)
(* request is identified with its payload.                                 *)
(***************************************************************************)
EXTENDS OutboxTable

CONSTANTS
    KeyOf,           \* request -> idempotency_key
    EventOf,         \* request -> _event_id(request)
    DecisionOf,      \* request -> decision.status
    Writers          \* processes calling persist, each with a connection

\* A row of table decisions.
DecisionRow == [decision_status : {"SIGNAL", "BLOCKED"}, payload_json : Payloads]

ASSUME StoreAssumption ==
    /\ KeyOf \in [Payloads -> Keys]
    /\ EventOf \in [Payloads -> Events]
    /\ DecisionOf \in [Payloads -> {"SIGNAL", "BLOCKED"}]
    /\ NULL \notin Payloads
    /\ NULL \notin DecisionRow \cup {"fresh", "replay", "collision"}

VARIABLES
    decisions,       \* table decisions: idempotency_key -> row or NULL
    step,            \* where each writer is in persist
    request,         \* the request of the call in progress
    result           \* how the writer's last call ended

writerVars == <<step, request, result>>
storeVars == <<outbox, clock, decisions, writerVars>>

StoreTypeOK ==
    /\ outbox \in [Events -> Row \cup {NULL}]
    /\ clock \in Time
    /\ decisions \in [Keys -> DecisionRow \cup {NULL}]
    /\ step \in [Writers -> {"idle", "read", "insert", "reread", "outbox"}]
    /\ request \in [Writers -> Payloads \cup {NULL}]
    /\ result \in [Writers -> {"fresh", "replay", "collision", NULL}]

StoreInit ==
    /\ outbox = [e \in Events |-> NULL]
    /\ clock = 0
    /\ decisions = [k \in Keys |-> NULL]
    /\ step = [w \in Writers |-> "idle"]
    /\ request = [w \in Writers |-> NULL]
    /\ result = [w \in Writers |-> NULL]

----------------------------------------------------------------------------
Key(w) == KeyOf[request[w]]

GoTo(w, s) ==
    /\ step' = [step EXCEPT ![w] = s]
    /\ UNCHANGED <<request, result>>

\* persist returns a PersistenceResult or raises PersistenceCollisionError.
Return(w, r) ==
    /\ step' = [step EXCEPT ![w] = "idle"]
    /\ request' = [request EXCEPT ![w] = NULL]
    /\ result' = [result EXCEPT ![w] = r]

Call(w, p) ==
    /\ step[w] = "idle"
    /\ step' = [step EXCEPT ![w] = "read"]
    /\ request' = [request EXCEPT ![w] = p]
    /\ result' = [result EXCEPT ![w] = NULL]
    /\ UNCHANGED <<outbox, clock, decisions>>

\* The stored decision carries this request and its status.
SameDecision(w) ==
    /\ decisions[Key(w)].payload_json = request[w]
    /\ decisions[Key(w)].decision_status = DecisionOf[request[w]]

\* The preflight SELECTs of the decision.
ReadDecision(w) ==
    /\ step[w] = "read"
    /\ IF decisions[Key(w)] = NULL
       THEN GoTo(w, "insert")
       ELSE IF SameDecision(w) THEN GoTo(w, "outbox") ELSE Return(w, "collision")
    /\ UNCHANGED <<outbox, clock, decisions>>

OutboxRowsOf(k) == {e \in Events : Exists(e) /\ outbox[e].idempotency_key = k}

\* Mutant of InsertAllowed: the outbox row is written with INSERT OR REPLACE.
InsertAllowedReplace(p) == decisions[KeyOf[p]] = NULL

\* The primary keys, UNIQUE (idempotency_key) and the foreign key, which
\* the decision of the same transaction satisfies.
InsertAllowed(p) ==
    /\ decisions[KeyOf[p]] = NULL
    /\ DecisionOf[p] = "SIGNAL" =>
          ~Exists(EventOf[p]) /\ OutboxRowsOf(KeyOf[p]) = {}

StoreDecision(p) ==
    decisions' = [decisions EXCEPT ![KeyOf[p]] =
                    [decision_status |-> DecisionOf[p], payload_json |-> p]]

\* Mutant of StoreOutbox: blocked decisions are notified too.
StoreOutboxAlways(p) ==
    outbox' = [outbox EXCEPT ![EventOf[p]] = NewRow(KeyOf[p], p, clock)]

\* A signal's notification; created_at was read before the transaction.
StoreOutbox(p) ==
    IF DecisionOf[p] = "SIGNAL"
    THEN \E created \in 0..clock :
            outbox' = [outbox EXCEPT ![EventOf[p]] = NewRow(KeyOf[p], p, created)]
    ELSE UNCHANGED outbox

\* The transaction commits; the answer is lost if the process dies then.
Insert(w) ==
    /\ step[w] = "insert"
    /\ InsertAllowed(request[w])
    /\ StoreDecision(request[w])
    /\ StoreOutbox(request[w])
    /\ Return(w, "fresh") \/ Return(w, NULL)
    /\ UNCHANGED clock

\* IntegrityError: the transaction is rolled back as a whole.
InsertFails(w) ==
    /\ step[w] = "insert"
    /\ ~InsertAllowed(request[w])
    /\ GoTo(w, "reread")
    /\ UNCHANGED <<outbox, clock, decisions>>

\* Mutant of RereadDecision: every IntegrityError is a collision.
RereadDecisionNever(w) ==
    /\ step[w] = "reread"
    /\ Return(w, "collision")
    /\ UNCHANGED <<outbox, clock, decisions>>

\* The SELECT after an IntegrityError.
RereadDecision(w) ==
    /\ step[w] = "reread"
    /\ IF decisions[Key(w)] # NULL /\ SameDecision(w)
       THEN GoTo(w, "outbox")
       ELSE Return(w, "collision")
    /\ UNCHANGED <<outbox, clock, decisions>>

\* The stored notification is the one of this request: for a signal its
\* row, otherwise none.
SameOutbox(w) ==
    LET p == request[w]
    IN  IF DecisionOf[p] = "SIGNAL"
        THEN \E e \in OutboxRowsOf(KeyOf[p]) :
                e = EventOf[p] /\ outbox[e].payload_json = p
        ELSE OutboxRowsOf(KeyOf[p]) = {}

\* The SELECT of the outbox, after either read of the decision.
ReadOutbox(w) ==
    /\ step[w] = "outbox"
    /\ Return(w, IF SameOutbox(w) THEN "replay" ELSE "collision")
    /\ UNCHANGED <<outbox, clock, decisions>>

\* The process dies before the commit, or the write lock is not obtained.
WriterAborts(w) ==
    /\ step[w] # "idle"
    /\ Return(w, NULL)
    /\ UNCHANGED <<outbox, clock, decisions>>

Writer(w) ==
    \/ \E p \in Payloads : Call(w, p)
    \/ ReadDecision(w)
    \/ Insert(w)
    \/ InsertFails(w)
    \/ RereadDecision(w)
    \/ ReadOutbox(w)
    \/ WriterAborts(w)

StoreNext == \E w \in Writers : Writer(w)

StoreSpec == StoreInit /\ [][StoreNext]_storeVars

----------------------------------------------------------------------------
\* In every state a crash could leave behind: a stored signal has exactly
\* its own outbox row, a blocked decision has none, and no row is an orphan
\* (the last is what _validate_schema_state demands on reopening).  Claims,
\* retries, recoveries and finalisations of the row do not change that.
SignalHasOutbox ==
    /\ \A k \in Keys :
          decisions[k] # NULL =>
             LET p == decisions[k].payload_json
             IN  IF decisions[k].decision_status = "SIGNAL"
                 THEN OutboxRowsOf(k) = {EventOf[p]}
                 ELSE OutboxRowsOf(k) = {}
    /\ \A e \in Events :
          Exists(e) => LET k == outbox[e].idempotency_key
                       IN  /\ decisions[k] # NULL
                           /\ decisions[k].payload_json = outbox[e].payload_json

\* persist fails only for a reason: another request is stored under the
\* key, or another key's signal has the event_id.  Losing the race against
\* an identical call is not one, nor is a row that was delivered meanwhile.
CollisionJustified ==
    [][\A w \in Writers :
          LET p == request[w]
          IN  result'[w] = "collision" /\ result[w] # "collision" =>
                 \/ /\ decisions[KeyOf[p]] # NULL
                    /\ decisions[KeyOf[p]].payload_json # p
                 \/ /\ DecisionOf[p] = "SIGNAL"
                    /\ Exists(EventOf[p])
                    /\ outbox[EventOf[p]].idempotency_key # KeyOf[p]]_storeVars

\* persist as a whole is atomic and idempotent: concurrent calls end as if
\* each ran alone under a lock, like InMemoryDecisionPersistence, and also
\* while their rows are being delivered.
Log == INSTANCE DecisionLog WITH
    records <- [k \in Keys |->
                  IF decisions[k] = NULL THEN NULL ELSE decisions[k].payload_json],
    EventIdsUnique <- TRUE

ImplementsLog == Log!LogSpec
=============================================================================
