---------------------------- MODULE DecisionLog ----------------------------
(***************************************************************************)
(* What DecisionPersistence.persist promises, as one atomic step: a key    *)
(* keeps the first request stored under it.  With EventIdsUnique = FALSE   *)
(* this is the reference implementation InMemoryDecisionPersistence        *)
(* (src/src/tabdeal_signal/persistence/in_memory.py), whose persist runs   *)
(* under a lock; with TRUE a signal is also refused when its event_id      *)
(* belongs to another stored signal, as SQLite does.                       *)
(*                                                                         *)
(* The encoded request determines its key, event id and decision status.   *)
(***************************************************************************)
CONSTANTS
    Keys,
    Payloads,        \* requests
    KeyOf,           \* request -> idempotency_key
    EventOf,         \* request -> event_id, given or derived from the key
    DecisionOf,      \* request -> "SIGNAL" or "BLOCKED"
    Writers,         \* threads or processes calling persist
    NULL,
    EventIdsUnique

VARIABLES
    records,         \* idempotency_key -> stored request
    request,         \* per writer, the request of the call in progress
    result           \* per writer, how its last call ended

logVars == <<records, request, result>>

Results == {"fresh", "replay", "collision"}

LogInit ==
    /\ records = [k \in Keys |-> NULL]
    /\ request = [w \in Writers |-> NULL]
    /\ result = [w \in Writers |-> NULL]

Call(w, p) ==
    /\ request[w] = NULL
    /\ request' = [request EXCEPT ![w] = p]
    /\ result' = [result EXCEPT ![w] = NULL]
    /\ UNCHANGED records

Stored(p) == records[KeyOf[p]]

EventTaken(p) ==
    /\ EventIdsUnique
    /\ DecisionOf[p] = "SIGNAL"
    /\ \E k \in Keys :
          /\ records[k] # NULL
          /\ DecisionOf[records[k]] = "SIGNAL"
          /\ EventOf[records[k]] = EventOf[p]

\* persist: how the call ends, given what is stored.
Outcome(p) ==
    CASE Stored(p) = NULL /\ ~EventTaken(p) -> "fresh"
      [] Stored(p) = p -> "replay"
      [] OTHER -> "collision"

Persist(w) ==
    /\ request[w] # NULL
    /\ result' = [result EXCEPT ![w] = Outcome(request[w])]
    /\ records' = IF Outcome(request[w]) = "fresh"
                  THEN [records EXCEPT ![KeyOf[request[w]]] = request[w]]
                  ELSE records
    /\ request' = [request EXCEPT ![w] = NULL]

\* The caller dies without an answer, before or after the request is stored.
Vanish(w) ==
    /\ request[w] # NULL
    /\ request' = [request EXCEPT ![w] = NULL]
    /\ UNCHANGED result
    /\ \/ UNCHANGED records
       \/ /\ Outcome(request[w]) = "fresh"
          /\ records' = [records EXCEPT ![KeyOf[request[w]]] = request[w]]

LogNext ==
    \E w \in Writers :
        \/ \E p \in Payloads : Call(w, p)
        \/ Persist(w)
        \/ Vanish(w)

LogSpec == LogInit /\ [][LogNext]_logVars
=============================================================================
