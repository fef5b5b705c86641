-------------------------- MODULE OutboxLifecycle --------------------------
(***************************************************************************)
(* What the delivery of the outbox promises, without workers, leases,      *)
(* batches or a clock: the life of each event.  An event is delivered at   *)
(* least once before it counts as SENT, each numbered attempt hands it to  *)
(* the transport at most once, SENT and DEAD_LETTER are final, and an      *)
(* event is given up only after max_attempts attempts or for a blank       *)
(* event_id.  NotificationWorker implements this specification.            *)
(***************************************************************************)
EXTENDS Integers

CONSTANTS
    Events,
    Malformed,     \* events with a blank event_id
    MaxAttempts

VARIABLES
    status,        \* per event; "NONE" before the row exists
    attempts,      \* per event, the attempts begun
    acked          \* per event, the attempts the transport accepted

vars == <<status, attempts, acked>>

Init ==
    /\ status = [e \in Events |-> "NONE"]
    /\ attempts = [e \in Events |-> 0]
    /\ acked = [e \in Events |-> {}]

Create(e) ==
    /\ status[e] = "NONE"
    /\ status' = [status EXCEPT ![e] = "PENDING"]
    /\ UNCHANGED <<attempts, acked>>

\* One claim begins an attempt of several events; a PROCESSING event is
\* begun again when the earlier attempt was abandoned.
Begin(S) ==
    /\ \A e \in S : status[e] \in {"PENDING", "RETRY", "PROCESSING"}
    /\ status' = [e \in Events |-> IF e \in S THEN "PROCESSING" ELSE status[e]]
    /\ attempts' = [e \in Events |->
                      IF e \in S THEN attempts[e] + 1 ELSE attempts[e]]
    /\ UNCHANGED acked

\* The transport accepts attempt n, possibly after it was abandoned, and
\* never twice.
Accept(e, n) ==
    /\ e \notin Malformed
    /\ n \in 1..attempts[e]
    /\ n \notin acked[e]
    /\ acked' = [acked EXCEPT ![e] = @ \cup {n}]
    /\ UNCHANGED <<status, attempts>>

\* The latest attempt is known to have succeeded.
Complete(e) ==
    /\ status[e] = "PROCESSING"
    /\ attempts[e] \in acked[e]
    /\ status' = [status EXCEPT ![e] = "SENT"]
    /\ UNCHANGED <<attempts, acked>>

\* Failed attempts, and those whose lease ran out, are to be repeated.
Postpone(S) ==
    /\ \A e \in S : status[e] = "PROCESSING"
    /\ status' = [e \in Events |-> IF e \in S THEN "RETRY" ELSE status[e]]
    /\ UNCHANGED <<attempts, acked>>

GiveUp(e) ==
    /\ status[e] = "PROCESSING"
    /\ attempts[e] >= MaxAttempts \/ e \in Malformed
    /\ status' = [status EXCEPT ![e] = "DEAD_LETTER"]
    /\ UNCHANGED <<attempts, acked>>

Next ==
    \/ \E e \in Events :
          \/ Create(e)
          \/ \E n \in 1..attempts[e] : Accept(e, n)
          \/ Complete(e)
          \/ GiveUp(e)
    \/ \E S \in SUBSET Events : Begin(S) \/ Postpone(S)

Spec == Init /\ [][Next]_vars
=============================================================================
