--------------------------- MODULE SignalDelivery ---------------------------
(***************************************************************************)
(* The whole path of a signal from persist to delivery: the writers of     *)
(* DecisionStore and the workers of NotificationWorker over one database.  *)
(* The two share the outbox table and the clock and nothing else.          *)
(***************************************************************************)
EXTENDS DecisionStore, NotificationWorker

signalVars == <<storeVars, workerVars, acked>>

SignalInit == StoreInit /\ Init

Write(w) == Writer(w) /\ UNCHANGED <<workerVars, acked>>

Deliver ==
    /\ \/ Tick
       \/ \E now \in Nows : Recover(now)
       \/ \E w \in Workers : Worker(w) \/ Abort(w)
    /\ UNCHANGED <<decisions, writerVars>>

SignalNext == (\E w \in Writers : Write(w)) \/ Deliver

SignalSpec == SignalInit /\ [][SignalNext]_signalVars

----------------------------------------------------------------------------
\* The writers are all that NotificationWorker assumes of the outside
\* world: a row appears whole, under a new event and a new key.
ImplementsDelivery == Spec

\* A transport accepts only what was decided: each accepted event belongs
\* to a stored SIGNAL decision.
OnlySignalsSent ==
    \A e \in Events :
        acked[e] # {} =>
           \E k \in Keys :
              /\ decisions[k] # NULL
              /\ decisions[k].decision_status = "SIGNAL"
              /\ EventOf[decisions[k].payload_json] = e
=============================================================================
