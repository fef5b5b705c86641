-------------------------- MODULE DeliveryProgress --------------------------
(***************************************************************************)
(* Progress of the delivery.  Time never ends here: when the clock reaches *)
(* MaxTime, a tick leaves it there and instead moves every stored instant  *)
(* one second into the past.  The code only compares instants with the     *)
(* clock or with a recent reading of it, so nothing it can see is lost.    *)
(***************************************************************************)
EXTENDS NotificationWorker

CONSTANT MaxCrashes    \* bound on crashes; delivery needs them to stop

\* The clock reaches at least as far as a lease: so what a running pass read
\* of it is never 0 when it is moved into the past.
ASSUME ProgressAssumption ==
    /\ Events \subseteq Keys
    /\ MaxCrashes \in Nat
    /\ MaxTime >= LeaseSeconds

VARIABLES
    crashes,
    dropped        \* per event, its records dropped by the overflow of another

liveVars == <<vars, crashes, dropped>>

Aged(t) == IF t \in {NULL, 0} THEN t ELSE t - 1

\* created_at is not aged: all rows are added at clock 0.
AgedRow(row) ==
    [row EXCEPT !.next_attempt_at = Aged(@),
                !.locked_until    = Aged(@),
                !.sent_at         = Aged(@)]

AgeAll ==
    /\ clock = MaxTime
    /\ outbox' = [e \in Events |->
                    IF Exists(e) THEN AgedRow(outbox[e]) ELSE NULL]
    /\ current' = [w \in Workers |-> Aged(current[w])]
    /\ checked' = [w \in Workers |-> Aged(checked[w])]
    /\ UNCHANGED <<clock, pc, selected, token, batch, acked>>

\* A pass is over before the leases it took run out: without this no mark
\* is accepted, and the code has no way to make progress.
Prompt ==
    \A w \in Workers : pc[w] # "idle" => clock + 1 < current[w] + LeaseSeconds

PromptTick == Prompt /\ (Tick \/ AgeAll) /\ UNCHANGED <<crashes, dropped>>

Behind(w, e) == \E r \in batch[w] : r.event_id = e /\ ~IsFirst(w, r)

\* A pass of a caller that leaves `now` to the clock: one whose instants lie
\* a lease behind it has every mark rejected, one whose instants run ahead
\* leaves leases and retries behind that nobody else may touch before.
Pass(w) ==
    /\ RunOnce(w, clock) \/ Continue(w)
    /\ dropped' = [e \in Events |->
                     dropped[e] + IF BackoffFails(w) /\ Behind(w, e) THEN 1 ELSE 0]
    /\ UNCHANGED crashes

Crash(w) ==
    /\ crashes < MaxCrashes
    /\ Abort(w)
    /\ crashes' = crashes + 1
    /\ UNCHANGED dropped

\* Each event has the key of its own number, and is there before time passes.
Arrive(e, p) == clock = 0 /\ Enqueue(e, e, p) /\ UNCHANGED <<crashes, dropped>>

RecoverNow == Recover(clock) /\ UNCHANGED <<crashes, dropped>>

LiveInit == Init /\ crashes = 0 /\ dropped = [e \in Events |-> 0]

LiveNext ==
    \/ PromptTick
    \/ \E e \in Events, p \in Payloads : Arrive(e, p)
    \/ RecoverNow
    \/ \E w \in Workers : Pass(w) \/ Crash(w)

(***************************************************************************)
(* Time passes, and each worker is called again and again.  No fairness is *)
(* asked of crashes, of arrivals, of the operator's recovery, or of the    *)
(* transport (a send may fail every time).                                 *)
(***************************************************************************)
LiveSpec ==
    /\ LiveInit
    /\ [][LiveNext]_liveVars
    /\ WF_liveVars(PromptTick)
    /\ \A w \in Workers : WF_liveVars(Pass(w))

\* Every event that entered the outbox is in the end SENT or DEAD_LETTER:
\* leases abandoned by a crash are reclaimed by run_once alone, retries are
\* not postponed for ever, attempts are exhausted at last, and one event
\* whose backoff overflows in every pass cannot hold up the others.
EventuallySettled ==
    \A e \in Events :
        Exists(e) ~> (Exists(e) /\ outbox[e].status \in {"SENT", "DEAD_LETTER"})

\* What the clean passes use is bounded by max_attempts: a crash costs an
\* event at most one attempt more, and so does each overflow in front of it.
AttemptsPerCrash ==
    \A e \in Events :
        Exists(e) => outbox[e].attempt_count <= MaxAttempts + crashes + dropped[e]

----------------------------------------------------------------------------
(***************************************************************************)
(* What AttemptsPerCrash rests on.                                         *)
(***************************************************************************)
\* The lease of a running pass has not run out.
PromptInv ==
    \A w \in Workers :
        pc[w] # "idle" => current[w] <= clock /\ clock < current[w] + LeaseSeconds

\* And so nobody else has taken its rows.
HoldInv ==
    \A w \in Workers : \A r \in batch[w] :
        outbox[r.event_id].lease_token = token[w]

InHand(e) == \E w \in Workers : \E r \in batch[w] : r.event_id = e

\* A row that the next claim may take has an attempt to spare: it was marked
\* before its attempts were exhausted, or a crash or an overflow took it out
\* of the hands of a worker, and the bound of AttemptsPerCrash grew by one.
SpareInv ==
    \A e \in Events :
        /\ Exists(e)
        /\ outbox[e].status \notin {"SENT", "DEAD_LETTER"}
        /\ ~InHand(e)
        => outbox[e].attempt_count < MaxAttempts + crashes + dropped[e]

ProgressInv ==
    /\ InductiveInv
    /\ crashes \in Nat
    /\ dropped \in [Events -> Nat]
    /\ PromptInv
    /\ HoldInv
    /\ SpareInv
    /\ AttemptsPerCrash
=============================================================================
