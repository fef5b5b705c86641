--------------------------- MODULE LeasedDispatch ---------------------------
(***************************************************************************)
(* The reference outbox with leases                                        *)
(* (src/src/tabdeal_signal/persistence/in_memory_outbox.py, reliability.py *)
(* and outbox.py) and dispatch_outbox_message                              *)
(* (src/src/tabdeal_signal/notification/dispatcher.py), used by several    *)
(* threads of one process.                                                 *)
(*                                                                         *)
(* A repository method is one step, under the repository's lock, except    *)
(* acquire_lease, which draws its token before it takes the lock again.    *)
(* dispatch_outbox_message holds no lock: its checks, the send and         *)
(* mark_delivered are separate steps.                                      *)
(***************************************************************************)
EXTENDS Integers, Sequences

CONSTANTS
    Threads,
    Bodies,          \* messages, up to their status
    Keys,            \* idempotency keys
    Events,          \* event ids
    KeyOf,           \* body -> idempotency_key
    EventOf,         \* body -> event_id, not necessarily distinct
    OwnerOf,         \* thread -> owner_id, not necessarily distinct
    LeaseSeconds,    \* expires_at - acquired_at
    NULL,            \* None
    MaxTime,         \* bound on the clock
    MaxTokens        \* bound on the tokens drawn

ASSUME DispatchAssumption ==
    /\ KeyOf \in [Bodies -> Keys]
    /\ EventOf \in [Bodies -> Events]
    /\ LeaseSeconds \in Nat \ {0}
    /\ MaxTime \in Nat
    /\ MaxTokens \in Nat

VARIABLES
    messages,        \* _messages, in insertion order
    leases,          \* _leases: event_id -> lease or NULL
    sequence,        \* _lease_sequence
    clock,
    answer,          \* the last call of enqueue and how it ended
    phase,           \* per thread, where it is
    request,         \* per thread, the message it read, or NULL
    lease,           \* per thread, the lease it was granted last, or NULL
    candidate,       \* per thread, the candidate of acquire_lease, or NULL
    accepted         \* external: bodies for which send reported success

threadVars == <<phase, request, lease, candidate>>
vars == <<messages, leases, sequence, clock, answer, threadVars, accepted>>

OutboxMessage == [body : Bodies, status : {"PENDING", "DELIVERED"}]

OutboxLease == [event_id    : Events,
                lease_token : Nat,
                owner_id    : {OwnerOf[t] : t \in Threads},
                acquired_at : Nat,
                expires_at  : Nat]

ASSUME NullAssumption == NULL \notin OutboxMessage /\ NULL \notin OutboxLease

Answers == {"new", "duplicate", "collision", "none"}

TypeOK ==
    /\ messages \in Seq(OutboxMessage)
    /\ leases \in [Events -> OutboxLease \cup {NULL}]
    /\ sequence \in Nat
    /\ clock \in Nat
    /\ answer \in [body : Bodies, outcome : Answers]
    /\ phase \in [Threads -> {"ready", "acquire", "send", "mark"}]
    /\ request \in [Threads -> OutboxMessage \cup {NULL}]
    /\ lease \in [Threads -> OutboxLease \cup {NULL}]
    /\ candidate \in [Threads -> OutboxLease \cup {NULL}]
    /\ accepted \in SUBSET Bodies

Init ==
    /\ messages = <<>>
    /\ leases = [e \in Events |-> NULL]
    /\ sequence = 0
    /\ clock = 0
    /\ answer \in [body : Bodies, outcome : {"none"}]
    /\ phase = [t \in Threads |-> "ready"]
    /\ request = [t \in Threads |-> NULL]
    /\ lease = [t \in Threads |-> NULL]
    /\ candidate = [t \in Threads |-> NULL]
    /\ accepted = {}

----------------------------------------------------------------------------
Tick ==
    /\ clock < MaxTime
    /\ clock' = clock + 1
    /\ UNCHANGED <<messages, leases, sequence, answer, threadVars, accepted>>

Pending(b) == [body |-> b, status |-> "PENDING"]

Delivered(b) == [body |-> b, status |-> "DELIVERED"]

\* Mutant of StoredUnder: delivered messages are forgotten.
StoredUnderPending(k) ==
    {i \in DOMAIN messages :
        KeyOf[messages[i].body] = k /\ messages[i].status = "PENDING"}

StoredUnder(k) == {i \in DOMAIN messages : KeyOf[messages[i].body] = k}

\* enqueue of a new message with body b: the whole message is compared, its
\* status too.
Enqueue(b) ==
    /\ UNCHANGED <<leases, sequence, clock, threadVars, accepted>>
    /\ \/ /\ StoredUnder(KeyOf[b]) = {}
          /\ messages' = Append(messages, Pending(b))
          /\ answer' = [body |-> b, outcome |-> "new"]
       \/ \E i \in StoredUnder(KeyOf[b]) :
             /\ answer' = [body |-> b,
                           outcome |-> IF messages[i] = Pending(b)
                                       THEN "duplicate" ELSE "collision"]
             /\ UNCHANGED messages

\* The messages of an event; get and mark_delivered take the first.
OfEvent(e) == {i \in DOMAIN messages : EventOf[messages[i].body] = e}

IsFirst(i, e) == i \in OfEvent(e) /\ \A j \in OfEvent(e) : i <= j

\* A thread takes a message to deliver: what get returns for its event, or
\* the message that was enqueued, while it is what is stored.
Get(t, i) ==
    /\ phase[t] = "ready"
    /\ IsFirst(i, EventOf[messages[i].body]) \/ messages[i].status = "PENDING"
    /\ request' = [request EXCEPT ![t] = messages[i]]
    /\ UNCHANGED <<messages, leases, sequence, clock, answer, phase, lease,
                   candidate, accepted>>

\* Mutant of AcquireCall: the sequence is read and not advanced.
AcquireCallNoAdvance(t, e) ==
    /\ phase[t] = "ready"
    /\ sequence < MaxTokens
    /\ candidate' = [candidate EXCEPT ![t] =
                       [event_id    |-> e,
                        lease_token |-> sequence + 1,
                        owner_id    |-> OwnerOf[t],
                        acquired_at |-> clock,
                        expires_at  |-> clock + LeaseSeconds]]
    /\ phase' = [phase EXCEPT ![t] = "acquire"]
    /\ UNCHANGED <<messages, leases, sequence, clock, answer, request, lease, accepted>>

\* acquire_lease up to the lock: the caller read the clock, a token is drawn.
AcquireCall(t, e) ==
    /\ phase[t] = "ready"
    /\ sequence < MaxTokens
    /\ sequence' = sequence + 1
    /\ candidate' = [candidate EXCEPT ![t] =
                       [event_id    |-> e,
                        lease_token |-> sequence + 1,
                        owner_id    |-> OwnerOf[t],
                        acquired_at |-> clock,
                        expires_at  |-> clock + LeaseSeconds]]
    /\ phase' = [phase EXCEPT ![t] = "acquire"]
    /\ UNCHANGED <<messages, leases, clock, answer, request, lease, accepted>>

\* Mutant of Free: an owner may renew its lease.
FreeForOwner(c) ==
    leases[c.event_id] # NULL =>
        \/ c.owner_id = leases[c.event_id].owner_id
        \/ c.acquired_at >= leases[c.event_id].expires_at

\* No lease, or one that had expired when this one was asked for.
Free(c) ==
    leases[c.event_id] # NULL =>
        c.acquired_at >= leases[c.event_id].expires_at

AcquireReturn(t) ==
    /\ phase' = [phase EXCEPT ![t] = "ready"]
    /\ candidate' = [candidate EXCEPT ![t] = NULL]
    /\ UNCHANGED <<messages, sequence, clock, answer, request, accepted>>

AcquireLease(t) ==
    /\ phase[t] = "acquire"
    /\ OfEvent(candidate[t].event_id) # {}
    /\ Free(candidate[t])
    /\ leases' = [leases EXCEPT ![candidate[t].event_id] = candidate[t]]
    /\ lease' = [lease EXCEPT ![t] = candidate[t]]
    /\ AcquireReturn(t)

\* ValueError for an unknown event, None for one that is leased.
AcquireRefused(t) ==
    /\ phase[t] = "acquire"
    /\ OfEvent(candidate[t].event_id) = {} \/ ~Free(candidate[t])
    /\ UNCHANGED <<leases, lease>>
    /\ AcquireReturn(t)

\* Mutant of Owns: the owner is compared, not the token.
OwnsByOwner(t, e) ==
    /\ leases[e] # NULL /\ lease[t] # NULL
    /\ leases[e].owner_id = lease[t].owner_id

Owns(t, e) == leases[e] # NULL /\ leases[e] = lease[t]

\* release_lease: without effect unless the exact lease is the stored one.
ReleaseLease(t) ==
    /\ phase[t] = "ready"
    /\ lease[t] # NULL
    /\ leases' = IF Owns(t, lease[t].event_id)
                 THEN [leases EXCEPT ![lease[t].event_id] = NULL]
                 ELSE leases
    /\ UNCHANGED <<messages, sequence, clock, answer, threadVars, accepted>>

----------------------------------------------------------------------------
(***************************************************************************)
(* dispatch_outbox_message.                                                *)
(***************************************************************************)
IsExpiredAt(l, time) == time >= l.expires_at

\* The checks; reference_time is a reading of the clock since the lease was
\* acquired.  A call that fails a check changes nothing.
Dispatch(t) ==
    /\ phase[t] = "ready"
    /\ request[t] # NULL
    /\ lease[t] # NULL
    /\ lease[t].event_id = EventOf[request[t].body]
    /\ \E time \in lease[t].acquired_at..clock : ~IsExpiredAt(lease[t], time)
    /\ request[t].status = "PENDING"
    /\ phase' = [phase EXCEPT ![t] = "send"]
    /\ UNCHANGED <<messages, leases, sequence, clock, answer, request, lease,
                   candidate, accepted>>

\* send reports DELIVERED or DUPLICATE.
SendSucceeds(t) ==
    /\ phase[t] = "send"
    /\ accepted' = accepted \cup {request[t].body}
    /\ phase' = [phase EXCEPT ![t] = "mark"]
    /\ UNCHANGED <<messages, leases, sequence, clock, answer, request, lease,
                   candidate>>

\* Mutant of SendFails: a RETRYABLE outcome is marked too.
SendFailsMarked(t) ==
    /\ phase[t] = "send"
    /\ phase' = [phase EXCEPT ![t] = "mark"]
    /\ UNCHANGED <<messages, leases, sequence, clock, answer, request, lease,
                   candidate, accepted>>

\* send reports RETRYABLE or BLOCKED, or raises.
SendFails(t) ==
    /\ phase[t] = "send"
    /\ phase' = [phase EXCEPT ![t] = "ready"]
    /\ UNCHANGED <<messages, leases, sequence, clock, answer, request, lease,
                   candidate, accepted>>

Deliver(i, e) ==
    /\ messages' = [messages EXCEPT ![i] = Delivered(messages[i].body)]
    /\ leases' = [leases EXCEPT ![e] = NULL]

\* mark_delivered: ValueError for a lease that is not the stored one,
\* nothing for a message that is DELIVERED already.
MarkDelivered(t) ==
    /\ phase[t] = "mark"
    /\ LET e == lease[t].event_id
       IN  \/ /\ Owns(t, e)
              /\ \E i \in OfEvent(e) :
                    /\ IsFirst(i, e)
                    /\ messages[i].status = "PENDING"
                    /\ Deliver(i, e)
           \/ /\ \/ ~Owns(t, e)
                 \/ \E i \in OfEvent(e) :
                       IsFirst(i, e) /\ messages[i].status = "DELIVERED"
              /\ UNCHANGED <<messages, leases>>
    /\ phase' = [phase EXCEPT ![t] = "ready"]
    /\ UNCHANGED <<sequence, clock, answer, request, lease, candidate, accepted>>

Thread(t) ==
    \/ \E i \in DOMAIN messages : Get(t, i)
    \/ \E e \in Events : AcquireCall(t, e)
    \/ AcquireLease(t)
    \/ AcquireRefused(t)
    \/ ReleaseLease(t)
    \/ Dispatch(t)
    \/ SendSucceeds(t)
    \/ SendFails(t)
    \/ MarkDelivered(t)

Next ==
    \/ Tick
    \/ \E b \in Bodies : Enqueue(b)
    \/ \E t \in Threads : Thread(t)

Spec == Init /\ [][Next]_vars

----------------------------------------------------------------------------
(***************************************************************************)
(* Properties.                                                             *)
(***************************************************************************)
\* Exact ownership: at most one thread can mark or release under the stored
\* lease of an event, even when threads share an owner_id and ask within
\* the same instant.
SoleOwner ==
    \A e \in Events, t, u \in Threads : Owns(t, e) /\ Owns(u, e) => t = u

\* The stored lease of e is the one that thread t was given last.
HasLease(t, e) == lease[t] # NULL /\ leases[e] = lease[t]

RunningLeaseKeptStep ==
    \A e \in Events :
        leases[e] # NULL /\ leases[e].expires_at > clock /\ leases'[e] # leases[e]
        => /\ leases'[e] = NULL
           /\ \E t \in Threads :
                 HasLease(t, e) /\ (ReleaseLease(t) \/ MarkDelivered(t))

\* acquire_lease: a lease that is still running is given up by the thread
\* that has it (release_lease, mark_delivered) and never taken over, also
\* not by a call whose clock reading is old.
RunningLeaseKept == [][RunningLeaseKeptStep]_vars

DeliveredByOwnerStep ==
    \A i \in DOMAIN messages :
        messages'[i] # messages[i] =>
           /\ messages[i].status = "PENDING"
           /\ \E t \in Threads :
                 /\ HasLease(t, EventOf[messages[i].body])
                 /\ phase[t] = "mark" /\ phase'[t] = "ready"

\* A stored message changes in one way only: from PENDING to DELIVERED, by
\* the thread that sent it and still has the exact lease of its event.  A
\* thread whose lease was replaced or released changes nothing.
DeliveredByOwner == [][DeliveredByOwnerStep]_vars

\* A message is DELIVERED only if a send for its event was reported
\* successful: no lease, release or re-acquisition stands in for a send.
DeliveredWasAccepted ==
    \A i \in DOMAIN messages :
        messages[i].status = "DELIVERED" =>
           \E b \in accepted : EventOf[b] = EventOf[messages[i].body]

\* One logical notification per idempotency key.
KeysUnique ==
    \A i, j \in DOMAIN messages :
        KeyOf[messages[i].body] = KeyOf[messages[j].body] => i = j

----------------------------------------------------------------------------
(***************************************************************************)
(* What the documents and the code's own messages say and the code does    *)
(* not do; each of these is refuted by a run.                              *)
(***************************************************************************)
\* "A stale, expired, replaced, mismatched, or otherwise non-owning lease
\* MUST NOT mark an event delivered."
ExpiredCannotMark ==
    [][\A i \in DOMAIN messages :
          messages'[i] # messages[i] =>
             leases[EventOf[messages[i].body]].expires_at > clock]_vars

----------------------------------------------------------------------------
(***************************************************************************)
(* What the properties above rest on: the inductive invariant.             *)
(***************************************************************************)
\* Every lease and every candidate has a token of its own, drawn earlier.
TokenInv ==
    /\ \A t \in Threads :
          /\ lease[t] # NULL => lease[t].lease_token <= sequence
          /\ candidate[t] # NULL => /\ candidate[t].lease_token <= sequence
                                   /\ candidate[t].acquired_at <= clock
    /\ \A t, u \in Threads :
          /\ lease[t] # NULL /\ candidate[u] # NULL =>
                lease[t].lease_token # candidate[u].lease_token
          /\ t # u /\ lease[t] # NULL /\ lease[u] # NULL =>
                lease[t].lease_token # lease[u].lease_token
          /\ t # u /\ candidate[t] # NULL /\ candidate[u] # NULL =>
                candidate[t].lease_token # candidate[u].lease_token

\* A thread in dispatch_outbox_message has a lease of its message's event.
PhaseInv ==
    \A t \in Threads :
        /\ phase[t] = "acquire" => candidate[t] # NULL
        /\ phase[t] \in {"send", "mark"} =>
              /\ request[t] # NULL
              /\ lease[t] # NULL
              /\ lease[t].event_id = EventOf[request[t].body]
        /\ phase[t] = "mark" => request[t].body \in accepted

\* What every step keeps.
DispatchInv ==
    /\ TypeOK
    /\ TokenInv
    /\ PhaseInv
    /\ DeliveredWasAccepted
    /\ KeysUnique
=============================================================================
