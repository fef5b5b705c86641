------------------------ MODULE LeasedDispatchProofs ------------------------
(***************************************************************************)
(* Theorems about LeasedDispatch, for any number of threads, messages,     *)
(* events, tokens and seconds.                                             *)
(***************************************************************************)
EXTENDS LeasedDispatch, TLAPS

\* What the assumptions on the constants say.
LEMMA Constants ==
    /\ KeyOf \in [Bodies -> Keys]
    /\ EventOf \in [Bodies -> Events]
    /\ LeaseSeconds \in Nat \ {0}
    /\ MaxTime \in Nat
    /\ MaxTokens \in Nat
    /\ NULL \notin OutboxMessage
    /\ NULL \notin OutboxLease
BY DispatchAssumption, NullAssumption

LEMMA StoredType ==
    ASSUME TypeOK, NEW i \in DOMAIN messages
    PROVE  /\ messages[i] \in OutboxMessage
           /\ messages[i].body \in Bodies
           /\ EventOf[messages[i].body] \in Events
<1>1. messages \in Seq(OutboxMessage)
    BY DEF TypeOK
<1>2. messages[i] \in OutboxMessage
    BY <1>1
<1>3. messages[i].body \in Bodies
    BY <1>2 DEF OutboxMessage
<1> QED
    BY <1>2, <1>3, Constants

\* enqueue, the only step that lengthens the list.
LEMMA EnqueueType ==
    ASSUME TypeOK, NEW b \in Bodies, Enqueue(b)
    PROVE  TypeOK'
<1>1. Pending(b) \in OutboxMessage
    BY DEF Pending, OutboxMessage
<1>a. messages \in Seq(OutboxMessage)
    BY DEF TypeOK
<1>b. messages' = messages \/ messages' = Append(messages, Pending(b))
    BY DEF Enqueue
<1>2. messages' \in Seq(OutboxMessage)
    BY <1>1, <1>a, <1>b
<1>3. answer' \in [body : Bodies, outcome : Answers]
    BY DEF TypeOK, Enqueue, Answers
<1> QED
    BY <1>2, <1>3 DEF TypeOK, Enqueue, threadVars

\* mark_delivered keeps the list as long as it is.
LEMMA DeliverType ==
    ASSUME TypeOK, NEW i \in DOMAIN messages, NEW e \in Events, Deliver(i, e)
    PROVE  /\ messages' \in Seq(OutboxMessage)
           /\ DOMAIN messages' = DOMAIN messages
           /\ messages'[i] = Delivered(messages[i].body)
           /\ \A j \in DOMAIN messages : j # i => messages'[j] = messages[j]
           /\ leases' \in [Events -> OutboxLease \cup {NULL}]
<1>1. Delivered(messages[i].body) \in OutboxMessage
    BY StoredType DEF OutboxMessage, Delivered
<1>2. messages' = [messages EXCEPT ![i] = Delivered(messages[i].body)]
    BY DEF Deliver
<1>a. messages \in Seq(OutboxMessage)
    BY DEF TypeOK
<1>3. messages' \in Seq(OutboxMessage)
    BY <1>1, <1>2, <1>a
<1>4. /\ DOMAIN messages' = DOMAIN messages
      /\ messages'[i] = Delivered(messages[i].body)
      /\ \A j \in DOMAIN messages : j # i => messages'[j] = messages[j]
    BY <1>2 DEF TypeOK
<1>5. leases' \in [Events -> OutboxLease \cup {NULL}]
    BY DEF TypeOK, Deliver
<1> QED
    BY <1>3, <1>4, <1>5

LEMMA ThreadType ==
    ASSUME TypeOK, PhaseInv, NEW t \in Threads, Thread(t)
    PROVE  TypeOK'
<1> USE Constants
<1>1. ASSUME NEW i \in DOMAIN messages, Get(t, i) PROVE TypeOK'
    BY <1>1 DEF TypeOK, Get
<1>2. ASSUME NEW e \in Events, AcquireCall(t, e) PROVE TypeOK'
  <2>1. clock + LeaseSeconds \in Nat /\ sequence + 1 \in Nat
    BY DEF TypeOK
  <2>2. candidate'[t] \in OutboxLease
    BY <1>2, <2>1 DEF TypeOK, AcquireCall, OutboxLease
  <2> QED
    BY <1>2, <2>1, <2>2 DEF TypeOK, AcquireCall
<1>3. CASE AcquireLease(t)
    BY <1>3 DEF TypeOK, PhaseInv, AcquireLease, AcquireReturn, OutboxLease
<1>4. CASE AcquireRefused(t)
    BY <1>4 DEF TypeOK, AcquireRefused, AcquireReturn
<1>5. CASE ReleaseLease(t)
    BY <1>5 DEF TypeOK, ReleaseLease, threadVars
<1>6. CASE Dispatch(t)
    BY <1>6 DEF TypeOK, Dispatch
<1>7. CASE SendSucceeds(t)
    BY <1>7 DEF TypeOK, PhaseInv, SendSucceeds, OutboxMessage
<1>8. CASE SendFails(t)
    BY <1>8 DEF TypeOK, SendFails
<1>9. CASE MarkDelivered(t)
  <2>1. lease[t].event_id \in Events
    BY <1>9 DEF TypeOK, PhaseInv, MarkDelivered, OutboxLease
  <2>2. messages' \in Seq(OutboxMessage) /\ leases' \in [Events -> OutboxLease \cup {NULL}]
    BY <1>9, <2>1, DeliverType DEF TypeOK, MarkDelivered, OfEvent
  <2> QED
    BY <1>9, <2>2 DEF TypeOK, MarkDelivered
<1> QED
    BY <1>1, <1>2, <1>3, <1>4, <1>5, <1>6, <1>7, <1>8, <1>9 DEF Thread

\* Tokens are drawn once, under the lock.
LEMMA ThreadTokens ==
    ASSUME TypeOK, TypeOK', PhaseInv, TokenInv, NEW t \in Threads, Thread(t)
    PROVE  TokenInv'
<1> USE Constants
<1>1. ASSUME NEW i \in DOMAIN messages, Get(t, i) PROVE TokenInv'
    BY <1>1 DEF TokenInv, Get
<1>2. ASSUME NEW e \in Events, AcquireCall(t, e) PROVE TokenInv'
  <2>1. /\ candidate'[t].lease_token = sequence + 1
        /\ candidate'[t].acquired_at = clock
        /\ sequence' = sequence + 1 /\ clock' = clock /\ lease' = lease
        /\ \A u \in Threads \ {t} : candidate'[u] = candidate[u]
    BY <1>2 DEF TypeOK, AcquireCall
  <2>2. \A u \in Threads :
          /\ lease[u] # NULL => lease[u].lease_token \in Nat
          /\ candidate[u] # NULL => candidate[u].lease_token \in Nat
    BY DEF TypeOK, OutboxLease
  <2>3. sequence \in Nat /\ clock \in Nat
    BY DEF TypeOK
  <2>4. ASSUME NEW u \in Threads
        PROVE  /\ lease'[u] # NULL => lease'[u].lease_token <= sequence'
               /\ candidate'[u] # NULL => /\ candidate'[u].lease_token <= sequence'
                                          /\ candidate'[u].acquired_at <= clock'
    BY <2>1, <2>2, <2>3 DEF TokenInv
  <2>5. ASSUME NEW u \in Threads, NEW v \in Threads
        PROVE  /\ lease'[u] # NULL /\ candidate'[v] # NULL =>
                     lease'[u].lease_token # candidate'[v].lease_token
               /\ u # v /\ lease'[u] # NULL /\ lease'[v] # NULL =>
                     lease'[u].lease_token # lease'[v].lease_token
               /\ u # v /\ candidate'[u] # NULL /\ candidate'[v] # NULL =>
                     candidate'[u].lease_token # candidate'[v].lease_token
    BY <2>1, <2>2, <2>3 DEF TokenInv
  <2> QED
    BY <2>4, <2>5 DEF TokenInv
<1>3. CASE AcquireLease(t)
  <2>1. /\ lease'[t] = candidate[t] /\ candidate'[t] = NULL /\ candidate[t] # NULL
        /\ sequence' = sequence /\ clock' = clock
        /\ \A u \in Threads \ {t} : lease'[u] = lease[u] /\ candidate'[u] = candidate[u]
    BY <1>3 DEF TypeOK, PhaseInv, AcquireLease, AcquireReturn
  <2> QED
    BY <2>1 DEF TokenInv
<1>4. CASE AcquireRefused(t)
  <2>1. /\ candidate'[t] = NULL /\ lease' = lease
        /\ sequence' = sequence /\ clock' = clock
        /\ \A u \in Threads \ {t} : candidate'[u] = candidate[u]
    BY <1>4 DEF TypeOK, AcquireRefused, AcquireReturn
  <2> QED
    BY <2>1 DEF TokenInv
<1>5. CASE ReleaseLease(t)
    BY <1>5 DEF TokenInv, ReleaseLease, threadVars
<1>6. CASE Dispatch(t)
    BY <1>6 DEF TokenInv, Dispatch
<1>7. CASE SendSucceeds(t)
    BY <1>7 DEF TokenInv, SendSucceeds
<1>8. CASE SendFails(t)
    BY <1>8 DEF TokenInv, SendFails
<1>9. CASE MarkDelivered(t)
    BY <1>9 DEF TokenInv, MarkDelivered
<1> QED
    BY <1>1, <1>2, <1>3, <1>4, <1>5, <1>6, <1>7, <1>8, <1>9 DEF Thread

\* A dispatch goes on with the lease and the message it began with.
LEMMA ThreadPhases ==
    ASSUME TypeOK, PhaseInv, NEW t \in Threads, Thread(t)
    PROVE  PhaseInv'
<1> USE Constants
<1>1. ASSUME NEW i \in DOMAIN messages, Get(t, i) PROVE PhaseInv'
    BY <1>1 DEF TypeOK, PhaseInv, Get
<1>2. ASSUME NEW e \in Events, AcquireCall(t, e) PROVE PhaseInv'
  <2>1. candidate'[t] \in OutboxLease
    BY <1>2 DEF TypeOK, AcquireCall, OutboxLease
  <2> QED
    BY <1>2, <2>1 DEF TypeOK, PhaseInv, AcquireCall
<1>3. CASE AcquireLease(t)
    BY <1>3 DEF TypeOK, PhaseInv, AcquireLease, AcquireReturn
<1>4. CASE AcquireRefused(t)
    BY <1>4 DEF TypeOK, PhaseInv, AcquireRefused, AcquireReturn
<1>5. CASE ReleaseLease(t)
    BY <1>5 DEF PhaseInv, ReleaseLease, threadVars
<1>6. CASE Dispatch(t)
    BY <1>6 DEF TypeOK, PhaseInv, Dispatch
<1>7. CASE SendSucceeds(t)
    BY <1>7 DEF TypeOK, PhaseInv, SendSucceeds
<1>8. CASE SendFails(t)
    BY <1>8 DEF TypeOK, PhaseInv, SendFails
<1>9. CASE MarkDelivered(t)
    BY <1>9 DEF TypeOK, PhaseInv, MarkDelivered
<1> QED
    BY <1>1, <1>2, <1>3, <1>4, <1>5, <1>6, <1>7, <1>8, <1>9 DEF Thread

\* How a step may change the stored messages: not at all, by a new PENDING
\* one under a new key, or by a delivery.
LEMMA MessageChanges ==
    ASSUME TypeOK, PhaseInv, Next
    PROVE  \/ messages' = messages
           \/ \E b \in Bodies :
                 /\ messages' = Append(messages, Pending(b))
                 /\ StoredUnder(KeyOf[b]) = {}
           \/ \E t \in Threads, i \in DOMAIN messages :
                 /\ phase[t] = "mark" /\ phase'[t] = "ready"
                 /\ Owns(t, EventOf[messages[i].body])
                 /\ EventOf[messages[i].body] = EventOf[request[t].body]
                 /\ request[t].body \in accepted
                 /\ messages[i].status = "PENDING"
                 /\ Deliver(i, EventOf[messages[i].body])
<1> USE Constants
<1>1. CASE Tick
    BY <1>1 DEF Tick
<1>2. ASSUME NEW b \in Bodies, Enqueue(b)
      PROVE  \/ messages' = messages
             \/ /\ messages' = Append(messages, Pending(b))
                /\ StoredUnder(KeyOf[b]) = {}
    BY <1>2 DEF Enqueue
<1>3. ASSUME NEW t \in Threads, Thread(t)
      PROVE  \/ messages' = messages
             \/ \E i \in DOMAIN messages :
                   /\ phase[t] = "mark" /\ phase'[t] = "ready"
                   /\ Owns(t, EventOf[messages[i].body])
                   /\ EventOf[messages[i].body] = EventOf[request[t].body]
                   /\ request[t].body \in accepted
                   /\ messages[i].status = "PENDING"
                   /\ Deliver(i, EventOf[messages[i].body])
  <2>1. CASE MarkDelivered(t)
    <3>1. phase[t] = "mark" /\ phase'[t] = "ready"
      BY <2>1 DEF TypeOK, MarkDelivered
    <3>2. /\ lease[t].event_id = EventOf[request[t].body]
          /\ request[t].body \in accepted
      BY <3>1 DEF PhaseInv
    <3> QED
      BY <2>1, <3>1, <3>2 DEF MarkDelivered, OfEvent
  <2>2. CASE ~MarkDelivered(t)
    BY <1>3, <2>2 DEF Thread, Get, AcquireCall, AcquireLease, AcquireRefused,
                      AcquireReturn, ReleaseLease, Dispatch, SendSucceeds, SendFails
  <2> QED
    BY <2>1, <2>2
<1> QED
    BY <1>1, <1>2, <1>3 DEF Next

LEMMA AcceptedGrows ==
    ASSUME TypeOK, Next
    PROVE  accepted \subseteq accepted'
BY DEF Next, Tick, Enqueue, Thread, Get, AcquireCall, AcquireLease,
       AcquireRefused, AcquireReturn, ReleaseLease, Dispatch, SendSucceeds,
       SendFails, MarkDelivered

\* A delivery changes only the status of one message.
LEMMA DeliverBodies ==
    ASSUME TypeOK, NEW i \in DOMAIN messages, NEW e \in Events, Deliver(i, e)
    PROVE  \A j \in DOMAIN messages' :
              /\ j \in DOMAIN messages
              /\ messages'[j].body = messages[j].body
              /\ j # i => messages'[j] = messages[j]
<1>1. Delivered(messages[i].body).body = messages[i].body
    BY DEF Delivered
<1> QED
    BY <1>1, DeliverType

LEMMA StepDelivered ==
    ASSUME TypeOK, PhaseInv, DeliveredWasAccepted, Next
    PROVE  DeliveredWasAccepted'
<1> USE Constants
<1>1. CASE messages' = messages
    BY <1>1, AcceptedGrows DEF DeliveredWasAccepted
<1>2. ASSUME NEW b \in Bodies, messages' = Append(messages, Pending(b))
      PROVE  DeliveredWasAccepted'
  <2>1. \A i \in DOMAIN messages' :
           \/ i \in DOMAIN messages /\ messages'[i] = messages[i]
           \/ messages'[i] = Pending(b)
    BY <1>2 DEF TypeOK
  <2> QED
    BY <2>1, AcceptedGrows DEF DeliveredWasAccepted, Pending
<1>3. ASSUME NEW t \in Threads, NEW i \in DOMAIN messages,
             EventOf[messages[i].body] = EventOf[request[t].body],
             request[t].body \in accepted,
             Deliver(i, EventOf[messages[i].body])
      PROVE  DeliveredWasAccepted'
  <2>1. EventOf[messages[i].body] \in Events
    BY StoredType
  <2> QED
    BY <1>3, <2>1, DeliverBodies, AcceptedGrows DEF DeliveredWasAccepted
<1> QED
    BY <1>1, <1>2, <1>3, MessageChanges

LEMMA StepKeys ==
    ASSUME TypeOK, PhaseInv, KeysUnique, Next
    PROVE  KeysUnique'
<1> USE Constants
<1>1. CASE messages' = messages
    BY <1>1 DEF KeysUnique
<1>2. ASSUME NEW b \in Bodies, messages' = Append(messages, Pending(b)),
             StoredUnder(KeyOf[b]) = {}
      PROVE  KeysUnique'
  <2>1. \A i \in DOMAIN messages' :
           \/ i \in DOMAIN messages /\ messages'[i] = messages[i]
           \/ i = Len(messages) + 1 /\ messages'[i].body = b
    BY <1>2 DEF TypeOK, Pending
  <2>2. \A i \in DOMAIN messages : KeyOf[messages[i].body] # KeyOf[b]
    BY <1>2 DEF StoredUnder
  <2> QED
    BY <2>1, <2>2 DEF KeysUnique
<1>3. ASSUME NEW i \in DOMAIN messages, Deliver(i, EventOf[messages[i].body])
      PROVE  KeysUnique'
  <2>1. EventOf[messages[i].body] \in Events
    BY StoredType
  <2> QED
    BY <1>3, <2>1, DeliverBodies DEF KeysUnique
<1> QED
    BY <1>1, <1>2, <1>3, MessageChanges

\* Every step keeps the invariant.
LEMMA InvStep ==
    ASSUME DispatchInv, [Next]_vars
    PROVE  DispatchInv'
<1> USE Constants
<1>1. CASE UNCHANGED vars
    BY <1>1 DEF DispatchInv, TypeOK, TokenInv, PhaseInv, DeliveredWasAccepted,
                KeysUnique, vars, threadVars
<1>2. CASE Next
  <2>1. TypeOK' /\ TokenInv' /\ PhaseInv'
    <3>1. CASE Tick
      <4>1. TypeOK'
        BY <3>1 DEF DispatchInv, TypeOK, Tick, threadVars
      <4>2. TokenInv'
        BY <3>1 DEF DispatchInv, TypeOK, TokenInv, Tick, threadVars, OutboxLease
      <4>3. PhaseInv'
        BY <3>1 DEF DispatchInv, PhaseInv, Tick, threadVars
      <4> QED
        BY <4>1, <4>2, <4>3
    <3>2. ASSUME NEW b \in Bodies, Enqueue(b)
          PROVE  TypeOK' /\ TokenInv' /\ PhaseInv'
      BY <3>2, EnqueueType DEF DispatchInv, TokenInv, PhaseInv, Enqueue, threadVars
    <3>3. ASSUME NEW t \in Threads, Thread(t)
          PROVE  TypeOK' /\ TokenInv' /\ PhaseInv'
      BY <3>3, ThreadType, ThreadTokens, ThreadPhases DEF DispatchInv
    <3> QED
      BY <1>2, <3>1, <3>2, <3>3 DEF Next
  <2> QED
    BY <1>2, <2>1, StepDelivered, StepKeys DEF DispatchInv
<1> QED
    BY <1>1, <1>2

\* The inductive invariant holds in every state.
THEOREM DispatchInvHolds == Spec => []DispatchInv
<1>1. Init => DispatchInv
    BY Constants DEF Init, DispatchInv, TypeOK, TokenInv, PhaseInv,
       DeliveredWasAccepted, KeysUnique, Answers
<1> QED
    BY <1>1, InvStep, PTL DEF Spec

\* in_memory_outbox: the stored messages, leases and locals keep their types.
THEOREM DispatchTypes == Spec => []TypeOK
BY DispatchInvHolds, PTL DEF DispatchInv

\* acquire_lease: one thread at most owns an event, whatever owner ids the
\* threads use.
THEOREM OwnerAlwaysSole == Spec => []SoleOwner
<1>1. DispatchInv => SoleOwner
    BY DEF DispatchInv, TokenInv, SoleOwner, Owns
<1> QED
    BY <1>1, DispatchInvHolds, PTL

\* mark_delivered: no delivery is recorded without a successful send.
THEOREM DeliveredAlwaysAccepted == Spec => []DeliveredWasAccepted
BY DispatchInvHolds, PTL DEF DispatchInv

\* enqueue: no key has two messages.
THEOREM KeysAlwaysUnique == Spec => []KeysUnique
BY DispatchInvHolds, PTL DEF DispatchInv

\* mark_delivered: only the exact lease of the sending thread delivers.
THEOREM AlwaysDeliveredByOwner == Spec => DeliveredByOwner
<1>1. DispatchInv /\ [Next]_vars => [DeliveredByOwnerStep]_vars
  <2> SUFFICES ASSUME DispatchInv, Next PROVE DeliveredByOwnerStep
    OBVIOUS
  <2>1. TypeOK /\ PhaseInv
    BY DEF DispatchInv
  <2>2. CASE messages' = messages
    BY <2>2 DEF DeliveredByOwnerStep
  <2>3. ASSUME NEW b \in Bodies, messages' = Append(messages, Pending(b))
        PROVE  DeliveredByOwnerStep
    <3>1. \A i \in DOMAIN messages : messages'[i] = messages[i]
      BY <2>1, <2>3 DEF TypeOK
    <3> QED
      BY <3>1 DEF DeliveredByOwnerStep
  <2>4. ASSUME NEW t \in Threads, NEW i \in DOMAIN messages,
               phase[t] = "mark", phase'[t] = "ready",
               Owns(t, EventOf[messages[i].body]),
               messages[i].status = "PENDING",
               Deliver(i, EventOf[messages[i].body])
        PROVE  DeliveredByOwnerStep
    <3>1. EventOf[messages[i].body] \in Events
      BY <2>1, StoredType
    <3>2. \A j \in DOMAIN messages : j # i => messages'[j] = messages[j]
      BY <2>1, <2>4, <3>1, DeliverType
    <3> QED
      BY <2>4, <3>2 DEF DeliveredByOwnerStep, Owns, HasLease
  <2> QED
    BY <2>1, <2>2, <2>3, <2>4, MessageChanges
<1> QED
    BY <1>1, DispatchInvHolds, PTL DEF Spec, DeliveredByOwner

\* acquire_lease: a running lease is never taken over.
THEOREM RunningLeaseAlwaysKept == Spec => RunningLeaseKept
<1>1. DispatchInv /\ [Next]_vars => [RunningLeaseKeptStep]_vars
  <2> SUFFICES ASSUME DispatchInv, Next,
                      NEW e \in Events,
                      leases[e] # NULL, leases[e].expires_at > clock,
                      leases'[e] # leases[e]
               PROVE  /\ leases'[e] = NULL
                      /\ \E t \in Threads :
                            HasLease(t, e) /\ (ReleaseLease(t) \/ MarkDelivered(t))
    BY DEF RunningLeaseKeptStep
  <2>0. TypeOK /\ TokenInv /\ PhaseInv
    BY DEF DispatchInv
  <2>1. PICK t \in Threads : Thread(t)
    BY DEF Next, Tick, Enqueue
  <2>2. CASE AcquireLease(t)
    <3>1. candidate[t] # NULL /\ candidate[t] \in OutboxLease
      BY <2>0, <2>2 DEF PhaseInv, TypeOK, AcquireLease
    <3>2. e = candidate[t].event_id
      BY <2>0, <2>2 DEF TypeOK, AcquireLease
    <3>3. candidate[t].acquired_at >= leases[e].expires_at
      BY <2>2, <3>2 DEF AcquireLease, Free
    <3>4. candidate[t].acquired_at <= clock
      BY <2>0, <3>1 DEF TokenInv
    <3>5. leases[e] \in OutboxLease
      BY <2>0 DEF TypeOK
    <3> QED
      BY <2>0, <3>1, <3>3, <3>4, <3>5 DEF TypeOK, OutboxLease
  <2>3. CASE ReleaseLease(t)
    BY <2>0, <2>3 DEF TypeOK, ReleaseLease, Owns, HasLease
  <2>4. CASE MarkDelivered(t)
    <3>1. Owns(t, lease[t].event_id) /\ leases' = [leases EXCEPT ![lease[t].event_id] = NULL]
      BY <2>4 DEF MarkDelivered, Deliver
    <3> QED
      BY <2>0, <2>4, <3>1 DEF TypeOK, Owns, HasLease
  <2>5. CASE ~(AcquireLease(t) \/ ReleaseLease(t) \/ MarkDelivered(t))
    BY <2>1, <2>5 DEF Thread, Get, AcquireCall, AcquireRefused, AcquireReturn,
                      Dispatch, SendSucceeds, SendFails
  <2> QED
    BY <2>2, <2>3, <2>4, <2>5
<1> QED
    BY <1>1, DispatchInvHolds, PTL DEF Spec, RunningLeaseKept
=============================================================================
