---------------------------- MODULE OutboxTable ----------------------------
(***************************************************************************)
(* The two tables of the signal database and the row updates that its SQL  *)
(* statements make (src/src/tabdeal_signal/persistence/sqlite.py).  A      *)
(* table is a function from its primary key to a row, or to NULL when no   *)
(* row has that key.  The column updated_at is written by every statement  *)
(* and read by none: it is left out.                                       *)
(*                                                                         *)
(* Timestamps are natural numbers.  The code stores canonical UTC ISO-8601 *)
(* text and lets SQLite compare it as text.  All the stored values have    *)
(* the offset +00:00 and '+' sorts before '.', so a value without          *)
(* microseconds also sorts first in its second: the order of the text is   *)
(* the order of the instants.                                              *)
(***************************************************************************)
EXTENDS Integers, FiniteSets

CONSTANTS
    Keys,          \* idempotency keys
    Payloads,      \* encoded persistence requests (payload_json)
    Events,        \* event ids, ordered as their text is
    Owners,        \* owner ids a claim may be made under
    Tokens,        \* lease tokens (uuid4 values)
    NULL,          \* SQL NULL, Python None
    LeaseSeconds,  \* lease_seconds of the claims
    BatchSize      \* limit of the claims

VARIABLES
    outbox,        \* table outbox: [Events -> row or NULL]
    clock          \* datetime.now(timezone.utc)

Status == {"PENDING", "PROCESSING", "RETRY", "SENT", "DEAD_LETTER"}

(***************************************************************************)
(* Error texts, abstracted to what distinguishes them: the text of a       *)
(* delivery or payload exception, of a malformed event_id, and the one the *)
(* recovery writes.  The worker's texts are never blank (_error_text       *)
(* always starts with the exception's type name).                          *)
(***************************************************************************)
Errors == {"delivery error", "invalid event_id", "lease expired"}

Time == Nat
OptTime == Nat \cup {NULL}

Row == [idempotency_key : Keys,
        payload_json    : Payloads,
        status          : Status,
        attempt_count   : Nat,
        next_attempt_at : OptTime,
        locked_until    : OptTime,
        last_error      : Errors \cup {NULL},
        sent_at         : OptTime,
        created_at      : Time,
        owner_id        : Owners \cup {NULL},
        lease_token     : Tokens \cup {NULL}]

ASSUME TableAssumption ==
    /\ Events \subseteq Nat
    /\ LeaseSeconds \in Nat \ {0}
    /\ BatchSize \in Nat \ {0}
    /\ NULL \notin Nat
    /\ NULL \notin Owners
    /\ NULL \notin Tokens
    /\ NULL \notin Keys
    /\ NULL \notin Errors
    /\ NULL \notin Row

Exists(e) == outbox[e] # NULL

(***************************************************************************)
(* INSERT INTO outbox: the lifecycle columns take their schema defaults.   *)
(***************************************************************************)
NewRow(key, payload, now) ==
    [idempotency_key |-> key,
     payload_json    |-> payload,
     status          |-> "PENDING",
     attempt_count   |-> 0,
     next_attempt_at |-> NULL,
     locked_until    |-> NULL,
     last_error      |-> NULL,
     sent_at         |-> NULL,
     created_at      |-> now,
     owner_id        |-> NULL,
     lease_token     |-> NULL]

\* Mutant of Eligible: next_attempt_at is not compared.
EligibleEarly(row, now) ==
    \/ row.status \in {"PENDING", "RETRY"}
    \/ row.status = "PROCESSING" /\ row.locked_until <= now

\* Mutant of Eligible: abandoned rows are not reclaimed.
EligibleNoReclaim(row, now) ==
    \/ row.status = "PENDING"
    \/ row.status = "RETRY" /\ row.next_attempt_at <= now

\* Mutant of Eligible: rows are excluded by status instead of included.
EligibleNotSent(row, now) ==
    CASE row.status = "RETRY" -> row.next_attempt_at <= now
      [] row.status = "PROCESSING" -> row.locked_until <= now
      [] OTHER -> row.status # "SENT"

(***************************************************************************)
(* The WHERE clause shared by the SELECT and the UPDATE of a claim.        *)
(***************************************************************************)
Eligible(row, now) ==
    \/ row.status = "PENDING"
    \/ /\ row.status = "RETRY"
       /\ row.next_attempt_at = NULL \/ row.next_attempt_at <= now
    \/ /\ row.status = "PROCESSING"
       /\ row.locked_until # NULL /\ row.locked_until <= now

EligibleEvents(now) == {e \in Events : Exists(e) /\ Eligible(outbox[e], now)}

\* ORDER BY created_at, event_id
Before(e, f) ==
    \/ outbox[e].created_at < outbox[f].created_at
    \/ outbox[e].created_at = outbox[f].created_at /\ e < f

\* ... LIMIT ?
FirstEligible(now) ==
    {e \in EligibleEvents(now) :
        Cardinality({f \in EligibleEvents(now) : Before(f, e)}) < BatchSize}

\* Mutant of ClaimedRow: the attempt is not counted.
ClaimedRowUncounted(row, now, owner, token) ==
    [row EXCEPT !.status       = "PROCESSING",
                !.locked_until = now + LeaseSeconds,
                !.last_error   = NULL,
                !.owner_id     = owner,
                !.lease_token  = token]

\* SET of the claiming UPDATE.
ClaimedRow(row, now, owner, token) ==
    [row EXCEPT !.status        = "PROCESSING",
                !.attempt_count = @ + 1,
                !.locked_until  = now + LeaseSeconds,
                !.last_error    = NULL,
                !.owner_id      = owner,
                !.lease_token   = token]

\* Mutant of LeaseValid: any lease on the row will do.
LeaseValidAnyHolder(row, owner, token, now) ==
    row.status = "PROCESSING" /\ row.locked_until > now

(***************************************************************************)
(* WHERE of the four finalising UPDATEs: the exact lease, not yet expired. *)
(***************************************************************************)
LeaseValid(row, owner, token, now) ==
    /\ row.status = "PROCESSING"
    /\ row.owner_id = owner
    /\ row.lease_token = token
    /\ row.locked_until # NULL /\ row.locked_until > now

SentRow(row, sentAt) ==
    [row EXCEPT !.status          = "SENT",
                !.sent_at         = sentAt,
                !.locked_until    = NULL,
                !.next_attempt_at = NULL,
                !.last_error      = NULL,
                !.owner_id        = NULL,
                !.lease_token     = NULL]

\* Mutant of RetryRow: the lease columns are not cleared.
RetryRowKeepsLease(row, retryAt, error) ==
    [row EXCEPT !.status          = "RETRY",
                !.next_attempt_at = retryAt,
                !.last_error      = error]

RetryRow(row, retryAt, error) ==
    [row EXCEPT !.status          = "RETRY",
                !.next_attempt_at = retryAt,
                !.locked_until    = NULL,
                !.last_error      = error,
                !.owner_id        = NULL,
                !.lease_token     = NULL]

\* mark_outbox_dead_letter and quarantine_outbox_record set the same columns.
DeadLetterRow(row, error) ==
    [row EXCEPT !.status       = "DEAD_LETTER",
                !.locked_until = NULL,
                !.last_error   = error,
                !.owner_id     = NULL,
                !.lease_token  = NULL]

\* Mutant of Expired: every lease counts as expired.
ExpiredAlways(row, now) == row.status = "PROCESSING"

Expired(row, now) ==
    /\ row.status = "PROCESSING"
    /\ row.locked_until # NULL /\ row.locked_until <= now

RecoveredRow(row, now) ==
    [row EXCEPT !.status          = "RETRY",
                !.locked_until    = NULL,
                !.owner_id        = NULL,
                !.lease_token     = NULL,
                !.next_attempt_at = now,
                !.last_error      = IF @ = NULL THEN "lease expired" ELSE @]

----------------------------------------------------------------------------
(***************************************************************************)
(* The conditions on stored rows under which opening the database succeeds *)
(* (_validate_schema_state); RuntimeError otherwise.  The conditions on    *)
(* column types, on the JSON text and on the schema itself are about the   *)
(* representation and are left out.                                        *)
(***************************************************************************)
SentStateValid(row) == (row.status = "SENT") <=> (row.sent_at # NULL)

DeadLetterValid(row) == row.status = "DEAD_LETTER" => row.last_error # NULL

LeaseFieldsValid(row) ==
    IF row.status = "PROCESSING"
    THEN /\ row.owner_id # NULL
         /\ row.lease_token # NULL
         /\ row.locked_until # NULL
    ELSE /\ row.owner_id = NULL
         /\ row.lease_token = NULL
         /\ row.locked_until = NULL

RowValid(row) ==
    /\ row.status \in Status
    /\ row.attempt_count >= 0
    /\ SentStateValid(row)
    /\ DeadLetterValid(row)
    /\ LeaseFieldsValid(row)
=============================================================================
