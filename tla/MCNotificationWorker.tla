------------------------ MODULE MCNotificationWorker ------------------------
(***************************************************************************)
(* Two workers over a few events.  Tokens and keys are interchangeable.    *)
(***************************************************************************)
EXTENDS NotificationWorker, TLC

Symmetry == Permutations(Tokens) \cup Permutations(Keys) \cup Permutations(Owners)

\* Bounds on the claims of a row, whose number the code does not bound.
CONSTANTS MaxClaims, MaxMalformedClaims

ClaimBound ==
    \A e \in Events : Exists(e) =>
        outbox[e].attempt_count <= IF e \in Malformed THEN MaxMalformedClaims ELSE MaxClaims
=============================================================================
