-------------------------- MODULE MCSignalDelivery --------------------------
(***************************************************************************)
(* Two writers and a worker, and requests that meet in every way.  The key *)
(* of a signal is its identity, as the documents recommend.  "a" and "b"   *)
(* share an event_id under different keys; "b" and "c" are different       *)
(* decisions whose identities coincide, because an id of each contains the *)
(* separator; "d" is a blocked decision under the key of "a".              *)
(***************************************************************************)
EXTENDS SignalDelivery, DecisionIdentity, TLC

MCPayloads == {"a", "b", "c", "d"}

Signal(snapshot_id, config_version) ==
    [snapshot_id |-> snapshot_id, config_version |-> config_version,
     direction |-> "LONG", reason_code |-> <<"ENTRY">>]

MCSignals ==
    "a" :> Signal(<<"t">>, <<"c">>) @@
    "b" :> Signal(<<"s">>, <<"c", "|", "c">>) @@
    "c" :> Signal(<<"s", "|", "c">>, <<"c">>)

MCKeyOf ==
    [p \in MCPayloads |-> BuildSignalId(MCSignals[IF p = "d" THEN "a" ELSE p])]

MCKeys == {MCKeyOf[p] : p \in MCPayloads}

MCEventOf == [p \in MCPayloads |-> IF p = "c" THEN 2 ELSE 1]

MCDecisionOf == [p \in MCPayloads |-> IF p = "d" THEN "BLOCKED" ELSE "SIGNAL"]

CONSTANT MaxClaims    \* bound on the claims of a row

ClaimBound ==
    \A e \in Events : outbox[e] # NULL => outbox[e].attempt_count <= MaxClaims

Symmetry == Permutations(Tokens) \cup Permutations(Writers)
=============================================================================
