-------------------------- MODULE MCLeasedDispatch --------------------------
(***************************************************************************)
(* "a" and "b" have one event under two keys; "c" has the key of "a" and   *)
(* another event.                                                          *)
(***************************************************************************)
EXTENDS LeasedDispatch, TLC

MCKeyOf == [m \in Bodies |-> IF m = "b" THEN 2 ELSE 1]

MCEventOf == [m \in Bodies |-> IF m = "c" THEN 2 ELSE 1]

CONSTANT Sharing    \* whether the threads use one owner_id

MCOwnerOf == [t \in Threads |-> IF Sharing THEN "bot" ELSE t]

Symmetry == Permutations(Threads)
=============================================================================
