-------------------------- MODULE DecisionIdentity --------------------------
(***************************************************************************)
(* build_signal_id (src/src/tabdeal_signal/decision/identity.py): the      *)
(* logical identity of a signal, which the documents recommend as the      *)
(* idempotency_key of persist.                                             *)
(*                                                                         *)
(* A text is a sequence of atoms, one of which is the separator.  SHA-256  *)
(* is taken to be injective: a digest stands for the text it is made of.   *)
(***************************************************************************)
EXTENDS Sequences

Separator == "|"

Joined(first, rest) == first \o <<Separator>> \o rest

\* Only a SIGNAL has an identity; times are no part of it.
BuildSignalId(signal) ==
    Joined(<<"identity-v1">>,
           Joined(signal.snapshot_id,
                  Joined(signal.config_version,
                         Joined(<<signal.direction>>, signal.reason_code))))
=============================================================================
