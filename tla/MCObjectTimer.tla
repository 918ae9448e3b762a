----------------------------- MODULE MCObjectTimer -----------------------------
(* Small instances of ObjectTimer. *)
EXTENDS ObjectTimer
=============================================================================
