------------------------------ MODULE MCEventLoop ------------------------------
(* Small instances of EventLoop. *)
EXTENDS EventLoop, TLC

Symmetry == Permutations(Tasks)
=============================================================================
