------------------------------ MODULE MCSignals ------------------------------
(* Small instances of Signals. *)
EXTENDS Signals, TLC

CONSTANTS s1, s2, s3

\* Two slots share a group, the third comes before them.
Groups == (s1 :> 1) @@ (s2 :> 1) @@ (s3 :> 0)

\* Programs that combine the operations whose steps may get in each other's way.
SomePrograms ==
    {[ops |-> {"disconnect", "tracked"}, slots |-> Slots, emissions |-> 2],
     [ops |-> {"disconnect_if"}, slots |-> Slots, emissions |-> 2],
     [ops |-> {"observer", "disconnect_all"}, slots |-> Slots, emissions |-> 2],
     [ops |-> {"block", "disconnect"}, slots |-> {s1, s2}, emissions |-> 2],
     [ops |-> {"move", "disconnect"}, slots |-> {s1, s2}, emissions |-> 2]}

Symmetry == Permutations(Threads) \cup Permutations(Signals)
=============================================================================
