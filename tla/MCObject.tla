------------------------------- MODULE MCObject -------------------------------
(* Small instances of Object. *)
EXTENDS Object, TLC

CONSTANT l1

\* One program is about the tree and the loops, one about event filters.
SomePrograms ==
    {[ops |-> {"set_parent", "post_event", "remove_pending_events", "delete_later",
               "move_to_loop", "exec"},
      loops |-> Loops, events |-> 2],
     [ops |-> {"filters", "post_event", "delete_later", "exec"},
      loops |-> {l1}, events |-> 1]}

Symmetry == Permutations(Objects)
=============================================================================
