------------------------------ MODULE TaskChannel ------------------------------
(***************************************************************************)
(* What a task runner promises to those who post to it: tasks run one at a *)
(* time, in the order they were posted, each at most once.  EventLoop and  *)
(* TaskQueueThread are shown to implement it.                              *)
(***************************************************************************)
EXTENDS Sequences, Integers

CONSTANT Tasks

VARIABLES pending, ran

Init == pending = <<>> /\ ran = <<>>

Post(x) == pending' = Append(pending, x) /\ UNCHANGED ran

Run ==
    /\ pending # <<>>
    /\ ran' = Append(ran, Head(pending))
    /\ pending' = Tail(pending)

\* A task is taken back; what remains keeps its order.
Cancel(i) ==
    /\ pending' = [j \in 1..(Len(pending) - 1) |-> IF j < i THEN pending[j] ELSE pending[j + 1]]
    /\ UNCHANGED ran

\* The runner goes away with what is pending.
Discard == pending' = <<>> /\ UNCHANGED ran

Next ==
    \/ \E x \in Tasks : Post(x)
    \/ Run
    \/ \E i \in 1..Len(pending) : Cancel(i)
    \/ Discard

Spec == Init /\ [][Next]_<<pending, ran>>
=============================================================================
