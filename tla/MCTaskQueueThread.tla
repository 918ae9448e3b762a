--------------------------- MODULE MCTaskQueueThread ---------------------------
(***************************************************************************)
(* Small instances of TaskQueueThread and of RepeatingTask: a behaviour is *)
(* one of the queue, or one of a repeating task.                           *)
(***************************************************************************)
EXTENDS TaskQueueThread

CONSTANTS RepeatDelays, Forever, RepeatTime

VARIABLES machine, clock, at, mNextRunTime, mAliveFlag, delay, ready

repeatVars == <<clock, at, mNextRunTime, mAliveFlag, delay, ready>>

R == INSTANCE RepeatingTask WITH now <- clock, pc <- at,
                                 Delays <- RepeatDelays, MaxTime <- RepeatTime

MCInit == Init /\ R!Init /\ machine \in {"queue", "repeating task"}

MCNext ==
    \/ machine = "queue" /\ Next /\ UNCHANGED <<machine, repeatVars>>
    \/ machine = "repeating task" /\ R!Next /\ UNCHANGED <<machine, vars>>

MCSpec == MCInit /\ [][MCNext]_<<machine, vars, repeatVars>>
             /\ WF_vars(WorkerStep) /\ WF_vars(Tick) /\ WF_vars(Joined)

\* operator() of a repeating task never calls the closure before the time planned
\* from the first delay and the delays it returned.
NeverBeforePlan == R!NeverBeforePlan
=============================================================================
