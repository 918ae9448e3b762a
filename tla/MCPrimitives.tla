----------------------------- MODULE MCPrimitives -----------------------------
(***************************************************************************)
(* Small instances of SharedBuffer, Semaphore, Barrier and                 *)
(* QueuedConnection: a behaviour is one of one of them.                    *)
(***************************************************************************)
EXTENDS SharedBuffer, TLC

CONSTANTS Threads, Amounts, Initial, MaxCount, PhaseMod, MaxRounds,
          Emitters, Callers, MaxEmits

VARIABLES machine,
          permits, sleeper, want, timed,
          mNumThreads, mCount, mPhase, member, phase, arrived,
          queue, loop, running, connected, receiver, emitter, emits, caller, box

semaphoreVars == <<permits, sleeper, want, timed>>
barrierVars == <<mNumThreads, mCount, mPhase, member, phase, arrived>>
queuedVars == <<queue, loop, running, connected, receiver, emitter, emits, caller, box>>

S == INSTANCE Semaphore WITH mCount <- permits, state <- sleeper
B == INSTANCE Barrier WITH state <- member
Q == INSTANCE QueuedConnection

MCInit ==
    /\ Init /\ S!Init /\ B!Init /\ Q!Init
    /\ machine \in {"buffer", "semaphore", "barrier", "queued"}
    /\ machine # "buffer" => program = CHOOSE p \in Programs : TRUE

MCNext ==
    /\ \/ machine = "buffer" /\ Next /\ UNCHANGED <<semaphoreVars, barrierVars, queuedVars>>
       \/ machine = "semaphore" /\ S!Next /\ UNCHANGED <<vars, barrierVars, queuedVars>>
       \/ machine = "barrier" /\ B!Next /\ UNCHANGED <<vars, semaphoreVars, queuedVars>>
       \/ machine = "queued" /\ Q!Next /\ UNCHANGED <<vars, semaphoreVars, barrierVars>>
    /\ UNCHANGED machine

MCSpec == MCInit /\ [][MCNext]_<<machine, vars, semaphoreVars, barrierVars, queuedVars>>

\* release() of CountingSemaphore: no thread sleeps over permits that are enough for it.
NoneSleepsOverEnough == S!NoneSleepsOverEnough

\* arrive_and_wait() of Barrier: nobody passes before all have arrived, and whoever sleeps
\* has somebody to wait for.
BarrierHolds == B!BarrierHolds

\* connect_queued(): slots run on live receivers only.
ReceiverSafe == Q!ReceiverSafe

\* call_and_wait(): the box is only used while its caller waits, and the caller is answered.
CallsSafe == Q!CallsSafe

\* What the programs that use shared buffers may call.
SomePrograms ==
    {{"set", "append", "slice", "write"},
     {"set", "copy", "resize", "clear", "destroy"},
     {"reserve", "append", "copy", "move", "swap"}}

Symmetry == Permutations(Handles) \cup Permutations(Blocks)
=============================================================================
