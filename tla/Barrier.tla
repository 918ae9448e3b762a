-------------------------------- MODULE Barrier --------------------------------
(***************************************************************************)
(* Barrier of thread/barrier.hpp, used by its mNumThreads participants for *)
(* any number of phases.  A critical section of mMutex is one step.        *)
(***************************************************************************)
EXTENDS Integers, FiniteSets

CONSTANTS Threads,    \* the participants
          PhaseMod,   \* mPhase is a size_t: it wraps at this value
          MaxRounds   \* bound on the arrivals of a thread

VARIABLES mNumThreads, mCount, mPhase,
          state,      \* a thread is "out", waits "asleep" or "awake", or is "gone" (dropped)
          phase,      \* its local current_phase
          arrived     \* history: how often it has arrived

vars == <<mNumThreads, mCount, mPhase, state, phase, arrived>>

Init ==
    /\ mNumThreads = Cardinality(Threads)
    /\ mCount = Cardinality(Threads)
    /\ mPhase = 0
    /\ state = [t \in Threads |-> "out"]
    /\ phase = [t \in Threads |-> 0]
    /\ arrived = [t \in Threads |-> 0]

Waiting(t) == state[t] \in {"asleep", "awake"}

\* ++mPhase
NextPhase == IF mPhase + 1 = PhaseMod THEN 0 ELSE mPhase + 1

\* mCv.notify_all() with t moved to state s
NotifyAll(t, s) ==
    state' = [u \in Threads |-> IF u = t THEN s ELSE IF state[u] = "asleep" THEN "awake" ELSE state[u]]

\* The last thread resets the counter to n, advances the phase and wakes the others.
Open(t, s, n) ==
    /\ mCount' = n
    /\ mPhase' = NextPhase
    /\ NotifyAll(t, s)

ArriveAndWait(t) ==
    /\ state[t] = "out" /\ arrived[t] < MaxRounds
    /\ arrived' = [arrived EXCEPT ![t] = @ + 1]
    /\ IF mCount = 1
       THEN Open(t, "out", mNumThreads) /\ UNCHANGED phase
       ELSE /\ mCount' = mCount - 1
            /\ state' = [state EXCEPT ![t] = "asleep"]
            /\ phase' = [phase EXCEPT ![t] = mPhase]
            /\ UNCHANGED mPhase
    /\ UNCHANGED mNumThreads

\* mutant: the thread leaves without arriving for the current phase.
DropKeepsCount(t) ==
    /\ state[t] = "out"
    /\ mNumThreads' = mNumThreads - 1
    /\ state' = [state EXCEPT ![t] = "gone"]
    /\ UNCHANGED <<mCount, mPhase, phase, arrived>>

ArriveAndDrop(t) ==
    /\ state[t] = "out"
    /\ mNumThreads' = mNumThreads - 1
    /\ IF mCount = 1
       THEN Open(t, "gone", mNumThreads - 1)
       ELSE /\ mCount' = mCount - 1
            /\ state' = [state EXCEPT ![t] = "gone"]
            /\ UNCHANGED mPhase
    /\ UNCHANGED <<phase, arrived>>

\* A woken thread tests the predicate of wait().
Resume(t) ==
    /\ state[t] = "awake"
    /\ state' = [state EXCEPT ![t] = IF mPhase # phase[t] THEN "out" ELSE "asleep"]
    /\ UNCHANGED <<mNumThreads, mCount, mPhase, phase, arrived>>

Spurious(t) ==
    /\ state[t] = "asleep"
    /\ state' = [state EXCEPT ![t] = "awake"]
    /\ UNCHANGED <<mNumThreads, mCount, mPhase, phase, arrived>>

Next == \E t \in Threads : ArriveAndWait(t) \/ ArriveAndDrop(t) \/ Resume(t) \/ Spurious(t)

Spec == Init /\ [][Next]_vars

(***************************************************************************)
(* Properties.                                                             *)
(***************************************************************************)
\* How many phases t has left behind.
Passed(t) == IF Waiting(t) THEN arrived[t] - 1 ELSE arrived[t]

Members == {t \in Threads : state[t] # "gone"}

\* No thread passes its r-th phase before every participant has arrived for it or
\* dropped out, although threads run ahead into the next phase while others still wake up,
\* and although mPhase wraps.  And whoever sleeps has somebody to wait for.
BarrierHolds ==
    /\ \A t \in Threads, u \in Members : Passed(t) <= arrived[u]
    /\ \A t \in Threads : state[t] = "asleep" => \E u \in Members : arrived[u] < arrived[t]
=============================================================================
