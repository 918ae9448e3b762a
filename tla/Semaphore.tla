------------------------------- MODULE Semaphore -------------------------------
(***************************************************************************)
(* CountingSemaphore of thread/semaphore.hpp.  A critical section of       *)
(* mMutex is one step.  notify_all() makes every sleeper runnable; a       *)
(* condition variable may also wake without cause.                         *)
(***************************************************************************)
EXTENDS Integers

CONSTANTS Threads,
          Amounts,   \* arguments of acquire() and release()
          Initial,   \* the constructor's desired
          MaxCount   \* LeastMaxValue; with Initial, bounds the permits

VARIABLES mCount,
          state,     \* a thread is "out", or waits "asleep" or "awake" (notified)
          want,      \* n of the call it waits in
          timed      \* is it try_acquire() with a time limit?

vars == <<mCount, state, want, timed>>

Init ==
    /\ mCount = Initial
    /\ state = [t \in Threads |-> "out"]
    /\ want = [t \in Threads |-> 0]
    /\ timed = [t \in Threads |-> FALSE]

Waiting(t) == state[t] # "out"

\* The predicate of wait() is tested under the mutex; the permits are taken with it.
Enough(n) == mCount >= n

\* acquire() and the timed try_acquire(): the first test of the predicate.
Acquire(t) == \E n \in Amounts, limit \in BOOLEAN :
    /\ state[t] = "out"
    /\ IF Enough(n)
       THEN mCount' = mCount - n /\ UNCHANGED <<state, want, timed>>
       ELSE /\ state' = [state EXCEPT ![t] = "asleep"]
            /\ want' = [want EXCEPT ![t] = n]
            /\ timed' = [timed EXCEPT ![t] = limit]
            /\ UNCHANGED mCount

\* try_acquire(n) takes the permits or returns false; nothing changes in the second case.
TryAcquire(t) == \E n \in Amounts :
    /\ state[t] = "out" /\ Enough(n)
    /\ mCount' = mCount - n
    /\ UNCHANGED <<state, want, timed>>

Take(t) ==
    /\ mCount' = mCount - want[t]
    /\ state' = [state EXCEPT ![t] = "out"]

\* A notified thread has the mutex again and tests the predicate.
Resume(t) ==
    /\ state[t] = "awake"
    /\ IF Enough(want[t]) THEN Take(t)
       ELSE state' = [state EXCEPT ![t] = "asleep"] /\ UNCHANGED mCount
    /\ UNCHANGED <<want, timed>>

Spurious(t) ==
    /\ state[t] = "asleep"
    /\ state' = [state EXCEPT ![t] = "awake"]
    /\ UNCHANGED <<mCount, want, timed>>

\* wait_until() reached its limit: the predicate is tested a last time.
TimeOut(t) ==
    /\ Waiting(t) /\ timed[t]
    /\ IF Enough(want[t]) THEN Take(t)
       ELSE state' = [state EXCEPT ![t] = "out"] /\ UNCHANGED mCount
    /\ UNCHANGED <<want, timed>>

\* mutant: notify_one()
ReleaseNotifyOne == \E n \in Amounts :
    /\ n <= MaxCount - mCount
    /\ mCount' = mCount + n
    /\ \/ (\A t \in Threads : state[t] # "asleep") /\ UNCHANGED state
       \/ \E t \in Threads : state[t] = "asleep" /\ state' = [state EXCEPT ![t] = "awake"]
    /\ UNCHANGED <<want, timed>>

\* release(), also by ~Releaser; the assertion on update is the caller's duty.
Release == \E n \in Amounts :
    /\ n <= MaxCount - mCount
    /\ mCount' = mCount + n
    /\ state' = [t \in Threads |-> IF state[t] = "asleep" THEN "awake" ELSE state[t]]
    /\ UNCHANGED <<want, timed>>

Next ==
    \/ Release
    \/ \E t \in Threads : Acquire(t) \/ TryAcquire(t) \/ Resume(t) \/ Spurious(t) \/ TimeOut(t)

Spec == Init /\ [][Next]_vars

\* No thread sleeps over permits that are enough for it: acquire() tests and falls asleep
\* in one critical section, and release() wakes all, whatever amounts they wait for.
NoneSleepsOverEnough ==
    /\ mCount \in 0..MaxCount
    /\ \A t \in Threads : state[t] = "asleep" => mCount < want[t]
=============================================================================
