----------------------------- MODULE RepeatingTask -----------------------------
(***************************************************************************)
(* A task that runs, says how long to wait and posts itself again          *)
(* (thread/repeating_task.cpp), on a queue that runs delayed tasks at      *)
(* their time or later.  stop() is called on the queue's thread: by the    *)
(* closure itself or by another task.                                      *)
(***************************************************************************)
EXTENDS Integers, FiniteSetsExt

CONSTANTS
    Delays,     \* delays the closure returns
    Forever,    \* TimeDelta::plus_infinity()
    MaxTime     \* the bound on the clock, and on the plan of a run that is repeated

VARIABLES
    now,             \* the clock
    pc,              \* where the task is
    mNextRunTime,
    mAliveFlag,
    delay,           \* the delay the closure is posted with
    ready            \* when the queue may run it

vars == <<now, pc, mNextRunTime, mAliveFlag, delay, ready>>

Init ==
    /\ now = 0 /\ pc = "none"
    /\ mNextRunTime = 0 /\ mAliveFlag = TRUE
    /\ delay = 0 /\ ready = 0

\* The closure's constructor plans the first run; start() is delayed_start()
\* without a delay.
DelayedStart(firstDelay) ==
    /\ pc = "none"
    /\ mNextRunTime' = now + firstDelay
    /\ delay' = firstDelay
    /\ pc' = "posting"
    /\ UNCHANGED <<now, mAliveFlag, ready>>

\* post_delayed_task() reads the clock again.
Post ==
    /\ pc = "posting"
    /\ ready' = now + delay
    /\ delay' = 0
    /\ pc' = "queued"
    /\ UNCHANGED <<now, mNextRunTime, mAliveFlag>>

\* operator(): nothing happens if the task was stopped while it was queued.
Run ==
    /\ pc = "queued" /\ now >= ready
    /\ pc' = IF mAliveFlag THEN "closure" ELSE "ended"
    /\ UNCHANGED <<now, mNextRunTime, mAliveFlag, delay, ready>>

RepeatTwiceLost(d) ==                  \* mutant: mNextRunTime is advanced too late
    /\ pc = "closure"
    /\ IF d = Forever \/ ~mAliveFlag
       THEN /\ pc' = "ended"
            /\ UNCHANGED <<mNextRunTime, delay>>
       ELSE /\ mNextRunTime' = mNextRunTime + d
            /\ delay' = Max({0, mNextRunTime - now})
            /\ pc' = "posting"
    /\ UNCHANGED <<now, mAliveFlag, ready>>

Repeat(d) ==
    /\ pc = "closure"
    /\ IF d = Forever \/ ~mAliveFlag
       THEN /\ pc' = "ended"
            /\ UNCHANGED <<mNextRunTime, delay>>
       ELSE /\ mNextRunTime' = mNextRunTime + d
            /\ delay' = Max({0, d - (now - mNextRunTime)})
            /\ pc' = "posting"
    /\ UNCHANGED <<now, mAliveFlag, ready>>

Stop ==
    /\ pc \in {"queued", "closure"}
    /\ mAliveFlag
    /\ mAliveFlag' = FALSE
    /\ UNCHANGED <<now, pc, mNextRunTime, delay, ready>>

Tick ==
    /\ now < MaxTime
    /\ now' = now + 1
    /\ UNCHANGED <<pc, mNextRunTime, mAliveFlag, delay, ready>>

PlanInBound == mNextRunTime < MaxTime

Next ==
    \/ \E d \in Delays : DelayedStart(d)
    \/ Post \/ Run \/ Stop \/ Tick
    \/ \E d \in Delays \cup {Forever} : PlanInBound /\ Repeat(d)

Spec == Init /\ [][Next]_vars

-----------------------------------------------------------------------------
\* operator() never calls the closure before the time planned from the first
\* delay and the delays it returned: lost time is made up, never overshot, although
\* the queue reads the clock again when it is given the delay.
NeverBeforePlan == pc = "closure" => now >= mNextRunTime
=============================================================================
