---------------------------- MODULE EventLoopThread ----------------------------
(***************************************************************************)
(* An EventLoop that a worker thread builds, runs and destroys             *)
(* (thread/event_loop_thread.cpp): start(), thread_main(), the hand-off of *)
(* the loop to callers of loop(), and stop().  The loop is EventLoop; this *)
(* module says when its worker takes which step.                           *)
(*                                                                         *)
(* mLoopMutex is held across steps only by the teardown in thread_main(),  *)
(* which destroys the loop, and so runs the tasks still queued, under it.  *)
(***************************************************************************)
EXTENDS EventLoop

CONSTANTS
    StopCode,      \* the exit() call made by stop()
    LoopCallers    \* tasks whose closure calls EventLoopThread::loop()

ASSUME StopCodeAssumption == StopCode \in Exiters
ASSUME LoopCallersAssumption == LoopCallers \subseteq Tasks

VARIABLES
    mStarted, mLoopReady, mLoopGone,
    worker,        \* where thread_main() is
    stopper,       \* where stop() is
    atStop         \* history: the tasks posted when stop() was called (before the
                   \* destructor of the loop took the last ones)

handoff == <<mStarted, mLoopReady, mLoopGone, worker, stopper, atStop>>
allVars == <<vars, handoff>>

EltInit ==
    /\ Init
    /\ mStarted = FALSE /\ mLoopReady = FALSE /\ mLoopGone = FALSE
    /\ worker = "none"
    /\ stopper = "idle"
    /\ atStop = <<>>

-----------------------------------------------------------------------------
Start ==
    /\ ~mStarted /\ ~mLoopGone
    /\ mStarted' = TRUE
    /\ worker' = "building"
    /\ UNCHANGED <<vars, mLoopReady, mLoopGone, stopper, atStop>>

(* thread_main() *)
BuildLoop ==
    /\ worker = "building"
    /\ worker' = "built"
    /\ mLoopReady' = TRUE
    /\ UNCHANGED <<vars, mStarted, mLoopGone, stopper, atStop>>

RunExec ==
    /\ worker = "built"
    /\ worker' = "running"
    /\ ExecCheck
    /\ UNCHANGED <<mStarted, mLoopReady, mLoopGone, stopper, atStop>>

\* A closure that calls loop() needs mLoopMutex, which its own thread may hold.
BlockedInLoop ==
    /\ pc = "callback" /\ worker = "teardown"
    /\ Last(ran) \in LoopCallers

LoopRuns ==
    /\ worker \in {"running", "teardown"}
    /\ ~BlockedInLoop
    /\ LoopStep
    /\ UNCHANGED handoff

UserEvent ==
    /\ worker = "running"
    /\ Poll(TRUE, FALSE)
    /\ UNCHANGED handoff

\* exec() returned: mLoop.reset() begins, under mLoopMutex ...
Teardown ==
    /\ worker = "running"
    /\ worker' = "teardown"
    /\ Destroy
    /\ UNCHANGED <<mStarted, mLoopReady, mLoopGone, stopper, atStop>>

\* ... and ends.
LoopGone ==
    /\ worker = "teardown" /\ pc = "dead"
    /\ worker' = "exited"
    /\ mLoopReady' = FALSE
    /\ mLoopGone' = TRUE
    /\ UNCHANGED <<vars, mStarted, stopper, atStop>>

-----------------------------------------------------------------------------
(* stop() *)
StopBegin ==
    /\ stopper = "idle" /\ mStarted
    /\ stopper' = "waiting"
    /\ atStop' = IF worker \in {"teardown", "exited"} THEN ran \o tasks ELSE posted
    /\ UNCHANGED <<vars, mStarted, mLoopReady, mLoopGone, worker>>

\* wait_for_loop(): null when the worker already tore the loop down.
WaitForLoop ==
    /\ stopper = "waiting"
    /\ worker # "teardown"
    /\ mLoopReady \/ mLoopGone
    /\ stopper' = IF mLoopReady THEN "exiting" ELSE "joining"
    /\ UNCHANGED <<vars, mStarted, mLoopReady, mLoopGone, worker, atStop>>

StopExit ==
    /\ stopper = "exiting"
    /\ ExitStep(StopCode)
    /\ stopper' = IF exiter'[StopCode] = "done" THEN "joining" ELSE "exiting"
    /\ UNCHANGED <<mStarted, mLoopReady, mLoopGone, worker, atStop>>

\* mThread.wait()
StopJoin ==
    /\ stopper = "joining" /\ worker = "exited"
    /\ stopper' = "done"
    /\ mStarted' = FALSE
    /\ UNCHANGED <<vars, mLoopReady, mLoopGone, worker, atStop>>

(* Other threads, through the reference loop() gave them. *)
UserPost ==
    /\ worker \in {"built", "running", "teardown"}
    /\ \E x \in Tasks : Post(x)
    /\ UNCHANGED handoff

UserWakeUp(x) == WakeUp(x) /\ UNCHANGED handoff

UserExit(c) ==
    /\ worker \in {"built", "running", "teardown"}
    /\ ExitStep(c)
    /\ UNCHANGED handoff

-----------------------------------------------------------------------------
WorkerStep == BuildLoop \/ RunExec \/ LoopRuns \/ Teardown \/ LoopGone
StopStep == WaitForLoop \/ StopExit \/ StopJoin

EltNext ==
    \/ Start \/ WorkerStep \/ UserEvent \/ StopBegin \/ StopStep \/ UserPost
    \/ \E x \in Tasks : UserWakeUp(x)
    \/ \E c \in Exiters \ {StopCode} : UserExit(c)

EltSpec == EltInit /\ [][EltNext]_allVars

\* The worker, the thread in stop() and every thread inside post() or exit() are
\* scheduled; nobody has to call start(), stop(), post() or exit().
EltFairSpec ==
    /\ EltSpec
    /\ WF_allVars(WorkerStep)
    /\ WF_allVars(StopStep)
    /\ \A x \in Tasks : WF_allVars(UserWakeUp(x))
    /\ \A c \in Exiters \ {StopCode} :
           WF_allVars(exiter[c] # "idle" /\ UserExit(c))

-----------------------------------------------------------------------------
\* When stop() has returned the loop is destroyed and every task that was
\* posted before stop() was called has run: on the worker's last rounds or in
\* the destructor of the loop.  Only a task pushed while that destructor was
\* already draining (the documented limit L1) does not run.
StopDrains ==
    stopper = "done" =>
        /\ pc = "dead" /\ mLoopGone
        /\ Range(atStop) \subseteq Range(ran)

\* exec() stored false into mExit after the exit() of stop() stored true.
ExitOverwritten == exiter[StopCode] = "done" /\ ~mExit

\* exec() ended by itself, although "only exit() ends exec", because somebody
\* else called exit(): the pointer stop() got is dead.
StopUsesDeadLoop == stopper = "exiting" /\ pc = "dead"

\* stop() returns, whoever else posts and calls exit(), but for three cases: its
\* exit() fell into the first lines of exec() and was overwritten, another exit()
\* ended the loop under it, or a task that calls loop() is run by the teardown,
\* which holds mLoopMutex.
StopReturnsUnless ==
    stopper # "idle" ~>
        stopper = "done" \/ ExitOverwritten \/ StopUsesDeadLoop \/ BlockedInLoop
=============================================================================
