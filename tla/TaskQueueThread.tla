---------------------------- MODULE TaskQueueThread ----------------------------
(***************************************************************************)
(* A task queue with a thread of its own (thread/task_queue_thread.cpp and *)
(* send_task of thread/task_queue.cpp): immediate and delayed tasks,       *)
(* cancellation, the worker loop with its short poll, and destroy().       *)
(*                                                                         *)
(* Every critical section of mMutex is one step.  Time is discrete; Ms     *)
(* units make a millisecond, the clock is read in steps of its own where   *)
(* the code reads it outside the lock.                                     *)
(***************************************************************************)
EXTENDS Integers, Sequences, SequencesExt

CONSTANTS
    Tasks,       \* given to post_task(), each once
    Delayed,     \* given to post_delayed_task(), each once
    Senders,     \* calls of send_task(); the call names the closure it posts
    Delays,      \* delays given to post_delayed_task()
    Ms,          \* clock units in a millisecond
    Horizon,     \* no delayed task is due after this
    None

ASSUME DisjointAssumption ==
    /\ Tasks \cap Delayed = {} /\ Tasks \cap Senders = {} /\ Delayed \cap Senders = {}
    /\ None \notin Tasks \cup Delayed \cup Senders
ASSUME TimeAssumption == Ms \in Nat \ {0} /\ Horizon \in Nat /\ Delays \subseteq Nat

VARIABLES
    mQuit, mTaskIdCounter, mPendingTasks, mDelayedTasks,
    now,          \* the steady clock
    pc,           \* where the worker is
    tick,         \* the clock as pop_next_task() read it
    sleepTime, deadline,
    notified,     \* a notification the waiting worker has not seen yet
    runTask,      \* the task the worker took
    destroyer,    \* where destroy() is
    fate,         \* history: what became of every task
    slow,         \* history: has time passed while the worker had something to do?
    due,          \* history: the timestamp of every delayed task
    ran           \* history: the immediate tasks in the order they were run

queue == <<mQuit, mTaskIdCounter, mPendingTasks, mDelayedTasks>>
worker == <<pc, tick, sleepTime, deadline, notified, runTask>>
vars == <<queue, now, slow, worker, destroyer, fate, due, ran>>

All == Tasks \cup Delayed \cup Senders
Immediate == Tasks \cup Senders
MaxTime == Horizon + Ms + 1
Fates == {"new", "queued", "running", "ran", "cancelled", "dropped on queue", "dropped elsewhere"}

Init ==
    /\ mQuit = FALSE /\ mTaskIdCounter = 0
    /\ mPendingTasks = <<>> /\ mDelayedTasks = {}
    /\ now = 0 /\ slow = FALSE
    /\ pc = "tick" /\ tick = 0 /\ sleepTime = 0 /\ deadline = 0
    /\ notified = FALSE /\ runTask = None
    /\ destroyer = "idle"
    /\ fate = [x \in All |-> "new"]
    /\ due = [x \in Delayed |-> 0]
    /\ ran = <<>>

-----------------------------------------------------------------------------
(***************************************************************************)
(* Callers.  Once destroy() was called only a task that is still running   *)
(* can reach the queue.                                                    *)
(***************************************************************************)
Reachable == destroyer = "idle" \/ (destroyer = "joining" /\ pc = "run")

\* Also the closure of a send_task() called on another thread.
PostTask(x) ==
    /\ Reachable
    /\ x \in Senders => destroyer = "idle"
    /\ fate[x] = "new"
    /\ mTaskIdCounter' = mTaskIdCounter + 1
    /\ mPendingTasks' = Append(mPendingTasks, [id |-> mTaskIdCounter', task |-> x])
    /\ notified' = (pc = "waiting")
    /\ fate' = [fate EXCEPT ![x] = "queued"]
    /\ UNCHANGED <<mQuit, mDelayedTasks, now, slow, pc, tick, sleepTime, deadline, runTask,
                   destroyer, due, ran>>

PostDelayedTask(x, delay) ==
    /\ Reachable
    /\ fate[x] = "new"
    /\ now + delay <= Horizon
    /\ mTaskIdCounter' = mTaskIdCounter + 1
    /\ mDelayedTasks' = mDelayedTasks \cup
           {[id |-> mTaskIdCounter', timestamp |-> now + delay, task |-> x]}
    /\ notified' = (pc = "waiting")
    /\ fate' = [fate EXCEPT ![x] = "queued"]
    /\ due' = [due EXCEPT ![x] = now + delay]
    /\ UNCHANGED <<mQuit, mPendingTasks, now, slow, pc, tick, sleepTime, deadline, runTask,
                   destroyer, ran>>

\* send_task() on the queue's own thread runs the task at once.
SendInline(s) ==
    /\ pc = "run"
    /\ fate[s] = "new"
    /\ fate' = [fate EXCEPT ![s] = "ran"]
    /\ UNCHANGED <<queue, now, slow, worker, destroyer, due, ran>>

\* cancel_task() that returns true; when it returns false nothing changed.
CancelTask(x) ==
    /\ destroyer = "idle"
    /\ fate[x] = "queued"
    /\ mPendingTasks' = SelectSeq(mPendingTasks, LAMBDA p : p.task # x)
    /\ mDelayedTasks' = {d \in mDelayedTasks : d.task # x}
    /\ fate' = [fate EXCEPT ![x] = "cancelled"]
    /\ UNCHANGED <<mQuit, mTaskIdCounter, now, slow, worker, destroyer, due, ran>>

Destroy ==
    /\ destroyer = "idle"
    /\ mQuit' = TRUE
    /\ notified' = (pc = "waiting")
    /\ destroyer' = "joining"
    /\ UNCHANGED <<mTaskIdCounter, mPendingTasks, mDelayedTasks, now, slow, pc, tick, sleepTime,
                   deadline, runTask, fate, due, ran>>

Drop(dropped, how) == [x \in All |-> IF x \in dropped THEN how ELSE fate[x]]
PendingSet == {mPendingTasks[i].task : i \in 1..Len(mPendingTasks)}
DelayedSet == {d.task : d \in mDelayedTasks}

\* join(), then "delete this" with whatever is still queued.
Joined ==
    /\ destroyer = "joining" /\ pc = "ended"
    /\ destroyer' = "done"
    /\ fate' = Drop(PendingSet \cup DelayedSet, "dropped elsewhere")
    /\ mPendingTasks' = <<>>
    /\ mDelayedTasks' = {}
    /\ UNCHANGED <<mQuit, mTaskIdCounter, now, slow, worker, due, ran>>

-----------------------------------------------------------------------------
(***************************************************************************)
(* The worker: pop_next_task() and process_tasks().                        *)
(***************************************************************************)
ReadClock ==
    /\ pc = "tick"
    /\ tick' = now
    /\ pc' = "pop"
    /\ UNCHANGED <<queue, now, slow, sleepTime, deadline, notified, runTask, destroyer, fate, due, ran>>

\* The order of mDelayedTasks.
DelayedHead == CHOOSE d \in mDelayedTasks : \A e \in mDelayedTasks :
    d.timestamp < e.timestamp \/ (d.timestamp = e.timestamp /\ d.id <= e.id)
HeadIsDue == mDelayedTasks # {} /\ tick >= DelayedHead.timestamp

PopQuitWhenEmpty ==                    \* mutant: quits only once nothing is queued
    /\ pc = "pop" /\ mQuit
    /\ mPendingTasks = <<>> /\ mDelayedTasks = {}
    /\ tick' = 0
    /\ pc' = "clear"
    /\ UNCHANGED <<queue, now, slow, sleepTime, deadline, notified, runTask, destroyer, fate,
                   due, ran>>

PopQuit ==
    /\ pc = "pop" /\ mQuit
    /\ tick' = 0
    /\ pc' = "clear"
    /\ UNCHANGED <<queue, now, slow, sleepTime, deadline, notified, runTask, destroyer, fate,
                   due, ran>>

PopHeadAnyTime ==                      \* mutant: the timestamp is not compared
    /\ pc = "pop" /\ ~mQuit
    /\ mDelayedTasks # {}
    /\ runTask' = DelayedHead.task
    /\ mDelayedTasks' = mDelayedTasks \ {DelayedHead}
    /\ fate' = [fate EXCEPT ![DelayedHead.task] = "running"]
    /\ tick' = 0
    /\ pc' = "run"
    /\ UNCHANGED <<mQuit, mTaskIdCounter, mPendingTasks, now, slow, sleepTime, deadline, notified,
                   destroyer, due, ran>>

\* A delayed task that is due, unless a pending one was posted before it.
PopDelayed ==
    /\ pc = "pop" /\ ~mQuit
    /\ HeadIsDue
    /\ mPendingTasks # <<>> => Head(mPendingTasks).id >= DelayedHead.id
    /\ runTask' = DelayedHead.task
    /\ mDelayedTasks' = mDelayedTasks \ {DelayedHead}
    /\ fate' = [fate EXCEPT ![DelayedHead.task] = "running"]
    /\ tick' = 0
    /\ pc' = "run"
    /\ UNCHANGED <<mQuit, mTaskIdCounter, mPendingTasks, now, slow, sleepTime, deadline, notified,
                   destroyer, due, ran>>

PopNewestPending ==                    \* mutant: the set is read from its end
    /\ pc = "pop" /\ ~mQuit
    /\ mPendingTasks # <<>>
    /\ HeadIsDue => Head(mPendingTasks).id < DelayedHead.id
    /\ runTask' = Last(mPendingTasks).task
    /\ mPendingTasks' = Front(mPendingTasks)
    /\ fate' = [fate EXCEPT ![runTask'] = "running"]
    /\ ran' = Append(ran, runTask')
    /\ tick' = 0
    /\ pc' = "run"
    /\ UNCHANGED <<mQuit, mTaskIdCounter, mDelayedTasks, now, slow, sleepTime, deadline, notified,
                   destroyer, due>>

PopPending ==
    /\ pc = "pop" /\ ~mQuit
    /\ mPendingTasks # <<>>
    /\ HeadIsDue => Head(mPendingTasks).id < DelayedHead.id
    /\ runTask' = Head(mPendingTasks).task
    /\ mPendingTasks' = Tail(mPendingTasks)
    /\ fate' = [fate EXCEPT ![runTask'] = "running"]
    /\ ran' = Append(ran, runTask')
    /\ tick' = 0
    /\ pc' = "run"
    /\ UNCHANGED <<mQuit, mTaskIdCounter, mDelayedTasks, now, slow, sleepTime, deadline, notified,
                   destroyer, due>>

\* divide_round_up() to whole milliseconds.
WholeMs(t) == ((t + Ms - 1) \div Ms) * Ms

SleepUntilDue ==                       \* mutant: no short poll, only the cap of a second
    IF mDelayedTasks = {} THEN 1000 * Ms ELSE WholeMs(DelayedHead.timestamp - tick)

\* Until the head is due, but a millisecond at most.
SleepTime ==
    IF mDelayedTasks = {} THEN Ms
    ELSE IF WholeMs(DelayedHead.timestamp - tick) > Ms THEN Ms
    ELSE WholeMs(DelayedHead.timestamp - tick)

PopNothing ==
    /\ pc = "pop" /\ ~mQuit
    /\ mPendingTasks = <<>> /\ ~HeadIsDue
    /\ sleepTime' = SleepTime
    /\ tick' = 0
    /\ pc' = "wait"
    /\ UNCHANGED <<queue, now, slow, deadline, notified, runTask, destroyer, fate, due, ran>>

\* runTask->run(), and the release of the task when the loop goes round.
RunTask ==
    /\ pc = "run"
    /\ fate' = [fate EXCEPT ![runTask] = "ran"]
    /\ runTask' = None
    /\ pc' = "tick"
    /\ UNCHANGED <<queue, now, slow, tick, sleepTime, deadline, notified, destroyer, due, ran>>

\* The predicate of wait_until().
WorkReady ==
    mQuit \/ mPendingTasks # <<>> \/ \E d \in mDelayedTasks : d.timestamp <= now

BeginWait ==
    /\ pc = "wait"
    /\ deadline' = IF WorkReady THEN 0 ELSE now + sleepTime
    /\ notified' = FALSE
    /\ pc' = IF WorkReady THEN "tick" ELSE "waiting"
    /\ sleepTime' = 0
    /\ UNCHANGED <<queue, now, slow, tick, runTask, destroyer, fate, due, ran>>

\* A notification wakes the worker only if the predicate holds ...
WakeNotified ==
    /\ pc = "waiting" /\ notified
    /\ notified' = FALSE
    /\ pc' = IF WorkReady THEN "tick" ELSE "waiting"
    /\ deadline' = IF WorkReady THEN 0 ELSE deadline
    /\ UNCHANGED <<queue, now, slow, tick, sleepTime, runTask, destroyer, fate, due, ran>>

WaitForNotify ==                       \* mutant: wait() instead of wait_until()
    /\ pc = "waiting" /\ notified
    /\ UNCHANGED vars

\* ... the deadline in any case, and a spurious wake-up like a notification.
WakeTimeout ==
    /\ pc = "waiting" /\ now >= deadline
    /\ pc' = "tick"
    /\ deadline' = 0
    /\ notified' = FALSE
    /\ UNCHANGED <<queue, now, slow, tick, sleepTime, runTask, destroyer, fate, due,
                   ran>>

WakeSpuriously ==
    /\ pc = "waiting" /\ WorkReady
    /\ pc' = "tick"
    /\ deadline' = 0
    /\ notified' = FALSE
    /\ UNCHANGED <<queue, now, slow, tick, sleepTime, runTask, destroyer, fate, due,
                   ran>>

\* The end of process_tasks(): the pending tasks are destroyed, the delayed not.
Clear ==
    /\ pc = "clear"
    /\ pc' = "ended"
    /\ mPendingTasks' = <<>>
    /\ fate' = Drop(PendingSet, "dropped on queue")
    /\ UNCHANGED <<mQuit, mTaskIdCounter, mDelayedTasks, now, slow, tick, sleepTime, deadline, notified,
                   runTask, destroyer, due, ran>>

WorkerAsleep == pc = "ended" \/ (pc = "waiting" /\ ~notified /\ now < deadline)

Tick ==
    /\ now < MaxTime
    /\ now' = now + 1
    /\ slow' = (slow \/ ~WorkerAsleep)
    /\ UNCHANGED <<queue, worker, destroyer, fate, due, ran>>

-----------------------------------------------------------------------------
WorkerStep ==
    \/ ReadClock \/ PopQuit \/ PopDelayed \/ PopPending \/ PopNothing \/ RunTask
    \/ BeginWait \/ WakeNotified \/ WakeTimeout \/ Clear

Next ==
    \/ \E x \in Immediate : PostTask(x)
    \/ \E x \in Delayed, delay \in Delays : PostDelayedTask(x, delay)
    \/ \E s \in Senders : SendInline(s)
    \/ \E x \in Tasks \cup Delayed : CancelTask(x)
    \/ Destroy \/ Joined \/ WorkerStep \/ WakeSpuriously \/ Tick

Spec == Init /\ [][Next]_vars

\* The worker is scheduled, time passes, and join() returns when the thread
\* has ended.
FairSpec == Spec /\ WF_vars(WorkerStep) /\ WF_vars(Tick) /\ WF_vars(Joined)

-----------------------------------------------------------------------------
\* The promise of post_task(): cancelled and dropped tasks apart, tasks run
\* once and in posting order, whatever delayed tasks run between them.
Channel == INSTANCE TaskChannel WITH Tasks <- Immediate,
               pending <- [i \in 1..Len(mPendingTasks) |-> mPendingTasks[i].task]
PendingIsAChannel == Channel!Spec

\* A delayed task never runs before its time, although the worker compares the
\* timestamp with a clock it read earlier.  And as long as the worker was never slow the
\* queue adds a millisecond at most to the delay, also when an earlier task is posted
\* while the worker sleeps towards a later one.
DelaysKept ==
    /\ pc = "run" /\ runTask \in Delayed => now >= due[runTask]
    /\ slow \/ mQuit \/ \A d \in mDelayedTasks : now <= d.timestamp + Ms

\* Every task is run, unless it is cancelled or the queue destroyed; and send_task()
\* returns in any case: its closure is run or destroyed.
TasksRun ==
    /\ \A x \in All : fate[x] = "queued" ~> fate[x] # "queued" \/ mQuit
    /\ \A s \in Senders :
         fate[s] = "queued" ~> fate[s] \in {"ran", "dropped on queue", "dropped elsewhere"}
=============================================================================
