------------------------------- MODULE EventLoop -------------------------------
(***************************************************************************)
(* An EventLoop over the libuv dispatcher (kernel/event_loop.cpp and       *)
(* kernel/uv/detail/uv_event_dispatcher.cpp): posted closures, posted      *)
(* events, exec(), process_events() with and without a time limit, exit()  *)
(* and the destructor.                                                     *)
(*                                                                         *)
(* One thread, the loop thread, runs the loop; any thread posts and calls  *)
(* exit().  A critical section and a load or store of an atomic is one     *)
(* step.  post() and post_event() enqueue in one step and ring the bell    *)
(* (uv_async_send) in a later one; exit() stores three atomics, then rings *)
(* the bell.  A closure posted by a callback is posted by "some thread"    *)
(* while the callback runs.                                                *)
(***************************************************************************)
EXTENDS EventQueue, FiniteSets

CONSTANTS
    Tasks,       \* closures given to post(), each once
    Events,      \* events given to post_event() or delete_later(), each once
    Receivers,   \* the objects living on this loop
    Priorities,  \* priorities given to post_event()
    Exiters,     \* calls of exit(); a call's name is the code it passes
    RacyExit,    \* may exit() overlap the first lines of exec()?
    WaitFlags,   \* is kWaitForMoreEvents among the flags given to process_events()?
    None

ASSUME NoneAssumption == None \notin Tasks \cup Events \cup Receivers \cup Exiters
ASSUME PrioritiesAssumption == Priorities \subseteq Int
ASSUME RacyExitAssumption == RacyExit \in BOOLEAN
ASSUME WaitFlagsAssumption == WaitFlags \subseteq BOOLEAN

VARIABLES
    mPostQueue, mEventQueue,
    mExit, mHasExitCode, mRetCode, mInExec,
    bell,          \* uv_async_send came and uv_run has not consumed it
    pc,            \* where the loop thread is
    mode,          \* which call it is in: exec, slice or timed process_events
    wait,          \* kWaitForMoreEvents of the current round
    tasks,         \* the local snapshot of posted tasks
    had,           \* had_post || had_event of the current round
    entry,         \* the entry being dispatched
    timer,         \* is the interrupt timer of the timed call registered?
    deadline,      \* has the time limit of the timed call passed?
    exitRequested, \* the local variable of the timed call
    result,        \* what the last exec() or timed call returned
    poster,        \* progress of post() and post_event(), per task and event
    exiter,        \* progress of exit(), per call
    alive,         \* receivers that are not destroyed
    posted,        \* history: tasks in the order their push_back happened
    ran,           \* history: tasks in the order they were run
    processed      \* history: did the current timed call process anything?

queues == <<mPostQueue, mEventQueue>>
flags == <<mExit, mHasExitCode, mRetCode, mInExec>>
local == <<mode, wait, tasks, had, entry, timer, deadline, exitRequested>>
callers == <<poster, exiter>>
history == <<posted, ran, processed>>
vars == <<queues, flags, bell, pc, local, result, callers, alive, history>>

Pcs == {"outside", "execHead", "test", "drain", "posts", "callback", "events",
        "dispatch", "poll", "timedTest", "dead"}
Entry == EventEntry(Receivers, Events, Priorities \cup {0})

Init ==
    /\ mPostQueue = <<>> /\ mEventQueue = <<>>
    /\ mExit = TRUE /\ mHasExitCode = FALSE /\ mRetCode = None /\ mInExec = FALSE
    /\ bell = FALSE
    /\ pc = "outside" /\ mode = None /\ wait = FALSE
    /\ tasks = <<>> /\ had = FALSE /\ entry = None
    /\ timer = FALSE /\ deadline = FALSE /\ exitRequested = FALSE
    /\ result = None
    /\ poster = [x \in Tasks \cup Events |-> "idle"]
    /\ exiter = [c \in Exiters |-> "idle"]
    /\ alive = Receivers
    /\ posted = <<>> /\ ran = <<>> /\ processed = FALSE

-----------------------------------------------------------------------------
(***************************************************************************)
(* Any thread.                                                             *)
(***************************************************************************)
\* post(): push_back under mPostMutex ...
Post(x) ==
    /\ pc # "dead"
    /\ poster[x] = "idle"
    /\ mPostQueue' = Append(mPostQueue, x)
    /\ posted' = Append(posted, x)
    /\ poster' = [poster EXCEPT ![x] = "pushed"]
    /\ UNCHANGED <<mEventQueue, flags, bell, pc, local, result, exiter, alive,
                   ran, processed>>

\* Object::post_event() and delete_later(): enqueue_event ...
PostEvent(e, r, p, deferredDelete) ==
    /\ pc # "dead"
    /\ poster[e] = "idle"
    /\ r \in alive
    /\ mEventQueue' = Enqueue(mEventQueue,
           [receiver |-> r, event |-> e, deferredDelete |-> deferredDelete, priority |-> p])
    /\ poster' = [poster EXCEPT ![e] = "pushed"]
    /\ UNCHANGED <<mPostQueue, flags, bell, pc, local, result, exiter, alive, history>>

WakeUpLost(x) ==                       \* mutant: no wake_up() after the push
    /\ poster[x] = "pushed"
    /\ poster' = [poster EXCEPT ![x] = "done"]
    /\ UNCHANGED <<queues, flags, bell, pc, local, result, exiter, alive, history>>

\* ... and both then call wake_up().
WakeUp(x) ==
    /\ poster[x] = "pushed"
    /\ poster' = [poster EXCEPT ![x] = "done"]
    /\ bell' = TRUE
    /\ UNCHANGED <<queues, flags, pc, local, result,
                   exiter, alive, history>>

ExitStoresFlagFirst(c) ==              \* mutant: mExit is stored before the code
    /\ exiter[c] = "idle"
    /\ pc # "dead" /\ mode # "dtor"
    /\ RacyExit \/ pc # "execHead"
    /\ mExit' = TRUE
    /\ exiter' = [exiter EXCEPT ![c] = "code"]
    /\ UNCHANGED <<queues, mRetCode, mHasExitCode, mInExec, bell, pc, local, result,
                   poster, alive, history>>

\* exit(c): mRetCode, mHasExitCode, mExit, then wake_up().
ExitStoreCode(c) ==
    /\ exiter[c] = "idle"
    /\ pc # "dead" /\ mode # "dtor"
    /\ RacyExit \/ pc # "execHead"
    /\ mRetCode' = c
    /\ exiter' = [exiter EXCEPT ![c] = "code"]
    /\ UNCHANGED <<queues, mExit, mHasExitCode, mInExec, bell, pc, local, result,
                   poster, alive, history>>

ExitStoreHasCode(c) ==
    /\ exiter[c] = "code"
    /\ mHasExitCode' = TRUE
    /\ exiter' = [exiter EXCEPT ![c] = "has"]
    /\ UNCHANGED <<queues, mExit, mRetCode, mInExec, bell, pc, local, result,
                   poster, alive, history>>

ExitStoreExit(c) ==
    /\ exiter[c] = "has"
    /\ mExit' = TRUE
    /\ exiter' = [exiter EXCEPT ![c] = "exit"]
    /\ UNCHANGED <<queues, mHasExitCode, mRetCode, mInExec, bell, pc, local, result,
                   poster, alive, history>>

ExitWithoutBell(c) ==                  \* mutant: exit() only stores the flag
    /\ exiter[c] = "exit"
    /\ exiter' = [exiter EXCEPT ![c] = "done"]
    /\ UNCHANGED <<queues, flags, bell, pc, local, result, poster, alive, history>>

ExitWakeUp(c) ==
    /\ exiter[c] = "exit"
    /\ bell' = TRUE
    /\ exiter' = [exiter EXCEPT ![c] = "done"]
    /\ UNCHANGED <<queues, flags, pc, local, result,
                   poster, alive, history>>

-----------------------------------------------------------------------------
(***************************************************************************)
(* The loop thread: the three ways into process_events().                  *)
(***************************************************************************)
BeginRound(m, w) ==
    /\ pc' = "drain"
    /\ mode' = m
    /\ wait' = w
    /\ had' = FALSE

\* A call returns r to its caller, its local variables are gone.
Return(r) ==
    /\ pc' = "outside"
    /\ mode' = None
    /\ wait' = FALSE
    /\ had' = FALSE
    /\ timer' = FALSE
    /\ deadline' = FALSE
    /\ exitRequested' = FALSE
    /\ result' = r

\* exec(): a preset exit() is honoured; else the loop state is set up.
ExecCheck ==
    /\ pc = "outside"
    /\ RacyExit \/ \A c \in Exiters : exiter[c] \in {"idle", "done"}
    /\ IF mExit /\ mHasExitCode
       THEN result' = mRetCode /\ UNCHANGED pc
       ELSE pc' = "execHead" /\ result' = None
    /\ UNCHANGED <<queues, flags, bell, local, callers, alive, history>>

ExecBegin ==
    /\ pc = "execHead"
    /\ mInExec' = TRUE
    /\ mExit' = FALSE
    /\ pc' = "test"
    /\ UNCHANGED <<queues, mHasExitCode, mRetCode, bell, local, result, callers,
                   alive, history>>

\* while (!mExit): another round, or the return of exec().
ExecTest ==
    /\ pc = "test"
    /\ \/ /\ mExit
          /\ mInExec' = FALSE
          /\ Return(mRetCode)
       \/ /\ ~mExit
          /\ BeginRound("exec", TRUE)
          /\ UNCHANGED <<mInExec, timer, deadline, exitRequested, result>>
    /\ UNCHANGED <<queues, mExit, mHasExitCode, mRetCode, bell, tasks, entry,
                   callers, alive, history>>

\* process_events(flags) called by the owner of the loop outside exec(), or
\* the first round of process_events(flags, maximum_ms).
ProcessEvents(m, w) ==
    /\ pc = "outside"
    /\ BeginRound(m, w)
    /\ processed' = FALSE
    /\ result' = None
    /\ UNCHANGED <<queues, flags, bell, tasks, entry, timer, deadline, exitRequested,
                   callers, alive, posted, ran>>

-----------------------------------------------------------------------------
(***************************************************************************)
(* A round of process_events(flags).                                       *)
(***************************************************************************)
\* take_post_queue()
TakePostQueue ==
    /\ pc = "drain"
    /\ tasks' = mPostQueue
    /\ mPostQueue' = <<>>
    /\ pc' = "posts"
    /\ UNCHANGED <<mEventQueue, flags, bell, mode, wait, had, entry, timer, deadline,
                   exitRequested, result, callers, alive, history>>

RunNewestPosted ==                     \* mutant: the snapshot is run back to front
    /\ pc = "posts"
    /\ tasks # <<>>
    /\ ran' = Append(ran, Last(tasks))
    /\ tasks' = Front(tasks)
    /\ had' = TRUE
    /\ pc' = "callback"
    /\ UNCHANGED <<queues, flags, bell, mode, wait, entry, timer, deadline,
                   exitRequested, result, callers, alive, posted, processed>>

\* The snapshot is run front first, outside the lock.
RunPosted ==
    /\ pc = "posts"
    /\ tasks # <<>>
    /\ ran' = Append(ran, Head(tasks))
    /\ tasks' = Tail(tasks)
    /\ had' = TRUE
    /\ pc' = "callback"
    /\ UNCHANGED <<queues, flags, bell, mode, wait, entry, timer, deadline,
                   exitRequested, result, callers, alive, posted, processed>>

CallbackReturns ==
    /\ pc = "callback"
    /\ pc' = "posts"
    /\ UNCHANGED <<queues, flags, bell, local, result, callers, alive, history>>

\* The end of the snapshot; in the destructor the events go undelivered.
PostsDone ==
    /\ pc = "posts"
    /\ tasks = <<>>
    /\ IF mode = "dtor"
       THEN pc' = "dead" /\ mEventQueue' = <<>>
       ELSE pc' = "events" /\ UNCHANGED mEventQueue
    /\ UNCHANGED <<mPostQueue, flags, bell, local, result, callers, alive, history>>

\* pop_event_entry() ...
PopEvent ==
    /\ pc = "events"
    /\ mEventQueue # <<>>
    /\ entry' = Head(mEventQueue)
    /\ mEventQueue' = Tail(mEventQueue)
    /\ pc' = "dispatch"
    /\ UNCHANGED <<mPostQueue, flags, bell, mode, wait, tasks, had, timer, deadline,
                   exitRequested, result, callers, alive, history>>

\* ... send_event() to the receiver, delete the event, next entry.  Dispatching
\* a DeferredDeleteEvent destroys the receiver, and any handler may destroy an
\* object: ~Object purges its pending events from the queue.
Dispatched ==
    /\ pc = "dispatch"
    /\ \E dies \in SUBSET alive :
           /\ Cardinality(dies) <= 1
           /\ entry.deferredDelete => dies = {entry.receiver} \cap alive
           /\ alive' = alive \ dies
           /\ mEventQueue' = IF dies = {} THEN mEventQueue
                             ELSE RemovePending(mEventQueue, CHOOSE r \in dies : TRUE)
    /\ entry' = None
    /\ had' = TRUE
    /\ pc' = "events"
    /\ UNCHANGED <<mPostQueue, flags, bell, mode, wait, tasks, timer, deadline,
                   exitRequested, result, callers, history>>

RoundReturnsOneShot(didWork) ==        \* mutant: the interrupt timer fires once
    \/ /\ mode = "exec"
       /\ pc' = "test"
       /\ UNCHANGED <<mode, wait, had, timer, deadline, exitRequested, result>>
    \/ /\ mode = "slice"
       /\ Return(None)
    \/ /\ mode = "timed" /\ didWork
       /\ Return("true")
    \/ /\ mode = "timed" /\ ~didWork
       /\ timer' = ~timer
       /\ pc' = "timedTest"
       /\ UNCHANGED <<mode, wait, had, deadline, exitRequested, result>>

\* What the caller of a round does with its result.  exec() tests mExit again;
\* the timed call returns, or registers its interrupt timer and goes on.
RoundReturns(didWork) ==
    \/ /\ mode = "exec"
       /\ pc' = "test"
       /\ UNCHANGED <<mode, wait, had, timer, deadline, exitRequested, result>>
    \/ /\ mode = "slice"
       /\ Return(None)
    \/ /\ mode = "timed" /\ didWork
       /\ Return("true")
    \/ /\ mode = "timed" /\ ~didWork /\ timer
       /\ \/ mExit /\ mHasExitCode /\ Return("false")
          \/ /\ ~(mExit /\ mHasExitCode)
             /\ pc' = "timedTest"
             /\ UNCHANGED <<mode, wait, had, timer, deadline, exitRequested, result>>
    \/ /\ mode = "timed" /\ ~didWork /\ ~timer      \* maximum_ms is 0
       /\ Return("false")
    \/ /\ mode = "timed" /\ ~didWork /\ ~timer
       /\ exitRequested' = (mExit /\ mHasExitCode)
       /\ timer' = TRUE
       /\ pc' = "timedTest"
       /\ UNCHANGED <<mode, wait, had, deadline, result>>

\* Both queues are empty: the round ends if it did work, else the dispatcher's
\* process_events() begins.
EventsDone ==
    /\ pc = "events"
    /\ mEventQueue = <<>>
    /\ \/ /\ had
          /\ RoundReturns(TRUE)
          /\ processed' = TRUE
       \/ /\ ~had
          /\ pc' = "poll"
          /\ UNCHANGED <<mode, wait, had, timer, deadline, exitRequested, result, processed>>
    /\ UNCHANGED <<queues, flags, bell, tasks, entry, callers, alive, posted, ran>>

\* uv_run(UV_RUN_ONCE or NOWAIT) returns when the bell rang, a callback is due
\* or the round does not wait.  The poll consumes the bell; the interrupt timer
\* rings it again.
UvRun(userEvent, timeout) ==
    /\ bell \/ ~wait \/ userEvent \/ timeout
    /\ timeout => timer
    /\ bell' = timeout

\* The rest of UvEventDispatcher::process_events: a user callback (timer or
\* socket) sets mHadEvents, a round ended by the interrupt timer returns false.
Poll(userEvent, timeout) ==
    /\ pc = "poll"
    /\ UvRun(userEvent, timeout)
    /\ processed' = (processed \/ userEvent)
    /\ RoundReturns(userEvent /\ ~timeout)
    /\ UNCHANGED <<queues, flags, tasks, entry, callers, alive, posted, ran>>

\* while (!exitRequested && now < deadline) of the timed call.
TimedTest ==
    /\ pc = "timedTest"
    /\ \/ /\ exitRequested \/ deadline
          /\ Return("false")
       \/ /\ ~exitRequested /\ ~deadline
          /\ BeginRound("timed", TRUE)
          /\ UNCHANGED <<timer, deadline, exitRequested, result>>
    /\ UNCHANGED <<queues, flags, bell, tasks, entry, callers, alive, history>>

\* The time limit of the timed call passes.
DeadlinePasses ==
    /\ mode = "timed" /\ timer /\ ~deadline
    /\ deadline' = TRUE
    /\ UNCHANGED <<queues, flags, bell, pc, mode, wait, tasks, had, entry, timer,
                   exitRequested, result, callers, alive, history>>

DestroyDiscards ==                     \* mutant: the queued tasks are dropped
    /\ pc = "outside"
    /\ mode' = "dtor"
    /\ mPostQueue' = <<>>
    /\ pc' = "posts"
    /\ UNCHANGED <<mEventQueue, flags, bell, wait, tasks, had, entry, timer, deadline,
                   exitRequested, result, callers, alive, history>>

\* ~EventLoop drains the posted tasks.
Destroy ==
    /\ pc = "outside"
    /\ mode' = "dtor"
    /\ tasks' = mPostQueue
    /\ mPostQueue' = <<>>
    /\ pc' = "posts"
    /\ UNCHANGED <<mEventQueue, flags, bell, wait, had, entry, timer, deadline,
                   exitRequested, result, callers, alive, history>>

-----------------------------------------------------------------------------
LoopStep ==
    \/ ExecBegin \/ ExecTest \/ TakePostQueue \/ RunPosted \/ CallbackReturns
    \/ PostsDone \/ PopEvent \/ Dispatched \/ EventsDone \/ TimedTest
    \/ Poll(FALSE, FALSE)

ExitStep(c) ==
    ExitStoreCode(c) \/ ExitStoreHasCode(c) \/ ExitStoreExit(c) \/ ExitWakeUp(c)

Next ==
    \/ \E x \in Tasks : Post(x)
    \/ \E e \in Events, r \in Receivers, p \in Priorities : PostEvent(e, r, p, FALSE)
    \/ \E e \in Events, r \in Receivers : PostEvent(e, r, 0, TRUE)
    \/ \E x \in Tasks \cup Events : WakeUp(x)
    \/ \E c \in Exiters : ExitStep(c)
    \/ LoopStep
    \/ \E timeout \in BOOLEAN : Poll(TRUE, timeout)
    \/ Poll(FALSE, TRUE)
    \/ ExecCheck \/ DeadlinePasses \/ Destroy
    \/ \E m \in {"slice", "timed"}, w \in WaitFlags : ProcessEvents(m, w)

Spec == Init /\ [][Next]_vars

\* Every thread goes on with what it began; the interrupt timer repeats, and
\* the time limit of a timed call passes.  Nothing makes a user event happen.
Fairness ==
    /\ WF_vars(LoopStep)
    /\ WF_vars(Poll(FALSE, TRUE))
    /\ WF_vars(DeadlinePasses)
    /\ \A x \in Tasks \cup Events : WF_vars(WakeUp(x))
    /\ \A c \in Exiters : WF_vars(exiter[c] # "idle" /\ ExitStep(c))

FairSpec == Spec /\ Fairness

-----------------------------------------------------------------------------
(***************************************************************************)
(* Properties.                                                             *)
(***************************************************************************)
\* Every variable has its type.
TypeOK ==
    /\ mPostQueue \in Seq(Tasks) /\ tasks \in Seq(Tasks)
    /\ mEventQueue \in Seq(Entry)
    /\ {mExit, mHasExitCode, mInExec, bell, wait, had, timer,
        deadline, exitRequested, processed} \subseteq BOOLEAN
    /\ mRetCode \in Exiters \cup {None}
    /\ pc \in Pcs
    /\ mode \in {None, "exec", "slice", "timed", "dtor"}
    /\ entry \in Entry \cup {None}
    /\ result \in Exiters \cup {None, "true", "false"}
    /\ poster \in [Tasks \cup Events -> {"idle", "pushed", "done"}]
    /\ exiter \in [Exiters -> {"idle", "code", "has", "exit", "done"}]
    /\ alive \subseteq Receivers
    /\ posted \in Seq(Tasks) /\ ran \in Seq(Tasks)

\* There is something the blocked loop thread should get up for.
WorkWaiting == mPostQueue # <<>> \/ mEventQueue # <<>> \/ (mode = "exec" /\ mExit)

\* The loop thread never sleeps in uv_run over work that nobody will wake it
\* for: the bell rang, or the thread that brought the work is about to ring it.
NoLostWakeUp ==
    pc = "poll" /\ WorkWaiting =>
        \/ bell
        \/ \E x \in Tasks \cup Events : poster[x] = "pushed"
        \/ \E c \in Exiters : exiter[c] = "exit"

\* Posted tasks run in the order of their push_back, none is lost, none runs
\* twice, whatever mix of exec(), process_events() and destructor runs them.
PostedFifo == ran \o tasks \o mPostQueue = posted

\* The event queue is sorted by priority and holds at most one DeferredDeleteEvent
\* per object; and no event is dispatched to a destroyed object, although handlers
\* destroy objects that have events queued.
EventQueueSound ==
    /\ Sorted(mEventQueue)
    /\ \A i, j \in 1..Len(mEventQueue) :
           /\ mEventQueue[i].deferredDelete /\ mEventQueue[j].deferredDelete
           /\ mEventQueue[i].receiver = mEventQueue[j].receiver
           => i = j
    /\ pc = "dispatch" => entry.receiver \in alive

\* exec() returns only after an exit(), with a code some exit() passed.
ExecReturnsExitCode ==
    [][mInExec /\ ~mInExec' => mHasExitCode /\ result' \in Exiters]_vars

\* The promise of post(): a channel that runs every task once, in order.  The
\* snapshot and the queue together are what is pending.
Channel == INSTANCE TaskChannel WITH pending <- tasks \o mPostQueue
PostsAreAChannel == Channel!Spec

\* While exec() runs, every posted task is run.
PostedRuns == \A x \in Tasks :
    (poster[x] # "idle" /\ mInExec) ~> (x \in Range(ran) \/ ~mInExec)

\* exec() returns after exit(), and process_events(flags, maximum_ms) returns, whatever
\* wakes it before the time limit.
LoopReturns ==
    /\ \A c \in Exiters : (exiter[c] = "done" /\ mInExec) ~> ~mInExec
    /\ mode = "timed" /\ pc # "outside" ~> pc = "outside"
=============================================================================
