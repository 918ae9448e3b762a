------------------------------ MODULE ThreadPool ------------------------------
(***************************************************************************)
(* The priority thread pool of src/cxxkit/thread/thread_pool.cpp.          *)
(*                                                                         *)
(* Every critical section of ThreadPoolPrivate::mMutex is one action; the  *)
(* steps a worker takes outside the lock (entering run(), running a task,  *)
(* the thread_local destructor) and every join of reset() are actions of   *)
(* their own.  mMutex is a variable because try_to_start_more_threads()    *)
(* loops while its caller holds the lock and because a woken worker goes   *)
(* on to its next round without releasing it.                              *)
(*                                                                         *)
(* wait_for() on mTaskReadyCondition may return at any time (notification, *)
(* expiry timeout or spurious wake-up), so Awake needs no notification     *)
(* flag.  A Task object is submitted once.                                 *)
(***************************************************************************)
EXTENDS Integers, Sequences, FiniteSets, Functions

CONSTANTS
    Threads,          \* ThreadPoolTaskThread objects the program may create
    Tasks,            \* Task objects the callers may submit
    Priorities,       \* priorities passed to start(), at most kHighest
    kHighest,         \* Priority::kHighest
    MaxThreadCounts,  \* arguments of set_max_thread_count()
    InitialMax,       \* initial mMaxThreadCount
    ExpiryTimeouts,   \* arguments of set_expiry_timeout()
    InitialExpiry,    \* initial mExpiryTimeout
    ReserveBound,     \* bound: at most this many reserve_thread() calls pending
    ForeverWaiters,   \* threads that call wait_for_done() once
    TimedWaiters,     \* threads that call wait_for_done(msecs) once
    Caller,           \* the thread in try_to_start_more_threads()
    None              \* the null pointer

Waiters == ForeverWaiters \cup TimedWaiters

ASSUME ThreadsAssumption == IsFiniteSet(Threads)
ASSUME NoneAssumption ==
    /\ None \notin Threads \cup Tasks
    /\ Caller \notin Threads \cup {None}
ASSUME PriorityAssumption ==
    /\ Priorities \subseteq Int
    /\ kHighest \in Int
    /\ \A p \in Priorities : p <= kHighest
ASSUME CountAssumption ==
    /\ MaxThreadCounts \subseteq Int
    /\ InitialMax \in Int
    /\ ExpiryTimeouts \cup {InitialExpiry} \subseteq Int
    /\ ReserveBound \in Nat
ASSUME WaiterAssumption == ForeverWaiters \cap TimedWaiters = {}

VARIABLES
    mMutex,           \* who holds it between two actions: None, Caller or a worker
    mTaskQueue,       \* the std::set of items in iteration order
    mWaitingThreads,  \* std::list, front first
    mExpiredThreads,  \* std::list, front first
    mAllThreads,      \* keys of the std::map that owns the workers
    mActiveThreadCount, mReservedThreadCount, mMaxThreadCount, mExpiryTimeout,
    pc,               \* where each worker is in run()
    mTask,            \* ThreadPoolTaskThread::mTask
    task,             \* the local variable of run()
    mExit,            \* ThreadPoolTaskThread::mExit
    waiter,           \* where each caller of wait_for_done() is
    allThreads,       \* the map reset() moved out, per waiter
    unvisited,        \* what its loop has not reached yet
    joining,          \* the worker it is joining
    submitted,        \* history: tasks accepted by start() or try_start_now()
    completed,        \* history: tasks whose run() returned
    cancelled         \* history: tasks removed by cancel() or clear()

pool == <<mMutex, mTaskQueue, mWaitingThreads, mExpiredThreads, mAllThreads,
          mActiveThreadCount, mReservedThreadCount, mMaxThreadCount, mExpiryTimeout>>
worker == <<pc, mTask, task, mExit>>
history == <<submitted, completed, cancelled>>
waiting == <<waiter, allThreads, unvisited, joining>>
vars == <<pool, worker, waiting, history>>

Item == [task : Tasks, priority : Priorities \cup {kHighest}]

WorkerPcs == {"none",     \* object not created yet, or destroyed
              "start",    \* std::thread created, run() not entered
              "acquire",  \* run() entered, waiting for mMutex
              "loop",     \* holds mMutex at the head of the outer loop
              "running",  \* in task->run(), mMutex released
              "relock",   \* task returned, waiting for mMutex
              "next",     \* holds mMutex, about to look for the next task
              "wait",     \* in mTaskReadyCondition.wait_for
              "finish",   \* left run(): mInFinish set
              "tls",      \* thread_local destructor cleared mInFinish
              "exited"}   \* OS thread over, joinable

WaiterPcs == {"idle", "blocked", "notified", "reset", "true", "false"}

(***************************************************************************)
(* ThreadPoolTaskQueue: push, pop, cancel on the ordered set of items.     *)
(***************************************************************************)
Push(q, item) ==
    LET keep == Cardinality({i \in 1..Len(q) : q[i].priority >= item.priority})
    IN  [i \in 1..(Len(q) + 1) |->
            IF i <= keep THEN q[i] ELSE IF i = keep + 1 THEN item ELSE q[i - 1]]

Erase(s, x) ==
    LET at == CHOOSE i \in 1..Len(s) : s[i] = x
    IN  [i \in 1..(Len(s) - 1) |-> IF i < at THEN s[i] ELSE s[i + 1]]

ActiveThreadCount ==
    Cardinality(mAllThreads) - Len(mExpiredThreads) - Len(mWaitingThreads)
        + mReservedThreadCount

IsTooManyThreadsActive ==
    /\ ActiveThreadCount > mMaxThreadCount
    /\ ActiveThreadCount - mReservedThreadCount > 1

IsDoneIgnoresQueue == mActiveThreadCount = 0   \* mutants: half of the test
IsDoneIgnoresActive == mTaskQueue = <<>>

IsDone == mTaskQueue = <<>> /\ mActiveThreadCount = 0

\* ThreadPool::Thread::is_finished: neither mRunning nor mInFinish.
IsFinished(t) == pc[t] \in {"start", "tls", "exited"}

-----------------------------------------------------------------------------
Init ==
    /\ mMutex = None
    /\ mTaskQueue = <<>>
    /\ mWaitingThreads = <<>>
    /\ mExpiredThreads = <<>>
    /\ mAllThreads = {}
    /\ mActiveThreadCount = 0
    /\ mReservedThreadCount = 0
    /\ mMaxThreadCount = InitialMax
    /\ mExpiryTimeout = InitialExpiry
    /\ pc = [t \in Threads |-> "none"]
    /\ mTask = [t \in Threads |-> None]
    /\ task = [t \in Threads |-> None]
    /\ mExit = [t \in Threads |-> TRUE]
    /\ waiter = [w \in Waiters |-> "idle"]
    /\ allThreads = [w \in Waiters |-> {}]
    /\ unvisited = [w \in Waiters |-> {}]
    /\ joining = [w \in Waiters |-> None]
    /\ submitted = {}
    /\ completed = {}
    /\ cancelled = {}

-----------------------------------------------------------------------------
(***************************************************************************)
(* Starting workers.  StartThread creates a worker object; RestartThread   *)
(* reuses an expired one, whose start() first joins the old std::thread.   *)
(***************************************************************************)
Owned(t) == t \in mAllThreads \/ \E w \in Waiters : t \in allThreads[w]

\* No object, or one whose last owner let go of it after its thread was over.
Creatable(t) == pc[t] \in {"none", "exited"} /\ ~Owned(t)

StartThread(x) ==
    \E t \in Threads :
        /\ Creatable(t)
        /\ mAllThreads' = mAllThreads \cup {t}
        /\ mActiveThreadCount' = mActiveThreadCount + 1
        /\ mTask' = [mTask EXCEPT ![t] = x]
        /\ task' = [task EXCEPT ![t] = None]
        /\ mExit' = [mExit EXCEPT ![t] = TRUE]
        /\ pc' = [pc EXCEPT ![t] = "start"]

RestartUncounted(t, x) ==              \* mutant: mActiveThreadCount forgotten
    /\ pc[t] = "exited"
    /\ mTask' = [mTask EXCEPT ![t] = x]
    /\ pc' = [pc EXCEPT ![t] = "start"]
    /\ UNCHANGED <<mActiveThreadCount, mAllThreads, task, mExit>>

RestartThread(t, x) ==
    /\ pc[t] = "exited"
    /\ mActiveThreadCount' = mActiveThreadCount + 1
    /\ mTask' = [mTask EXCEPT ![t] = x]
    /\ pc' = [pc EXCEPT ![t] = "start"]
    /\ UNCHANGED <<mAllThreads, task, mExit>>

\* mutant: the limit is off by one
CanTryStartOneMore == mAllThreads = {} \/ ActiveThreadCount <= mMaxThreadCount

CanTryStart == mAllThreads = {} \/ ActiveThreadCount < mMaxThreadCount

RestUnpopped(q, pops) == q             \* mutant: try_to_start_more_threads does not pop

\* The queue after mTaskQueue.pop(), when the caller of try_start() pops.
Rest(q, pops) == IF pops THEN Tail(q) ELSE q

\* The successful outcomes of try_start(x).
TryStart(x, pops) ==
    /\ CanTryStart
    /\ \/ /\ mAllThreads # {}            \* recycle an available thread
          /\ mWaitingThreads # <<>>
          /\ mTaskQueue' = Rest(Push(mTaskQueue, [task |-> x, priority |-> kHighest]), pops)
          /\ mWaitingThreads' = Tail(mWaitingThreads)
          /\ UNCHANGED <<mExpiredThreads, mAllThreads, mActiveThreadCount, worker>>
       \/ /\ mAllThreads # {}            \* restart an expired thread
          /\ mWaitingThreads = <<>>
          /\ mExpiredThreads # <<>>
          /\ mTaskQueue' = Rest(mTaskQueue, pops)
          /\ mExpiredThreads' = Tail(mExpiredThreads)
          /\ RestartThread(Head(mExpiredThreads), x)
          /\ UNCHANGED mWaitingThreads
       \/ /\ \/ mAllThreads = {}         \* start a new thread
             \/ mWaitingThreads = <<>> /\ mExpiredThreads = <<>>
          /\ mTaskQueue' = Rest(mTaskQueue, pops)
          /\ StartThread(x)
          /\ UNCHANGED <<mWaitingThreads, mExpiredThreads>>

-----------------------------------------------------------------------------
(***************************************************************************)
(* The public operations, called from any thread (a running task too).     *)
(***************************************************************************)
\* start(): try_start, else hand the task to a waiting thread, else queue it.
Start(x, p) ==
    /\ mMutex = None
    /\ x \notin submitted
    /\ submitted' = submitted \cup {x}
    /\ \/ TryStart(x, FALSE)
       \/ /\ ~CanTryStart
          /\ mWaitingThreads # <<>>
          /\ mTask' = [mTask EXCEPT ![Head(mWaitingThreads)] = x]
          /\ mWaitingThreads' = Tail(mWaitingThreads)
          /\ UNCHANGED <<mTaskQueue, mExpiredThreads, mAllThreads,
                         mActiveThreadCount, pc, task, mExit>>
       \/ /\ ~CanTryStart
          /\ mWaitingThreads = <<>>
          /\ mTaskQueue' = Push(mTaskQueue, [task |-> x, priority |-> p])
          /\ UNCHANGED <<mWaitingThreads, mExpiredThreads, mAllThreads,
                         mActiveThreadCount, worker>>
    /\ UNCHANGED <<mMutex, mReservedThreadCount, mMaxThreadCount, mExpiryTimeout,
                   waiting, completed, cancelled>>

\* try_start_now(): a refusal (FALSE) changes nothing.
TryStartNow(x) ==
    /\ mMutex = None
    /\ x \notin submitted
    /\ submitted' = submitted \cup {x}
    /\ TryStart(x, FALSE)
    /\ UNCHANGED <<mMutex, mReservedThreadCount, mMaxThreadCount, mExpiryTimeout,
                   waiting, completed, cancelled>>

\* set_max_thread_count() up to its call of try_to_start_more_threads().
SetMaxThreadCount(n) ==
    /\ mMutex = None
    /\ n # mMaxThreadCount
    /\ mMaxThreadCount' = n
    /\ mMutex' = Caller
    /\ UNCHANGED <<mTaskQueue, mWaitingThreads, mExpiredThreads, mAllThreads,
                   mActiveThreadCount, mReservedThreadCount, mExpiryTimeout,
                   worker, waiting, history>>

\* set_expiry_timeout(): read by the next wait_for().
SetExpiryTimeout(n) ==
    /\ mMutex = None
    /\ n # mExpiryTimeout
    /\ mExpiryTimeout' = n
    /\ UNCHANGED <<mMutex, mTaskQueue, mWaitingThreads, mExpiredThreads,
                   mAllThreads, mActiveThreadCount, mReservedThreadCount,
                   mMaxThreadCount, worker, waiting, history>>

ReserveThread ==
    /\ mMutex = None
    /\ mReservedThreadCount < ReserveBound
    /\ mReservedThreadCount' = mReservedThreadCount + 1
    /\ UNCHANGED <<mMutex, mTaskQueue, mWaitingThreads, mExpiredThreads,
                   mAllThreads, mActiveThreadCount, mMaxThreadCount, mExpiryTimeout,
                   worker, waiting, history>>

\* release_thread(): may also precede its reserve_thread(), as documented.
ReleaseThread ==
    /\ mMutex = None
    /\ mReservedThreadCount > -ReserveBound
    /\ mReservedThreadCount' = mReservedThreadCount - 1
    /\ mMutex' = Caller
    /\ UNCHANGED <<mTaskQueue, mWaitingThreads, mExpiredThreads, mAllThreads,
                   mActiveThreadCount, mMaxThreadCount, mExpiryTimeout,
                   worker, waiting, history>>

\* One round of try_to_start_more_threads(), or its end.
TryToStartMoreThreads ==
    /\ mMutex = Caller
    /\ \/ /\ mTaskQueue # <<>>
          /\ TryStart(Head(mTaskQueue).task, TRUE)
          /\ UNCHANGED mMutex
       \/ /\ mTaskQueue = <<>> \/ ~CanTryStart
          /\ mMutex' = None
          /\ UNCHANGED <<mTaskQueue, mWaitingThreads, mExpiredThreads,
                         mAllThreads, mActiveThreadCount, worker>>
    /\ UNCHANGED <<mReservedThreadCount, mMaxThreadCount, mExpiryTimeout,
                   waiting, history>>

\* cancel(): the items of the task go (one, as a task is submitted once); a
\* task that was started is kept.
Cancel(x) ==
    /\ mMutex = None
    /\ \E item \in Range(mTaskQueue) :
           item.task = x /\ mTaskQueue' = Erase(mTaskQueue, item)
    /\ cancelled' = cancelled \cup {x}
    /\ UNCHANGED <<mMutex, mWaitingThreads, mExpiredThreads, mAllThreads,
                   mActiveThreadCount, mReservedThreadCount, mMaxThreadCount, mExpiryTimeout,
                   worker, waiting, submitted, completed>>

Clear ==
    /\ mMutex = None
    /\ mTaskQueue # <<>>
    /\ cancelled' = cancelled \cup {item.task : item \in Range(mTaskQueue)}
    /\ mTaskQueue' = <<>>
    /\ UNCHANGED <<mMutex, mWaitingThreads, mExpiredThreads, mAllThreads,
                   mActiveThreadCount, mReservedThreadCount, mMaxThreadCount, mExpiryTimeout,
                   worker, waiting, submitted, completed>>

-----------------------------------------------------------------------------
(***************************************************************************)
(* ThreadPoolTaskThread::run and the thread_local destructor.              *)
(***************************************************************************)

NotifyBeforeDecrement(count) ==        \* mutant: the count tested before --
    waiter' = [w \in Waiters |-> IF count + 1 = 0 /\ waiter[w] = "blocked"
                                 THEN "notified" ELSE waiter[w]]

\* notify_all on mNoActiveThreadsCondition when the count reached zero.
NotifyNoActive(count) ==
    waiter' = [w \in Waiters |-> IF count = 0 /\ waiter[w] = "blocked"
                                 THEN "notified" ELSE waiter[w]]

\* run(): mExit cleared, mRunning set, before mMutex is taken.
RunEnter(t) ==
    /\ pc[t] = "start"
    /\ mExit' = [mExit EXCEPT ![t] = FALSE]
    /\ pc' = [pc EXCEPT ![t] = "acquire"]
    /\ UNCHANGED <<pool, mTask, task, waiting, history>>

\* Head of the outer loop: leave, run the task handed over, or look for one.
Loop(t) ==
    /\ \/ pc[t] = "acquire" /\ mMutex = None
       \/ pc[t] = "loop" /\ mMutex = t
    /\ IF mExit[t]
       THEN /\ pc' = [pc EXCEPT ![t] = "finish"]
            /\ mMutex' = None
            /\ UNCHANGED <<mTask, task>>
       ELSE /\ task' = [task EXCEPT ![t] = mTask[t]]
            /\ mTask' = [mTask EXCEPT ![t] = None]
            /\ pc' = [pc EXCEPT ![t] = IF mTask[t] # None THEN "running" ELSE "next"]
            /\ mMutex' = IF mTask[t] # None THEN None ELSE t
    /\ UNCHANGED <<mTaskQueue, mWaitingThreads, mExpiredThreads, mAllThreads,
                   mActiveThreadCount, mReservedThreadCount, mMaxThreadCount, mExpiryTimeout,
                   mExit, waiting, history>>

\* task->run() returns.
RunTask(t) ==
    /\ pc[t] = "running"
    /\ completed' = completed \cup {task[t]}
    /\ task' = [task EXCEPT ![t] = None]
    /\ pc' = [pc EXCEPT ![t] = "relock"]
    /\ UNCHANGED <<pool, mTask, mExit, waiting, submitted, cancelled>>

HasLock(t) == \/ pc[t] = "relock" /\ mMutex = None
              \/ pc[t] = "next" /\ mMutex = t

\* The inner loop pops a task and goes round.
PopTask(t) ==
    /\ HasLock(t)
    /\ ~IsTooManyThreadsActive
    /\ mTaskQueue # <<>>
    /\ ~mExit[t]
    /\ task' = [task EXCEPT ![t] = Head(mTaskQueue).task]
    /\ mTaskQueue' = Tail(mTaskQueue)
    /\ pc' = [pc EXCEPT ![t] = "running"]
    /\ mMutex' = None
    /\ UNCHANGED <<mWaitingThreads, mExpiredThreads, mAllThreads,
                   mActiveThreadCount, mReservedThreadCount, mMaxThreadCount, mExpiryTimeout,
                   mTask, mExit, waiting, history>>

\* Too many threads are active (or mExit): the worker expires itself; a task
\* popped just before mExit was seen would be dropped with the local variable.
Expire(t) ==
    /\ HasLock(t)
    /\ IsTooManyThreadsActive \/ mExit[t]
    /\ mTaskQueue' = IF ~IsTooManyThreadsActive /\ mTaskQueue # <<>>
                     THEN Tail(mTaskQueue) ELSE mTaskQueue
    /\ mExpiredThreads' = Append(mExpiredThreads, t)
    /\ mActiveThreadCount' = mActiveThreadCount - 1
    /\ NotifyNoActive(mActiveThreadCount - 1)
    /\ pc' = [pc EXCEPT ![t] = "finish"]
    /\ mMutex' = None
    /\ UNCHANGED <<mWaitingThreads, mAllThreads, mReservedThreadCount,
                   mMaxThreadCount, mExpiryTimeout, mTask, task, mExit,
                   allThreads, unvisited, joining, history>>

\* Nothing to do: wait for work on mTaskReadyCondition.
WaitForWork(t) ==
    /\ HasLock(t)
    /\ ~IsTooManyThreadsActive
    /\ mTaskQueue = <<>>
    /\ ~mExit[t]
    /\ mWaitingThreads' = Append(mWaitingThreads, t)
    /\ mActiveThreadCount' = mActiveThreadCount - 1
    /\ NotifyNoActive(mActiveThreadCount - 1)
    /\ pc' = [pc EXCEPT ![t] = "wait"]
    /\ mMutex' = None
    /\ UNCHANGED <<mTaskQueue, mExpiredThreads, mAllThreads,
                   mReservedThreadCount, mMaxThreadCount, mExpiryTimeout, mTask, task, mExit,
                   allThreads, unvisited, joining, history>>

\* wait_for() returned to a worker that someone took off the waiting list.
Awake(t) ==
    /\ pc[t] = "wait"
    /\ mMutex = None
    /\ t \notin Range(mWaitingThreads)
    /\ t \in mAllThreads
    /\ mActiveThreadCount' = mActiveThreadCount + 1
    /\ pc' = [pc EXCEPT ![t] = "loop"]
    /\ mMutex' = t
    /\ UNCHANGED <<mTaskQueue, mWaitingThreads, mExpiredThreads, mAllThreads,
                   mReservedThreadCount, mMaxThreadCount, mExpiryTimeout, mTask, task, mExit,
                   waiting, history>>

\* wait_for() returned to a worker still on the waiting list, or to one that
\* reset() removed: the count goes up and down again and run() is left.
AwakeAndLeave(t) ==
    /\ pc[t] = "wait"
    /\ mMutex = None
    /\ t \in Range(mWaitingThreads) \/ t \notin mAllThreads
    /\ mWaitingThreads' = IF t \in Range(mWaitingThreads)
                          THEN Erase(mWaitingThreads, t) ELSE mWaitingThreads
    /\ mExpiredThreads' = IF t \in mAllThreads
                          THEN Append(mExpiredThreads, t) ELSE mExpiredThreads
    /\ NotifyNoActive(mActiveThreadCount)
    /\ pc' = [pc EXCEPT ![t] = "finish"]
    /\ UNCHANGED <<mMutex, mTaskQueue, mAllThreads, mActiveThreadCount,
                   mReservedThreadCount, mMaxThreadCount, mExpiryTimeout, mTask, task, mExit,
                   allThreads, unvisited, joining, history>>

\* ~ThreadPoolLocalData clears mInFinish and mRunning ...
TlsClear(t) ==
    /\ pc[t] = "finish"
    /\ pc' = [pc EXCEPT ![t] = "tls"]
    /\ UNCHANGED <<pool, mTask, task, mExit, waiting, history>>

\* ... then drops its reference; after that the OS thread is over.
TlsDrop(t) ==
    /\ pc[t] = "tls"
    /\ pc' = [pc EXCEPT ![t] = "exited"]
    /\ UNCHANGED <<pool, mTask, task, mExit, waiting, history>>

-----------------------------------------------------------------------------
(***************************************************************************)
(* wait_for_done() and reset().  The first part of reset() runs in the     *)
(* critical section that found is_done().                                  *)
(***************************************************************************)
BeginReset(w) ==
    /\ IsDone
    /\ waiter' = [waiter EXCEPT ![w] = "reset"]
    /\ allThreads' = [allThreads EXCEPT ![w] = mAllThreads]
    /\ unvisited' = [unvisited EXCEPT ![w] = mAllThreads]
    /\ mAllThreads' = {}
    /\ mWaitingThreads' = <<>>
    /\ mExpiredThreads' = <<>>

StayInWait(w, state) ==
    /\ waiter' = [waiter EXCEPT ![w] = state]
    /\ UNCHANGED <<allThreads, unvisited, mAllThreads, mWaitingThreads, mExpiredThreads>>

\* wait_for_done(kWaitForeverMSecs): the predicate is tested before waiting.
WaitForDone(w) ==
    /\ waiter[w] = "idle"
    /\ mMutex = None
    /\ IF w \in ForeverWaiters /\ IsDone THEN BeginReset(w) ELSE StayInWait(w, "blocked")
    /\ UNCHANGED <<mMutex, mTaskQueue, mActiveThreadCount, mReservedThreadCount,
                   mMaxThreadCount, mExpiryTimeout, worker, joining, history>>

\* A notified wait without timeout re-tests its predicate.
WakeForever(w) ==
    /\ w \in ForeverWaiters
    /\ waiter[w] = "notified"
    /\ mMutex = None
    /\ IF IsDone THEN BeginReset(w) ELSE StayInWait(w, "blocked")
    /\ UNCHANGED <<mMutex, mTaskQueue, mActiveThreadCount, mReservedThreadCount,
                   mMaxThreadCount, mExpiryTimeout, worker, joining, history>>

\* A wait without timeout may also wake with no notification.
WakeSpuriously(w) ==
    /\ w \in ForeverWaiters
    /\ waiter[w] = "blocked"
    /\ mMutex = None
    /\ BeginReset(w)
    /\ UNCHANGED <<mMutex, mTaskQueue, mActiveThreadCount, mReservedThreadCount,
                   mMaxThreadCount, mExpiryTimeout, worker, joining, history>>

\* A timed wait has no predicate: a notification, the deadline or a spurious
\* wake-up ends it, and is_done() decides.
WakeTimed(w) ==
    /\ w \in TimedWaiters
    /\ waiter[w] \in {"blocked", "notified"}
    /\ mMutex = None
    /\ IF IsDone THEN BeginReset(w) ELSE StayInWait(w, "false")
    /\ UNCHANGED <<mMutex, mTaskQueue, mActiveThreadCount, mReservedThreadCount,
                   mMaxThreadCount, mExpiryTimeout, worker, joining, history>>

\* The loop of reset(), outside the lock: a finished worker is passed over,
\* any other one is told to exit and joined.
Visit(w, t) ==
    /\ waiter[w] = "reset"
    /\ joining[w] = None
    /\ t \in unvisited[w]
    /\ IF IsFinished(t)
       THEN /\ unvisited' = [unvisited EXCEPT ![w] = @ \ {t}]
            /\ UNCHANGED <<joining, mExit>>
       ELSE /\ joining' = [joining EXCEPT ![w] = t]
            /\ mExit' = [mExit EXCEPT ![t] = TRUE]
            /\ UNCHANGED unvisited
    /\ UNCHANGED <<pool, pc, mTask, task, waiter, allThreads, history>>

Joined(w) ==
    /\ joining[w] # None
    /\ pc[joining[w]] = "exited"
    /\ unvisited' = [unvisited EXCEPT ![w] = @ \ {joining[w]}]
    /\ joining' = [joining EXCEPT ![w] = None]
    /\ UNCHANGED <<pool, worker, waiter, allThreads, history>>

\* reset() takes the lock again and releases the workers; wait_for_done()
\* returns is_done(), or goes on waiting if more work came in meanwhile and
\* there is time left.
EndReset(w) ==
    /\ waiter[w] = "reset"
    /\ unvisited[w] = {}
    /\ mMutex = None
    /\ allThreads' = [allThreads EXCEPT ![w] = {}]
    /\ \/ IsDone /\ waiter' = [waiter EXCEPT ![w] = "true"]
       \/ ~IsDone /\ waiter' = [waiter EXCEPT ![w] = "blocked"]
       \/ ~IsDone /\ w \in TimedWaiters /\ waiter' = [waiter EXCEPT ![w] = "false"]
    /\ UNCHANGED <<pool, worker, unvisited, joining, history>>

-----------------------------------------------------------------------------
WorkerStep(t) ==
    \/ RunEnter(t) \/ Loop(t) \/ RunTask(t) \/ PopTask(t) \/ Expire(t)
    \/ WaitForWork(t) \/ Awake(t) \/ AwakeAndLeave(t) \/ TlsClear(t) \/ TlsDrop(t)

WaiterStep(w) ==
    \/ WakeForever(w) \/ WakeTimed(w) \/ (\E t \in Threads : Visit(w, t))
    \/ Joined(w) \/ EndReset(w)

Next ==
    \/ \E x \in Tasks, p \in Priorities : Start(x, p)
    \/ \E x \in Tasks : TryStartNow(x)
    \/ \E n \in MaxThreadCounts : SetMaxThreadCount(n)
    \/ \E n \in ExpiryTimeouts : SetExpiryTimeout(n)
    \/ ReserveThread
    \/ ReleaseThread
    \/ TryToStartMoreThreads
    \/ \E x \in Tasks : Cancel(x)
    \/ Clear
    \/ \E t \in Threads : WorkerStep(t)
    \/ \E w \in Waiters : WaitForDone(w) \/ WakeSpuriously(w) \/ WaiterStep(w)

Spec == Init /\ [][Next]_vars

\* The OS runs every thread that can run and lets every thread that keeps
\* asking for mMutex have it at some time (hence strong fairness), tasks
\* return, and a wait_for() ends by notification or timeout.
Fairness ==
    /\ \A t \in Threads : SF_vars(WorkerStep(t))
    /\ \A w \in Waiters : SF_vars(WaiterStep(w))
    /\ WF_vars(TryToStartMoreThreads)

FairSpec == Spec /\ Fairness

-----------------------------------------------------------------------------
(***************************************************************************)
(* Properties.                                                             *)
(***************************************************************************)

\* Every variable has its type.
TypeOK ==
    /\ mMutex \in Threads \cup {Caller, None}
    /\ mTaskQueue \in Seq(Item)
    /\ mWaitingThreads \in Seq(Threads)
    /\ mExpiredThreads \in Seq(Threads)
    /\ mAllThreads \subseteq Threads
    /\ mActiveThreadCount \in Int
    /\ mReservedThreadCount \in Int
    /\ mMaxThreadCount \in Int
    /\ mExpiryTimeout \in Int
    /\ pc \in [Threads -> WorkerPcs]
    /\ mTask \in [Threads -> Tasks \cup {None}]
    /\ task \in [Threads -> Tasks \cup {None}]
    /\ mExit \in [Threads -> BOOLEAN]
    /\ waiter \in [Waiters -> WaiterPcs]
    /\ allThreads \in [Waiters -> SUBSET Threads]
    /\ unvisited \in [Waiters -> SUBSET Threads]
    /\ joining \in [Waiters -> Threads \cup {None}]
    /\ submitted \subseteq Tasks
    /\ completed \subseteq Tasks
    /\ cancelled \subseteq Tasks

\* Places in run() where a worker is counted in mActiveThreadCount.
ActivePcs == {"start", "acquire", "loop", "running", "relock", "next"}

\* mActiveThreadCount is exactly the number of workers between start() and
\* register_thread_inactive(), whatever reset(), expiry and recycling do.
ActiveCountExact ==
    mActiveThreadCount = Cardinality({t \in Threads : pc[t] \in ActivePcs})

\* A list without repetitions.
Distinct(s) == \A i, j \in 1..Len(s) : s[i] = s[j] => i = j

\* The waiting list holds workers of the pool that are in wait_for(), the
\* expired list workers that left run(); no worker is listed twice, so
\* try_start() neither wakes a busy worker nor restarts one that runs
\* (the assertion of ThreadPoolTaskThread::start).
ListsConsistent ==
    /\ Distinct(mWaitingThreads) /\ Distinct(mExpiredThreads)
    /\ \A t \in Range(mWaitingThreads) :
           t \in mAllThreads /\ pc[t] = "wait" /\ mTask[t] = None
    /\ \A t \in Range(mExpiredThreads) :
           t \in mAllThreads /\ pc[t] \in {"finish", "tls", "exited"} /\ mTask[t] = None

\* A worker that is active belongs to the pool and was not told to exit, so
\* no task is dropped by the mExit tests of run().
ActiveWorkersOwned ==
    \A t \in Threads : pc[t] \in ActivePcs =>
        t \in mAllThreads /\ (pc[t] # "start" => ~mExit[t])

\* The workers a reset() moved out of the pool are not in it, and its loop
\* visits only them.
RemovedWorkers ==
    \A w \in Waiters : unvisited[w] \subseteq allThreads[w]
                       /\ mAllThreads \cap allThreads[w] = {}

\* The local variables and members of a worker where run() relies on them.
WorkerLocals ==
    \A t \in Threads :
        /\ pc[t] = "wait" /\ t \in mAllThreads => ~mExit[t]
        /\ pc[t] \in {"running", "relock", "next"} => mTask[t] = None
        /\ pc[t] = "running" => task[t] # None

\* The inductive invariant behind the bookkeeping properties.
IInv == /\ TypeOK /\ ActiveCountExact /\ ListsConsistent
        /\ ActiveWorkersOwned /\ RemovedWorkers /\ WorkerLocals

\* Where a task that was accepted and not finished is.
Places(x) == {<<"queue", i>> : i \in {j \in 1..Len(mTaskQueue) : mTaskQueue[j].task = x}}
             \cup {<<"held", t>> : t \in {u \in Threads : mTask[u] = x}}
             \cup {<<"local", t>> : t \in {u \in Threads : task[u] = x}}

\* A submission is never duplicated: not by the second copy that
\* try_to_start_more_threads() pushes and pops, not by a restart.
NoTaskTwice ==
    \A x \in Tasks : /\ Cardinality(Places(x)) <= 1
                     /\ x \in completed \cup cancelled => Places(x) = {}
                     /\ ~(x \in completed /\ x \in cancelled)

\* A task that was accepted is queued, or with a worker that will run it,
\* until it has run or was cancelled.
NoTaskLost ==
    \A x \in submitted \ (completed \cup cancelled) :
        \/ \E i \in 1..Len(mTaskQueue) : mTaskQueue[i].task = x
        \/ \E t \in mAllThreads : task[t] = x /\ pc[t] = "running"
        \/ \E t \in mAllThreads : mTask[t] = x /\ pc[t] \in {"start", "acquire", "loop", "wait"}

\* No more than max_thread_count() tasks run at the same time, also while
\* wait_for_done() is replacing the workers.
RunningWithinMax ==
    Cardinality({t \in Threads : pc[t] = "running"}) <= mMaxThreadCount

\* wait_for_done() returns true only when every accepted task has run or was
\* cancelled.
DoneMeansDone ==
    [][\A w \in Waiters : waiter[w] # "true" /\ waiter'[w] = "true"
           => submitted \subseteq completed \cup cancelled]_vars

\* Every accepted task is run or cancelled in the end, and a caller of wait_for_done()
\* without timeout returns, once the finitely many tasks are through.
WorkFinishes ==
    /\ \A x \in Tasks : x \in submitted ~> x \in completed \cup cancelled
    /\ \A w \in ForeverWaiters : waiter[w] = "blocked" ~> waiter[w] = "true"
=============================================================================
