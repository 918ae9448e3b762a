------------------------------ MODULE ObjectTimer ------------------------------
(***************************************************************************)
(* Timers of objects: Object::start_timer(), kill_timer() and the part of  *)
(* the destructor that stops timers, over EventLoop::start_timer() and the *)
(* libuv dispatcher.  One loop, whose thread all objects belong to.        *)
(***************************************************************************)
EXTENDS UvEventDispatcher

CONSTANT Objects

VARIABLES
    mNextTimerId,
    timer,           \* what the closure of an id captured: [owner, repeat]
    mActiveTimers,   \* per object
    gone,            \* "no", or where an object was destroyed
    mPostQueue,      \* zero one-shots: closures of ids in EventLoop's post queue
    inExec,          \* does exec() run, so that current() is the loop?
    tick,            \* the timer closure that runs
    killed,          \* history: ids kill_timer() was called for
    ticks            \* history: delivered ticks of one-shot timers

objVars == <<mNextTimerId, timer, mActiveTimers, gone, mPostQueue, inExec, tick, killed, ticks>>
allVars == <<uvVars, objVars>>

Alive(x) == gone[x] = "no"

TimerInit ==
    /\ UvInit
    /\ mNextTimerId = 0
    /\ timer = [id \in Ids |-> None]
    /\ mActiveTimers = [x \in Objects |-> {}]
    /\ gone = [x \in Objects |-> "no"]
    /\ mPostQueue = <<>>
    /\ inExec = FALSE
    /\ tick = None
    /\ killed = {}
    /\ ticks = [id \in Ids |-> 0]

-----------------------------------------------------------------------------
\* A one-shot timer of no delay is posted; its id names nothing in the dispatcher.
StartTimer(x, repeat, zero) ==
    /\ InUserCode /\ inExec /\ Alive(x)
    /\ mNextTimerId + 1 \in Ids
    /\ mNextTimerId' = mNextTimerId + 1
    /\ timer' = [timer EXCEPT ![mNextTimerId'] = [owner |-> x, repeat |-> repeat]]
    /\ mActiveTimers' = [mActiveTimers EXCEPT ![x] = @ \cup {mNextTimerId'}]
    /\ IF zero /\ ~repeat
       THEN mPostQueue' = Append(mPostQueue, mNextTimerId') /\ UNCHANGED uvVars
       ELSE UvStartTimer(mNextTimerId', zero) /\ UNCHANGED mPostQueue
    /\ UNCHANGED <<gone, inExec, tick, killed, ticks>>

KillTimerInLoop(x, id) ==              \* mutant: the id stays in mActiveTimers
    /\ InUserCode /\ inExec /\ Alive(x)
    /\ timer[id] # None /\ timer[id].owner = x
    /\ UvStopTimers({id})
    /\ killed' = killed \cup {id}
    /\ UNCHANGED <<mPolls, stage, inflight, running, regs, mActiveTimers,
                   mNextTimerId, timer, gone, mPostQueue, inExec, tick, ticks>>

KillTimer(x, id) ==
    /\ InUserCode /\ inExec /\ Alive(x)
    /\ timer[id] # None /\ timer[id].owner = x
    /\ mActiveTimers' = [mActiveTimers EXCEPT ![x] = @ \ {id}]
    /\ UvStopTimers({id})
    /\ killed' = killed \cup {id}
    /\ UNCHANGED <<mPolls, stage, inflight, running, regs,
                   mNextTimerId, timer, gone, mPostQueue, inExec, tick, ticks>>

DestroyKeepsTimers(x) ==               \* mutant: the destructor stops no timer
    /\ InUserCode /\ Alive(x)
    /\ gone' = [gone EXCEPT ![x] = IF inExec THEN "in exec" ELSE "outside exec"]
    /\ mActiveTimers' = [mActiveTimers EXCEPT ![x] = {}]
    /\ UNCHANGED <<uvVars, mNextTimerId, timer, mPostQueue, inExec, tick, killed, ticks>>

\* ~Object stops the timers if current() is the object's loop.
DestroyObject(x) ==
    /\ InUserCode /\ Alive(x)
    /\ gone' = [gone EXCEPT ![x] = IF inExec THEN "in exec" ELSE "outside exec"]
    /\ mActiveTimers' = [mActiveTimers EXCEPT ![x] = {}]
    /\ IF inExec THEN UvStopTimers(mActiveTimers[x]) ELSE UNCHANGED <<heap, retired, mTimers>>
    /\ UNCHANGED <<mPolls, stage, inflight, running, regs,
                   mNextTimerId, timer, mPostQueue, inExec, tick, killed, ticks>>

-----------------------------------------------------------------------------
\* The closure: it reads mActiveTimers of its owner, whether that exists or not,
\* and delivers a TimerEvent if its id is there.
RunClosure(id, posted) ==
    LET x == timer[id].owner
        delivered == Alive(x) /\ id \in mActiveTimers[x]
    IN  /\ tick' = [id |-> id, posted |-> posted, delivered |-> delivered]
        /\ ticks' = IF delivered /\ ~timer[id].repeat /\ ticks[id] < 2
                    THEN [ticks EXCEPT ![id] = @ + 1] ELSE ticks

TimerExpires(h) ==
    /\ Expire(h, ~timer[heap[h].key].repeat)
    /\ RunClosure(heap[h].key, FALSE)
    /\ UNCHANGED <<mNextTimerId, timer, mActiveTimers, gone, mPostQueue, inExec, killed>>

\* EventLoop::process_events() runs what was posted before it asks the dispatcher.
RunPosted ==
    /\ stage = "outside" /\ running = None
    /\ mPostQueue # <<>>
    /\ mPostQueue' = Tail(mPostQueue)
    /\ running' = [handle |-> None, fn |-> 0]
    /\ RunClosure(Head(mPostQueue), TRUE)
    /\ UNCHANGED <<mTimers, mPolls, heap, stage, inflight, regs, retired,
                   mNextTimerId, timer, mActiveTimers, gone, inExec, killed>>

CallbackReturns ==
    /\ running # None
    /\ running' = None
    /\ tick' = None
    /\ UNCHANGED <<mTimers, mPolls, heap, stage, inflight, regs, retired,
                   mNextTimerId, timer, mActiveTimers, gone, mPostQueue, inExec, killed, ticks>>

\* exec() begins and ends between rounds; rounds also run outside it.
ExecToggles ==
    /\ stage = "outside" /\ running = None
    /\ inExec' = ~inExec
    /\ UNCHANGED <<uvVars, mNextTimerId, timer, mActiveTimers, gone, mPostQueue, tick, killed,
                   ticks>>

Round == mPostQueue = <<>> /\ BeginRound /\ UNCHANGED objVars
ServePoll(h, ok) == PollReady(h, ok) /\ UNCHANGED objVars
RoundGoesOn == (TimersDone \/ RoundEnds) /\ UNCHANGED objVars
LoopDies == ~inExec /\ mPostQueue = <<>> /\ Teardown /\ UNCHANGED objVars

UserPolls(fd) ==
    (RegisterSocketNotifier(fd) \/ UnregisterSocketNotifier(fd)) /\ UNCHANGED objVars

InRound ==
    \/ CallbackReturns \/ RoundGoesOn
    \/ \E h \in inflight, ok \in BOOLEAN : ServePoll(h, ok)

TimerNext ==
    \/ \E x \in Objects, repeat, zero \in BOOLEAN : StartTimer(x, repeat, zero)
    \/ \E x \in Objects, id \in Ids : KillTimer(x, id)
    \/ \E x \in Objects : DestroyObject(x)
    \/ \E fd \in Fds : UserPolls(fd)
    \/ \E h \in 1..Len(heap) : TimerExpires(h)
    \/ RunPosted \/ Round \/ InRound \/ ExecToggles \/ LoopDies

\* The loop thread goes on, callbacks return, exec() runs round after round, and
\* time passes: a timer that stays armed is due in some round.
TimerSpec ==
    /\ TimerInit /\ [][TimerNext]_allVars
    /\ WF_allVars(InRound)
    /\ WF_allVars(inExec /\ (RunPosted \/ Round))
    /\ \A h \in 1..MaxRegs : SF_allVars(h <= Len(heap) /\ TimerExpires(h))

-----------------------------------------------------------------------------
\* "Active timers are stopped by ~Object when destruction runs on the affinity
\* thread": no closure runs for a destroyed object, but for an object destroyed
\* on that thread outside exec(), and for a one-shot timer of no delay, which is
\* posted and cannot be stopped.  And a one-shot timer ticks once, although the
\* dispatcher repeats it.
TicksAllowed ==
    /\ tick # None /\ gone[timer[tick.id].owner] # "no" =>
          tick.posted \/ gone[timer[tick.id].owner] = "outside exec" \/ tick.delivered
    /\ \A id \in Ids : ticks[id] <= 1

\* No callback of the dispatcher begins after its registration was stopped, and a tick
\* after kill_timer() is inert, as the code promises, also one that was posted before.
KilledIsSilent ==
    [][/\ BeginsRegistered
       /\ tick = None /\ tick' # None /\ tick'.delivered => tick'.id \notin killed]_allVars

\* While exec() runs a repeating timer keeps ticking until it is stopped; not so
\* a period of 0, which libuv takes for no repeat.
RepeatingTicks ==
    \A id \in Ids :
        (inExec /\ mTimers[id] # None /\ timer[id].repeat /\ ~heap[mTimers[id]].zero)
            ~> (tick # None /\ tick.id = id) \/ mTimers[id] = None \/ ~inExec
=============================================================================
