---------------------------- MODULE EventLoopProofs ----------------------------
(***************************************************************************)
(* Proofs about EventLoop for every set of tasks, events, receivers and    *)
(* callers of exit(): no wake-up is lost, posted tasks run once and in     *)
(* order, and post() implements TaskChannel.                               *)
(***************************************************************************)
EXTENDS EventLoop, TLAPS

-----------------------------------------------------------------------------
(* Sequences. *)

\* A queue that is taken whole: nothing before or behind it.
LEMMA ConcatEmpty ==
    ASSUME NEW S, NEW s \in Seq(S)
    PROVE  s \o <<>> = s /\ <<>> \o s = s
OBVIOUS

\* Concatenation of the three parts of the history is typed.
LEMMA ConcatType ==
    ASSUME NEW S, NEW s \in Seq(S), NEW t \in Seq(S)
    PROVE  s \o t \in Seq(S)
OBVIOUS

\* push_back on the last of two queues is push_back on the two together.
LEMMA ConcatAppend ==
    ASSUME NEW S, NEW s \in Seq(S), NEW t \in Seq(S), NEW x \in S
    PROVE  s \o Append(t, x) = Append(s \o t, x)
<1> DEFINE l == s \o Append(t, x)
           r == Append(s \o t, x)
<1>1. l \in Seq(S) /\ r \in Seq(S) /\ Len(l) = Len(r)
    OBVIOUS
<1>2. ASSUME NEW i \in 1..Len(l) PROVE l[i] = r[i]
    OBVIOUS
<1> QED BY <1>1, <1>2

\* Moving the head of a queue to the end of the one before it.
LEMMA MoveHead ==
    ASSUME NEW S, NEW s \in Seq(S), NEW t \in Seq(S), t # <<>>
    PROVE  /\ Head(t) \in S /\ Tail(t) \in Seq(S)
           /\ Append(s, Head(t)) \in Seq(S)
           /\ Append(s, Head(t)) \o Tail(t) = s \o t
<1> DEFINE l == Append(s, Head(t)) \o Tail(t)
           r == s \o t
<1>0. Head(t) \in S /\ Tail(t) \in Seq(S) /\ Len(t) \in Nat \ {0}
    OBVIOUS
<1>1. l \in Seq(S) /\ r \in Seq(S) /\ Len(l) = Len(r)
    BY <1>0
<1>2. ASSUME NEW i \in 1..Len(l) PROVE l[i] = r[i]
    BY <1>0
<1> QED BY <1>0, <1>1, <1>2

\* The head of two queues taken together is the head of the first.
LEMMA HeadOfConcat ==
    ASSUME NEW S, NEW s \in Seq(S), NEW t \in Seq(S), s # <<>>
    PROVE  /\ s \o t # <<>>
           /\ Head(s \o t) = Head(s)
           /\ Tail(s \o t) = Tail(s) \o t
<1>0. Head(s) \in S /\ Tail(s) \in Seq(S) /\ Len(s) \in Nat \ {0} /\ s \o t \in Seq(S)
    OBVIOUS
<1>1. s \o t # <<>> /\ Head(s \o t) = Head(s)
    BY <1>0
<1> DEFINE l == Tail(s \o t)
           r == Tail(s) \o t
<1>2. l \in Seq(S) /\ r \in Seq(S) /\ Len(l) = Len(r)
    BY <1>0, <1>1
<1>3. ASSUME NEW i \in 1..Len(l) PROVE l[i] = r[i]
    BY <1>0, <1>1
<1> QED BY <1>1, <1>2, <1>3

-----------------------------------------------------------------------------
(* The inductive invariant. *)

\* The steps of a round that come after take_post_queue().
Drained == {"posts", "callback", "events", "dispatch", "poll"}

\* Somebody pushed and has yet to ring the bell.
Pushed == \E x \in Tasks \cup Events : poster[x] = "pushed"
Exiting == \E c \in Exiters : exiter[c] = "exit"

Typed ==
    /\ poster \in [Tasks \cup Events -> {"idle", "pushed", "done"}]
    /\ exiter \in [Exiters -> {"idle", "code", "has", "exit", "done"}]
    /\ mPostQueue \in Seq(Tasks) /\ tasks \in Seq(Tasks)
    /\ posted \in Seq(Tasks) /\ ran \in Seq(Tasks)

\* The snapshot is empty except while it is being run.
SnapshotUsed == pc \notin {"posts", "callback"} => tasks = <<>>

\* Work that arrived after the round looked for it has rung the bell, or will.
TasksSeen == pc \in Drained /\ mPostQueue # <<>> => bell \/ Pushed
EventsSeen == pc = "poll" /\ mEventQueue # <<>> => bell \/ Pushed
ExitSeen == pc \in Drained \cup {"drain"} /\ mode = "exec" /\ mExit => bell \/ Exiting

IInv == Typed /\ SnapshotUsed /\ PostedFifo /\ TasksSeen /\ EventsSeen /\ ExitSeen

\* The invariant holds initially.
LEMMA InitIInv == Init => IInv
<1> SUFFICES ASSUME Init PROVE IInv
    OBVIOUS
<1>1. Typed /\ SnapshotUsed
    BY DEF Init, Typed, SnapshotUsed
<1>2. PostedFifo
    BY DEF Init, PostedFifo
<1>3. TasksSeen /\ EventsSeen /\ ExitSeen
    BY DEF Init, TasksSeen, EventsSeen, ExitSeen, Drained
<1> QED BY <1>1, <1>2, <1>3 DEF IInv

\* post()'s push_back preserves the invariant: the poster is yet to ring.
LEMMA PostIInv == ASSUME IInv, NEW x \in Tasks, Post(x) PROVE IInv'
<1>1. Typed'
    BY DEF IInv, Typed, Post, local
<1>2. SnapshotUsed'
    BY DEF IInv, SnapshotUsed, Post, local
<1>3. PostedFifo'
    <2>1. ran \o tasks \in Seq(Tasks)
        BY ConcatType DEF IInv, Typed
    <2>2. (ran \o tasks) \o Append(mPostQueue, x) = Append((ran \o tasks) \o mPostQueue, x)
        BY <2>1, ConcatAppend DEF IInv, Typed
    <2> QED BY <2>2 DEF IInv, PostedFifo, Post, local
<1>4. Pushed'
    BY DEF IInv, Typed, Post, Pushed
<1>5. ExitSeen'
    BY DEF IInv, ExitSeen, Exiting, Post, flags, local, Drained
<1> QED BY <1>1, <1>2, <1>3, <1>4, <1>5 DEF IInv, TasksSeen, EventsSeen

\* So does post_event().
LEMMA PostEventIInv ==
    ASSUME IInv, NEW e \in Events, NEW r, NEW p, NEW d, PostEvent(e, r, p, d)
    PROVE  IInv'
<1>1. Typed'
    BY DEF IInv, Typed, PostEvent, local, history
<1>2. SnapshotUsed' /\ PostedFifo'
    BY DEF IInv, SnapshotUsed, PostedFifo, PostEvent, local, history
<1>4. Pushed'
    BY DEF IInv, Typed, PostEvent, Pushed
<1>5. ExitSeen'
    BY DEF IInv, ExitSeen, Exiting, PostEvent, flags, local, Drained
<1> QED BY <1>1, <1>2, <1>4, <1>5 DEF IInv, TasksSeen, EventsSeen

\* The bell.
LEMMA WakeUpIInv == ASSUME IInv, NEW x \in Tasks \cup Events, WakeUp(x) PROVE IInv'
<1>1. Typed'
    BY DEF IInv, Typed, WakeUp, queues, local, history
<1>2. SnapshotUsed' /\ PostedFifo'
    BY DEF IInv, SnapshotUsed, PostedFifo, WakeUp, local, history, queues
<1>3. bell'
    BY DEF WakeUp
<1> QED BY <1>1, <1>2, <1>3 DEF IInv, TasksSeen, EventsSeen, ExitSeen

\* The four steps of exit().
LEMMA ExitIInv == ASSUME IInv, NEW c \in Exiters, ExitStep(c) PROVE IInv'
<1>1. Typed'
    BY DEF IInv, Typed, ExitStep, ExitStoreCode, ExitStoreHasCode, ExitStoreExit, ExitWakeUp,
           queues, local, history
<1>2. SnapshotUsed' /\ PostedFifo'
    BY DEF IInv, SnapshotUsed, PostedFifo, ExitStep, ExitStoreCode, ExitStoreHasCode,
           ExitStoreExit, ExitWakeUp, queues, local, history
<1>3. TasksSeen' /\ EventsSeen'
    BY DEF IInv, TasksSeen, EventsSeen, Pushed, ExitStep, ExitStoreCode, ExitStoreHasCode,
           ExitStoreExit, ExitWakeUp, queues, local, history
<1>4. ExitSeen'
    <2>1. CASE ExitStoreCode(c) \/ ExitStoreHasCode(c)
        <3>1. Exiting => Exiting'
            BY <2>1 DEF IInv, Typed, Exiting, ExitStoreCode, ExitStoreHasCode
        <3> QED BY <2>1, <3>1 DEF IInv, ExitSeen, ExitStoreCode, ExitStoreHasCode, local
    <2>2. CASE ExitStoreExit(c)
        <3>1. Exiting'
            BY <2>2 DEF IInv, Typed, Exiting, ExitStoreExit
        <3> QED BY <3>1 DEF ExitSeen
    <2>3. CASE ExitWakeUp(c)
        BY <2>3 DEF ExitSeen, ExitWakeUp
    <2> QED BY <2>1, <2>2, <2>3 DEF ExitStep
<1> QED BY <1>1, <1>2, <1>3, <1>4 DEF IInv

\* A step of the loop thread that leaves the posted tasks, the callers and the
\* histories of tasks alone keeps what the invariant says of them.
Untouched == UNCHANGED <<mPostQueue, tasks, posted, ran, poster, exiter>>

\* The part of the invariant about types and order.
LEMMA UntouchedIInv ==
    ASSUME IInv, Untouched, pc' \in {"posts", "callback"} \/ pc \notin {"posts", "callback"}
    PROVE  Typed' /\ SnapshotUsed' /\ PostedFifo' /\ Pushed' = Pushed /\ Exiting' = Exiting
BY DEF IInv, Untouched, Typed, SnapshotUsed, PostedFifo, Pushed, Exiting

\* Outside a round the invariant asks for nothing about the bell.
LEMMA OutsideIInv ==
    ASSUME Typed', SnapshotUsed', PostedFifo',
           pc' \in {"outside", "execHead", "test", "timedTest", "dead"}
    PROVE  IInv'
BY DEF IInv, TasksSeen, EventsSeen, ExitSeen, Drained

\* The beginning of exec(), and its test between two rounds.
LEMMA ExecIInv == ASSUME IInv, ExecCheck \/ ExecBegin \/ ExecTest PROVE IInv'
<1>1. Untouched /\ pc \notin {"posts", "callback"}
    BY DEF Untouched, ExecCheck, ExecBegin, ExecTest, queues, callers, local, history
<1>2. Typed' /\ SnapshotUsed' /\ PostedFifo'
    BY <1>1, UntouchedIInv
<1>3. CASE pc' \in {"outside", "execHead", "test"}
    BY <1>2, <1>3, OutsideIInv
<1>4. CASE ExecTest /\ ~mExit
    BY <1>2, <1>4 DEF IInv, ExecTest, BeginRound, Return, TasksSeen, EventsSeen, ExitSeen, Drained
<1>5. ExecCheck \/ ExecBegin \/ (ExecTest /\ mExit) => pc' \in {"outside", "execHead", "test"}
    BY DEF ExecCheck, ExecBegin, ExecTest, Return
<1> QED BY <1>3, <1>4, <1>5

\* The beginning of a round of process_events().
LEMMA RoundIInv ==
    ASSUME IInv, TimedTest \/ \E m \in {"slice", "timed"}, w \in WaitFlags : ProcessEvents(m, w)
    PROVE  IInv'
<1>1. Untouched /\ pc \notin {"posts", "callback"}
    BY DEF Untouched, TimedTest, ProcessEvents, queues, callers, local, history
<1>2. Typed' /\ SnapshotUsed' /\ PostedFifo'
    BY <1>1, UntouchedIInv
<1>3. pc' = "outside" \/ (pc' = "drain" /\ mode' # "exec")
    BY DEF TimedTest, ProcessEvents, BeginRound, Return
<1> QED BY <1>2, <1>3 DEF IInv, TasksSeen, EventsSeen, ExitSeen, Drained

\* take_post_queue(): the queue becomes the snapshot.
LEMMA TakeIInv == ASSUME IInv, TakePostQueue \/ Destroy PROVE IInv'
<1>1. /\ tasks = <<>> /\ tasks' = mPostQueue /\ mPostQueue' = <<>> /\ pc' = "posts"
      /\ UNCHANGED <<poster, exiter, posted, ran, mEventQueue, bell, mExit>>
    BY DEF IInv, SnapshotUsed, TakePostQueue, Destroy, callers, history, flags
<1>2. Typed' /\ SnapshotUsed'
    BY <1>1 DEF IInv, Typed, SnapshotUsed
<1>3. PostedFifo'
    <2>1. (ran \o tasks) \o mPostQueue = ran \o mPostQueue
        BY <1>1, ConcatEmpty DEF IInv, Typed
    <2>2. (ran \o mPostQueue) \o <<>> = ran \o mPostQueue
        BY ConcatType, ConcatEmpty DEF IInv, Typed
    <2> QED BY <1>1, <2>1, <2>2 DEF IInv, PostedFifo
<1>4. ExitSeen'
    <2>1. mode' = "exec" => mode = "exec" /\ pc = "drain"
        BY DEF TakePostQueue, Destroy
    <2> QED BY <1>1, <2>1 DEF IInv, ExitSeen, Exiting
<1> QED BY <1>1, <1>2, <1>3, <1>4 DEF IInv, TasksSeen, EventsSeen

\* The head of the snapshot is run.
LEMMA RunPostedIInv == ASSUME IInv, RunPosted PROVE IInv'
<1>1. /\ tasks # <<>> /\ ran' = Append(ran, Head(tasks)) /\ tasks' = Tail(tasks)
      /\ pc = "posts" /\ pc' = "callback"
      /\ UNCHANGED <<poster, exiter, posted, mPostQueue, mEventQueue, bell, mExit, mode>>
    BY DEF RunPosted, callers, flags, queues
<1>2. Typed' /\ SnapshotUsed'
    BY <1>1, MoveHead DEF IInv, Typed, SnapshotUsed
<1>3. PostedFifo'
    BY <1>1, MoveHead DEF IInv, Typed, PostedFifo
<1>4. TasksSeen' /\ EventsSeen' /\ ExitSeen'
    BY <1>1 DEF IInv, TasksSeen, EventsSeen, ExitSeen, Pushed, Exiting, Drained
<1> QED BY <1>2, <1>3, <1>4 DEF IInv

\* The steps inside a round that run no task.
LEMMA InsideIInv ==
    ASSUME IInv, CallbackReturns \/ PostsDone \/ PopEvent \/ Dispatched
    PROVE  IInv'
<1>1. /\ UNCHANGED <<mPostQueue, tasks, posted, ran, poster, exiter, bell, mExit, mode>>
      /\ pc \in {"posts", "callback", "events", "dispatch"}
      /\ pc' \in {"posts", "events", "dispatch", "dead"}
      /\ pc' = "posts" \/ tasks = <<>>
    BY DEF IInv, SnapshotUsed, CallbackReturns, PostsDone, PopEvent, Dispatched, queues, local, callers,
           history, flags
<1>2. Typed' /\ SnapshotUsed' /\ PostedFifo'
    BY <1>1 DEF IInv, Typed, SnapshotUsed, PostedFifo
<1>3. TasksSeen' /\ EventsSeen' /\ ExitSeen'
    BY <1>1 DEF IInv, TasksSeen, EventsSeen, ExitSeen, Pushed, Exiting, Drained
<1> QED BY <1>2, <1>3 DEF IInv

\* The end of a round takes the loop thread out of it.
LEMMA RoundReturnsPc ==
    ASSUME NEW d, RoundReturns(d) PROVE pc' \in {"outside", "test", "timedTest"}
BY DEF RoundReturns, Return

\* Both queues were empty: the round ends, or the poll begins.
LEMMA EventsDoneIInv == ASSUME IInv, EventsDone PROVE IInv'
<1>1. Untouched /\ pc = "events" /\ UNCHANGED <<bell, mExit, mEventQueue>> /\ mEventQueue = <<>>
    BY DEF Untouched, EventsDone, queues, callers, flags
<1>2. Typed' /\ SnapshotUsed' /\ PostedFifo' /\ Pushed' = Pushed /\ Exiting' = Exiting
    BY <1>1, UntouchedIInv
<1>3. CASE had
    <2>1. RoundReturns(TRUE)
        BY <1>3 DEF EventsDone
    <2> QED BY <2>1, RoundReturnsPc, <1>2, OutsideIInv
<1>4. CASE ~had
    <2>1. pc' = "poll" /\ UNCHANGED <<mode, mPostQueue>>
        BY <1>4, <1>1 DEF EventsDone, Untouched
    <2> QED BY <1>1, <1>2, <2>1 DEF IInv, TasksSeen, EventsSeen, ExitSeen, Drained
<1> QED BY <1>3, <1>4

\* The poll consumes the bell, and ends the round.
LEMMA PollIInv == ASSUME IInv, NEW u, NEW t, Poll(u, t) PROVE IInv'
<1>1. Untouched /\ pc = "poll"
    BY DEF Untouched, Poll, queues, callers
<1>2. Typed' /\ SnapshotUsed' /\ PostedFifo'
    BY <1>1, UntouchedIInv
<1>3. RoundReturns(u /\ ~t)
    BY DEF Poll
<1> QED BY <1>2, <1>3, RoundReturnsPc, OutsideIInv

\* The time limit touches nothing the invariant speaks of.
LEMMA OtherIInv == ASSUME IInv, DeadlinePasses \/ UNCHANGED vars PROVE IInv'
<1>1. UNCHANGED <<mPostQueue, mEventQueue, tasks, posted, ran, poster, exiter, pc, mode, mExit, bell>>
    BY DEF DeadlinePasses, vars, queues, local, callers, history, flags
<1>2. Typed' /\ SnapshotUsed' /\ PostedFifo'
    BY <1>1 DEF IInv, Typed, SnapshotUsed, PostedFifo
<1>3. TasksSeen' /\ EventsSeen' /\ ExitSeen'
    BY <1>1 DEF IInv, TasksSeen, EventsSeen, ExitSeen, Pushed, Exiting
<1> QED BY <1>2, <1>3 DEF IInv

\* Every step preserves the invariant.
LEMMA NextIInv == ASSUME IInv, [Next]_vars PROVE IInv'
<1>1. ASSUME NEW x \in Tasks, Post(x) PROVE IInv'
    BY <1>1, PostIInv
<1>2. ASSUME NEW e \in Events, NEW r, NEW p, NEW d, PostEvent(e, r, p, d) PROVE IInv'
    BY <1>2, PostEventIInv
<1>3. ASSUME NEW x \in Tasks \cup Events, WakeUp(x) PROVE IInv'
    BY <1>3, WakeUpIInv
<1>4. ASSUME NEW c \in Exiters, ExitStep(c) PROVE IInv'
    BY <1>4, ExitIInv
<1>5. ASSUME NEW u, NEW t, Poll(u, t) PROVE IInv'
    BY <1>5, PollIInv
<1>6. CASE LoopStep
    BY <1>5, <1>6, ExecIInv, RoundIInv, TakeIInv, RunPostedIInv, InsideIInv, EventsDoneIInv
       DEF LoopStep
<1>7. CASE ExecCheck \/ DeadlinePasses \/ Destroy
    BY <1>7, ExecIInv, OtherIInv, TakeIInv
<1>8. CASE \E m \in {"slice", "timed"}, w \in WaitFlags : ProcessEvents(m, w)
    BY <1>8, RoundIInv
<1>9. CASE UNCHANGED vars
    BY <1>9, OtherIInv
<1> QED BY <1>1, <1>2, <1>3, <1>4, <1>5, <1>6, <1>7, <1>8, <1>9 DEF Next

\* The inductive invariant holds in every reachable state.
THEOREM LoopInvariant == Spec => []IInv
<1>1. Init => IInv
    BY InitIInv
<1>2. IInv /\ [Next]_vars => IInv'
    BY NextIInv
<1> QED BY <1>1, <1>2, PTL DEF Spec

\* The loop thread never sleeps in uv_run over work that nobody will wake it
\* for, whatever the interleaving of post(), post_event() and exit().
THEOREM LoopNoLostWakeUp == Spec => []NoLostWakeUp
<1>1. IInv => NoLostWakeUp
    BY DEF IInv, NoLostWakeUp, WorkWaiting, TasksSeen, EventsSeen, ExitSeen, Pushed, Exiting, Drained
<1> QED BY <1>1, LoopInvariant, PTL

\* Posted tasks run in the order of their push_back, none twice, none lost.
THEOREM LoopPostedFifo == Spec => []PostedFifo
<1>1. IInv => PostedFifo
    BY DEF IInv
<1> QED BY <1>1, LoopInvariant, PTL

-----------------------------------------------------------------------------
(* EventLoop implements TaskChannel. *)

\* Steps that leave the posted tasks alone are stutters of the channel.
LEMMA StutterStep ==
    ASSUME UNCHANGED <<tasks, mPostQueue, ran>>
    PROVE  UNCHANGED <<tasks \o mPostQueue, ran>>
OBVIOUS

\* Every step of the loop is a step of the channel, or a stutter.
LEMMA ChannelStep ==
    ASSUME IInv, [Next]_vars
    PROVE  [Channel!Next]_<<tasks \o mPostQueue, ran>>
<1>1. ASSUME NEW x \in Tasks, Post(x) PROVE Channel!Post(x)
    <2>1. tasks \o Append(mPostQueue, x) = Append(tasks \o mPostQueue, x)
        BY ConcatAppend DEF IInv, Typed
    <2> QED BY <1>1, <2>1 DEF Post, Channel!Post, local
<1>2. CASE RunPosted
    <2>1. /\ tasks # <<>> /\ ran' = Append(ran, Head(tasks))
          /\ tasks' = Tail(tasks) /\ mPostQueue' = mPostQueue
        BY <1>2 DEF RunPosted, queues
    <2>2. /\ tasks \o mPostQueue # <<>>
          /\ Head(tasks \o mPostQueue) = Head(tasks)
          /\ Tail(tasks \o mPostQueue) = Tail(tasks) \o mPostQueue
        BY <2>1, HeadOfConcat DEF IInv, Typed
    <2>3. Channel!Run
        BY <2>1, <2>2 DEF Channel!Run
    <2> QED BY <2>3 DEF Channel!Next
<1>3. CASE TakePostQueue \/ Destroy
    <2>1. tasks = <<>> /\ tasks' = mPostQueue /\ mPostQueue' = <<>> /\ ran' = ran
        BY <1>3 DEF IInv, SnapshotUsed, TakePostQueue, Destroy, history
    <2>2. tasks \o mPostQueue = mPostQueue /\ mPostQueue \o <<>> = mPostQueue
        BY <2>1, ConcatEmpty DEF IInv, Typed
    <2> QED BY <2>1, <2>2
<1>4. ASSUME NEW e, NEW r, NEW p, NEW d, PostEvent(e, r, p, d)
      PROVE  UNCHANGED <<tasks, mPostQueue, ran>>
    BY <1>4 DEF PostEvent, local, history
<1>5. ASSUME NEW x, WakeUp(x) PROVE UNCHANGED <<tasks, mPostQueue, ran>>
    BY <1>5 DEF WakeUp, queues, local, history
<1>6. ASSUME NEW c, ExitStep(c) PROVE UNCHANGED <<tasks, mPostQueue, ran>>
    BY <1>6 DEF ExitStep, ExitStoreCode, ExitStoreHasCode, ExitStoreExit, ExitWakeUp, queues,
                local, history
<1>7. ASSUME NEW u, NEW t, Poll(u, t) PROVE UNCHANGED <<tasks, mPostQueue, ran>>
    BY <1>7 DEF Poll, queues
<1>8. ASSUME \/ ExecBegin \/ ExecTest \/ CallbackReturns \/ PostsDone \/ PopEvent \/ Dispatched
             \/ EventsDone \/ TimedTest \/ ExecCheck \/ DeadlinePasses \/ UNCHANGED vars
             \/ \E m \in {"slice", "timed"}, w \in WaitFlags : ProcessEvents(m, w)
      PROVE  UNCHANGED <<tasks, mPostQueue, ran>>
    BY <1>8 DEF ExecBegin, ExecTest, CallbackReturns, PostsDone, PopEvent, Dispatched, EventsDone,
                TimedTest, ExecCheck, DeadlinePasses, ProcessEvents, vars, queues, local, history
<1>9. CASE \E x \in Tasks : Post(x)
    BY <1>1, <1>9 DEF Channel!Next
<1> QED BY <1>2, <1>3, <1>4, <1>5, <1>6, <1>7, <1>8, <1>9, StutterStep DEF Next, LoopStep

\* post() keeps the promise of a task channel: what is pending is the snapshot
\* followed by the queue, and each step posts one task, runs the oldest, or
\* changes nothing a poster can see.
THEOREM LoopIsAChannel == Spec => PostsAreAChannel
<1>1. Init => Channel!Init
    BY DEF Init, Channel!Init
<1>2. IInv /\ [Next]_vars => [Channel!Next]_<<tasks \o mPostQueue, ran>>
    BY ChannelStep
<1> QED BY <1>1, <1>2, LoopInvariant, PTL DEF Spec, PostsAreAChannel, Channel!Spec
=============================================================================
