--------------------------- MODULE ThreadPoolProofs ---------------------------
(***************************************************************************)
(* Proofs about ThreadPool for every set of workers, tasks and waiters and *)
(* every setting of the maximum, the reservation and the expiry timeout.   *)
(***************************************************************************)
EXTENDS ThreadPool, FiniteSetTheorems, TLAPS

-----------------------------------------------------------------------------
(* Sequences. *)

\* The elements of a sequence are the values at its positions.
LEMMA RangeOfSeq ==
    ASSUME NEW S, NEW s \in Seq(S)
    PROVE  /\ \A y : y \in Range(s) <=> \E i \in 1..Len(s) : y = s[i]
           /\ Range(s) \subseteq S
BY DEF Range

\* The parts of a sequence that is not empty.
LEMMA HeadTail ==
    ASSUME NEW S, NEW s \in Seq(S), s # <<>>
    PROVE  Head(s) \in S /\ Tail(s) \in Seq(S)
OBVIOUS

\* pop_front: the list without its head, which occurs nowhere else.
LEMMA TailOfDistinct ==
    ASSUME NEW S, NEW s \in Seq(S), s # <<>>, Distinct(s)
    PROVE  /\ Head(s) \in Range(s)
           /\ Tail(s) \in Seq(S)
           /\ Distinct(Tail(s))
           /\ Range(Tail(s)) = Range(s) \ {Head(s)}
<1>1. Tail(s) \in Seq(S) /\ Len(Tail(s)) = Len(s) - 1 /\ Len(s) > 0 /\ Head(s) = s[1]
    OBVIOUS
<1>2. \A i \in 1..Len(Tail(s)) : Tail(s)[i] = s[i + 1]
    OBVIOUS
<1>3. Distinct(Tail(s))
    BY <1>1, <1>2 DEF Distinct
<1>r. \A y : y \in Range(Tail(s)) <=> \E i \in 1..Len(Tail(s)) : y = Tail(s)[i]
    BY <1>1, RangeOfSeq
<1>4. Range(Tail(s)) \subseteq Range(s) \ {Head(s)}
    <2> SUFFICES ASSUME NEW i \in 1..Len(Tail(s))
                 PROVE  Tail(s)[i] \in Range(s) /\ Tail(s)[i] # Head(s)
        BY <1>r
    <2>1. i + 1 \in 1..Len(s) /\ 1 \in 1..Len(s)
        BY <1>1
    <2>2. Tail(s)[i] = s[i + 1] /\ s[i + 1] # s[1]
        BY <1>2, <2>1 DEF Distinct
    <2> QED BY <2>1, <2>2, <1>1, RangeOfSeq
<1>5. Range(s) \ {Head(s)} \subseteq Range(Tail(s))
    <2> SUFFICES ASSUME NEW i \in 1..Len(s), s[i] # Head(s)
                 PROVE  s[i] \in Range(Tail(s))
        BY RangeOfSeq
    <2>1. i - 1 \in 1..Len(Tail(s)) /\ Tail(s)[i - 1] = s[i]
        BY <1>1, <1>2
    <2> QED BY <2>1, <1>r
<1>6. Head(s) \in Range(s)
    BY <1>1, RangeOfSeq
<1> QED BY <1>1, <1>3, <1>4, <1>5, <1>6

\* push_back of an element that is not listed yet.
LEMMA AppendToDistinct ==
    ASSUME NEW S, NEW s \in Seq(S), NEW x \in S, Distinct(s), x \notin Range(s)
    PROVE  /\ Append(s, x) \in Seq(S)
           /\ Distinct(Append(s, x))
           /\ Range(Append(s, x)) = Range(s) \cup {x}
<1> DEFINE a == Append(s, x)
<1>1. /\ a \in Seq(S) /\ Len(a) = Len(s) + 1
      /\ \A i \in 1..Len(s) : a[i] = s[i]
      /\ a[Len(s) + 1] = x
    OBVIOUS
<1> HIDE DEF a
<1>2. \A i \in 1..Len(s) : s[i] # x
    BY RangeOfSeq
<1>3. Distinct(a)
    BY <1>1, <1>2 DEF Distinct
<1>4. Range(a) = Range(s) \cup {x}
    <2>1. Range(a) \subseteq Range(s) \cup {x}
        <3> SUFFICES ASSUME NEW i \in 1..Len(a) PROVE a[i] \in Range(s) \cup {x}
            BY <1>1, RangeOfSeq
        <3>1. i \in 1..Len(s) \/ i = Len(s) + 1
            BY <1>1
        <3> QED BY <3>1, <1>1, RangeOfSeq
    <2>2. Range(s) \subseteq Range(a)
        <3> SUFFICES ASSUME NEW i \in 1..Len(s) PROVE s[i] \in Range(a)
            BY RangeOfSeq
        <3>1. i \in 1..Len(a) /\ a[i] = s[i]
            BY <1>1
        <3> QED BY <3>1, <1>1, RangeOfSeq
    <2>3. x \in Range(a)
        <3>1. Len(s) + 1 \in 1..Len(a)
            BY <1>1
        <3> QED BY <3>1, <1>1, RangeOfSeq
    <2> QED BY <2>1, <2>2, <2>3
<1> QED BY <1>1, <1>3, <1>4 DEF a

\* erase(find(x)): the list without x.
LEMMA EraseType ==
    ASSUME NEW S, NEW s \in Seq(S), NEW x \in Range(s)
    PROVE  Erase(s, x) \in Seq(S)
<1> DEFINE at == CHOOSE i \in 1..Len(s) : s[i] = x
<1>1. at \in 1..Len(s) /\ s[at] = x
    BY RangeOfSeq
<1> HIDE DEF at
<1>2. \A i \in 1..(Len(s) - 1) : (IF i < at THEN s[i] ELSE s[i + 1]) \in S
    BY <1>1
<1>3. Len(s) - 1 \in Nat
    BY <1>1
<1> QED BY <1>2, <1>3 DEF Erase, at

\* In a list without repetitions, x does not remain.
LEMMA EraseOfDistinct ==
    ASSUME NEW S, NEW s \in Seq(S), NEW x \in Range(s), Distinct(s)
    PROVE  /\ Distinct(Erase(s, x))
           /\ Range(Erase(s, x)) = Range(s) \ {x}
<1> DEFINE at == CHOOSE i \in 1..Len(s) : s[i] = x
           e == Erase(s, x)
<1>1. at \in 1..Len(s) /\ s[at] = x
    BY RangeOfSeq
<1>2. e = [i \in 1..(Len(s) - 1) |-> IF i < at THEN s[i] ELSE s[i + 1]]
    BY DEF Erase
<1> HIDE DEF at
<1>3. e \in Seq(S)
    BY EraseType
<1>4. Len(e) = Len(s) - 1 /\ \A i \in 1..Len(e) : e[i] = IF i < at THEN s[i] ELSE s[i + 1]
    BY <1>1, <1>2, <1>3
<1> HIDE DEF e
<1>5. Distinct(e)
    BY <1>1, <1>4 DEF Distinct
<1>6. Range(e) \subseteq Range(s) \ {x}
    <2> SUFFICES ASSUME NEW i \in 1..Len(e) PROVE e[i] \in Range(s) /\ e[i] # x
        BY <1>3, RangeOfSeq
    <2>1. \E j \in 1..Len(s) : j # at /\ e[i] = s[j]
        BY <1>1, <1>4
    <2> QED BY <2>1, <1>1, RangeOfSeq DEF Distinct
<1>7. Range(s) \ {x} \subseteq Range(e)
    <2> SUFFICES ASSUME NEW j \in 1..Len(s), s[j] # x PROVE s[j] \in Range(e)
        BY RangeOfSeq
    <2>1. j # at
        BY <1>1
    <2>2. \E i \in 1..Len(e) : e[i] = s[j]
        <3>1. CASE j < at
            BY <3>1, <1>1, <1>4
        <3>2. CASE j > at
            <4>1. j - 1 \in 1..Len(e) /\ e[j - 1] = s[j]
                BY <3>2, <1>1, <1>4
            <4> QED BY <4>1
        <3> QED BY <3>1, <3>2, <2>1, <1>1
    <2> QED BY <2>2, <1>3, RangeOfSeq
<1> QED BY <1>5, <1>6, <1>7 DEF e

\* push(): the queue stays a sequence of items.
LEMMA PushType ==
    ASSUME NEW S, NEW q \in Seq(S), NEW item \in S
    PROVE  Push(q, item) \in Seq(S) /\ Len(Push(q, item)) = Len(q) + 1
<1> DEFINE T == {i \in 1..Len(q) : q[i].priority >= item.priority}
           keep == Cardinality(T)
<1>0. Push(q, item) = [i \in 1..(Len(q) + 1) |->
          IF i <= keep THEN q[i] ELSE IF i = keep + 1 THEN item ELSE q[i - 1]]
    BY DEF Push
<1>1. keep \in Nat /\ keep <= Len(q)
    <2>0. Len(q) \in Nat
        OBVIOUS
    <2>1. IsFiniteSet(1..Len(q)) /\ Cardinality(1..Len(q)) = Len(q)
        BY <2>0, FS_Interval
    <2>2. T \in SUBSET (1..Len(q))
        OBVIOUS
    <2> HIDE DEF T
    <2>3. IsFiniteSet(T) /\ Cardinality(T) <= Len(q)
        BY <2>1, <2>2, FS_Subset
    <2>4. Cardinality(T) \in Nat
        BY <2>3, FS_CardinalityType
    <2> QED BY <2>3, <2>4
<1> HIDE DEF keep
<1>3. \A i \in 1..(Len(q) + 1) :
          (IF i <= keep THEN q[i] ELSE IF i = keep + 1 THEN item ELSE q[i - 1]) \in S
    <2> SUFFICES ASSUME NEW i \in 1..(Len(q) + 1)
                 PROVE  (IF i <= keep THEN q[i] ELSE IF i = keep + 1 THEN item ELSE q[i - 1]) \in S
        OBVIOUS
    <2>1. i <= keep => i \in 1..Len(q)
        BY <1>1
    <2>2. i > keep + 1 => i - 1 \in 1..Len(q)
        BY <1>1
    <2> QED BY <2>1, <2>2, <1>1
<1>4. Len(q) + 1 \in Nat
    OBVIOUS
<1> QED BY <1>0, <1>3, <1>4

-----------------------------------------------------------------------------
(* Counting active workers. *)

Active == {t \in Threads : pc[t] \in ActivePcs}

\* A worker that becomes active raises the count of active workers by one.
LEMMA CountUp ==
    ASSUME TypeOK, NEW t \in Threads, NEW v \in ActivePcs,
           pc[t] \notin ActivePcs, pc' = [pc EXCEPT ![t] = v]
    PROVE  Cardinality(Active') = Cardinality(Active) + 1
<1>1. Active' = Active \cup {t} /\ t \notin Active
    BY DEF Active, TypeOK
<1>2. IsFiniteSet(Active)
    BY ThreadsAssumption, FS_Subset DEF Active
<1> QED BY <1>1, <1>2, FS_AddElement

\* A worker that ceases to be active lowers it by one.
LEMMA CountDown ==
    ASSUME TypeOK, NEW t \in Threads, NEW v, v \notin ActivePcs,
           pc[t] \in ActivePcs, pc' = [pc EXCEPT ![t] = v]
    PROVE  Cardinality(Active') = Cardinality(Active) - 1
<1>1. Active' = Active \ {t} /\ t \in Active
    BY DEF Active, TypeOK
<1>2. IsFiniteSet(Active)
    BY ThreadsAssumption, FS_Subset DEF Active
<1> QED BY <1>1, <1>2, FS_RemoveElement

\* Any other step of a worker leaves it.
LEMMA CountSame ==
    ASSUME TypeOK, NEW t \in Threads, NEW v,
           pc[t] \in ActivePcs <=> v \in ActivePcs, pc' = [pc EXCEPT ![t] = v]
    PROVE  Active' = Active
BY DEF Active, TypeOK

\* The initial state satisfies the inductive invariant.
LEMMA InitIInv == Init => IInv
<1> SUFFICES ASSUME Init PROVE IInv
    OBVIOUS
<1> USE DEF Init
<1>1. TypeOK
    BY CountAssumption DEF TypeOK, WorkerPcs, WaiterPcs
<1>2. ActiveCountExact
    <2>1. {t \in Threads : pc[t] \in ActivePcs} = {}
        BY DEF ActivePcs
    <2> QED BY <2>1, FS_EmptySet DEF ActiveCountExact
<1>3. ListsConsistent
    BY DEF ListsConsistent, Distinct, Range
<1>4. ActiveWorkersOwned /\ RemovedWorkers /\ WorkerLocals
    BY DEF ActiveWorkersOwned, RemovedWorkers, WorkerLocals, ActivePcs
<1> QED BY <1>1, <1>2, <1>3, <1>4 DEF IInv

-----------------------------------------------------------------------------
(* Steps of the callers. *)

\* pop(): the rest of a queue is a queue.
LEMMA RestType ==
    ASSUME NEW q \in Seq(Item), NEW pops \in BOOLEAN, pops => q # <<>>
    PROVE  Rest(q, pops) \in Seq(Item)
BY DEF Rest

\* A successful try_start() preserves the invariant in each of its outcomes.
LEMMA TryStartInv ==
    ASSUME IInv, NEW x \in Tasks, NEW pops \in BOOLEAN, pops => mTaskQueue # <<>>,
           TryStart(x, pops),
           mMutex' \in Threads \cup {Caller, None}, submitted' \subseteq Tasks,
           UNCHANGED <<mReservedThreadCount, mMaxThreadCount, mExpiryTimeout,
                       waiting, completed, cancelled>>
    PROVE  IInv'
<1> DEFINE item == [task |-> x, priority |-> kHighest]
<1>i. item \in Item
    BY DEF Item
<1>t. TypeOK /\ ListsConsistent /\ ActiveCountExact /\ ActiveWorkersOwned
      /\ RemovedWorkers /\ WorkerLocals
    BY DEF IInv
<1>1. CASE /\ mAllThreads # {}
           /\ mWaitingThreads # <<>>
           /\ mTaskQueue' = Rest(Push(mTaskQueue, item), pops)
           /\ mWaitingThreads' = Tail(mWaitingThreads)
           /\ UNCHANGED <<mExpiredThreads, mAllThreads, mActiveThreadCount, worker>>
    <2> USE <1>1, <1>t
    <2>1. mTaskQueue' \in Seq(Item)
        <3>1. Push(mTaskQueue, item) \in Seq(Item) /\ Len(Push(mTaskQueue, item)) = Len(mTaskQueue) + 1
            BY <1>i, PushType DEF TypeOK
        <3>2. Push(mTaskQueue, item) # <<>>
            BY <3>1 DEF TypeOK
        <3> QED BY <3>1, <3>2, RestType
    <2>2. /\ mWaitingThreads' \in Seq(Threads) /\ Distinct(mWaitingThreads')
          /\ Range(mWaitingThreads') \subseteq Range(mWaitingThreads)
        BY TailOfDistinct DEF TypeOK, ListsConsistent
    <2>3. TypeOK'
        BY <2>1, <2>2 DEF TypeOK, worker, waiting
    <2>4. ListsConsistent'
        BY <2>2 DEF ListsConsistent, worker, Distinct
    <2>5. ActiveCountExact' /\ ActiveWorkersOwned' /\ RemovedWorkers' /\ WorkerLocals'
        BY DEF ActiveCountExact, ActiveWorkersOwned, RemovedWorkers, WorkerLocals, worker, waiting
    <2> QED BY <2>3, <2>4, <2>5 DEF IInv
<1>2. CASE /\ mAllThreads # {}
           /\ mWaitingThreads = <<>>
           /\ mExpiredThreads # <<>>
           /\ mTaskQueue' = Rest(mTaskQueue, pops)
           /\ mExpiredThreads' = Tail(mExpiredThreads)
           /\ RestartThread(Head(mExpiredThreads), x)
           /\ UNCHANGED mWaitingThreads
    <2> DEFINE t == Head(mExpiredThreads)
    <2> USE <1>2, <1>t
    <2>1. mTaskQueue' \in Seq(Item)
        BY RestType DEF TypeOK
    <2>2. /\ t \in Range(mExpiredThreads)
          /\ mExpiredThreads' \in Seq(Threads) /\ Distinct(mExpiredThreads')
          /\ Range(mExpiredThreads') = Range(mExpiredThreads) \ {t}
        BY TailOfDistinct DEF TypeOK, ListsConsistent
    <2>3. t \in mAllThreads /\ t \in Threads
        BY <2>2 DEF ListsConsistent, TypeOK
    <2> HIDE DEF t
    <2>4. /\ pc[t] = "exited" /\ pc' = [pc EXCEPT ![t] = "start"]
          /\ mActiveThreadCount' = mActiveThreadCount + 1
          /\ mTask' = [mTask EXCEPT ![t] = x]
          /\ UNCHANGED <<mAllThreads, task, mExit>>
        BY DEF RestartThread, t
    <2>5. TypeOK'
        BY <2>1, <2>2, <2>3, <2>4 DEF TypeOK, waiting, WorkerPcs
    <2>6. ListsConsistent'
        BY <2>2, <2>3, <2>4 DEF ListsConsistent, TypeOK
    <2>7. ActiveCountExact'
        <3>1. Cardinality(Active') = Cardinality(Active) + 1
            BY <2>3, <2>4, CountUp DEF ActivePcs
        <3> QED BY <3>1, <2>4 DEF ActiveCountExact, Active
    <2>8. ActiveWorkersOwned' /\ RemovedWorkers' /\ WorkerLocals'
        BY <2>3, <2>4 DEF ActiveWorkersOwned, RemovedWorkers, WorkerLocals, TypeOK, ActivePcs, waiting
    <2> QED BY <2>5, <2>6, <2>7, <2>8 DEF IInv
<1>3. CASE /\ mTaskQueue' = Rest(mTaskQueue, pops)
           /\ StartThread(x)
           /\ UNCHANGED <<mWaitingThreads, mExpiredThreads>>
    <2> USE <1>3, <1>t
    <2>1. mTaskQueue' \in Seq(Item)
        BY RestType DEF TypeOK
    <2>2. PICK t \in Threads :
              /\ Creatable(t)
              /\ mAllThreads' = mAllThreads \cup {t}
              /\ mActiveThreadCount' = mActiveThreadCount + 1
              /\ mTask' = [mTask EXCEPT ![t] = x]
              /\ task' = [task EXCEPT ![t] = None]
              /\ mExit' = [mExit EXCEPT ![t] = TRUE]
              /\ pc' = [pc EXCEPT ![t] = "start"]
        BY DEF StartThread
    <2>3. /\ pc[t] \in {"none", "exited"} /\ t \notin mAllThreads
          /\ \A w \in Waiters : t \notin allThreads[w]
        BY <2>2 DEF Creatable, Owned
    <2>4. t \notin Range(mWaitingThreads) /\ t \notin Range(mExpiredThreads)
        BY <2>3 DEF ListsConsistent
    <2>5. TypeOK'
        BY <2>1, <2>2 DEF TypeOK, waiting, WorkerPcs
    <2>6. ListsConsistent'
        BY <2>2, <2>4 DEF ListsConsistent, TypeOK, Distinct
    <2>7. ActiveCountExact'
        <3>1. Cardinality(Active') = Cardinality(Active) + 1
            BY <2>2, <2>3, CountUp DEF ActivePcs
        <3> QED BY <3>1, <2>2 DEF ActiveCountExact, Active
    <2>8. ActiveWorkersOwned'
        BY <2>2 DEF ActiveWorkersOwned, TypeOK, ActivePcs
    <2>9. RemovedWorkers'
        BY <2>2, <2>3 DEF RemovedWorkers, TypeOK, waiting
    <2>10. WorkerLocals'
        BY <2>2 DEF WorkerLocals, TypeOK
    <2> QED BY <2>5, <2>6, <2>7, <2>8, <2>9, <2>10 DEF IInv
<1> QED BY <1>1, <1>2, <1>3 DEF TryStart

\* start() preserves the invariant.
LEMMA StartInv ==
    ASSUME IInv, NEW x \in Tasks, NEW p \in Priorities, Start(x, p)
    PROVE  IInv'
<1>t. TypeOK /\ ListsConsistent /\ ActiveCountExact /\ ActiveWorkersOwned
      /\ RemovedWorkers /\ WorkerLocals
    BY DEF IInv
<1>m. mMutex' \in Threads \cup {Caller, None} /\ submitted' \subseteq Tasks
    BY <1>t DEF Start, TypeOK
<1>u. UNCHANGED <<mMutex, mReservedThreadCount, mMaxThreadCount, mExpiryTimeout,
                  waiting, completed, cancelled>>
    BY DEF Start
<1>1. CASE TryStart(x, FALSE)
    BY <1>1, <1>m, <1>u, TryStartInv
<1>2. CASE /\ mWaitingThreads # <<>>
           /\ mTask' = [mTask EXCEPT ![Head(mWaitingThreads)] = x]
           /\ mWaitingThreads' = Tail(mWaitingThreads)
           /\ UNCHANGED <<mTaskQueue, mExpiredThreads, mAllThreads,
                          mActiveThreadCount, pc, task, mExit>>
    <2> DEFINE t == Head(mWaitingThreads)
    <2> USE <1>2, <1>t, <1>u
    <2>1. /\ t \in Range(mWaitingThreads)
          /\ mWaitingThreads' \in Seq(Threads) /\ Distinct(mWaitingThreads')
          /\ Range(mWaitingThreads') = Range(mWaitingThreads) \ {t}
        BY TailOfDistinct DEF TypeOK, ListsConsistent
    <2>2. t \in Threads /\ pc[t] = "wait"
        BY <2>1 DEF ListsConsistent, TypeOK
    <2> HIDE DEF t
    <2>3. mTask' = [mTask EXCEPT ![t] = x]
        BY DEF t
    <2>4. TypeOK'
        BY <1>m, <2>1, <2>2, <2>3 DEF TypeOK, waiting
    <2>5. ListsConsistent'
        BY <2>1, <2>2, <2>3 DEF ListsConsistent, TypeOK
    <2>6. ActiveCountExact' /\ ActiveWorkersOwned' /\ RemovedWorkers'
        BY DEF ActiveCountExact, ActiveWorkersOwned, RemovedWorkers, waiting
    <2>7. WorkerLocals'
        BY <2>2, <2>3 DEF WorkerLocals, TypeOK
    <2> QED BY <2>4, <2>5, <2>6, <2>7 DEF IInv
<1>3. CASE /\ mTaskQueue' = Push(mTaskQueue, [task |-> x, priority |-> p])
           /\ UNCHANGED <<mWaitingThreads, mExpiredThreads, mAllThreads,
                          mActiveThreadCount, worker>>
    <2> USE <1>3, <1>t, <1>u
    <2>1. mTaskQueue' \in Seq(Item)
        <3>1. [task |-> x, priority |-> p] \in Item
            BY DEF Item
        <3> QED BY <3>1, PushType DEF TypeOK
    <2>2. TypeOK'
        BY <1>m, <2>1 DEF TypeOK, worker, waiting
    <2>3. ListsConsistent' /\ ActiveCountExact' /\ ActiveWorkersOwned' /\ RemovedWorkers' /\ WorkerLocals'
        BY DEF ListsConsistent, ActiveCountExact, ActiveWorkersOwned, RemovedWorkers,
               WorkerLocals, worker, waiting
    <2> QED BY <2>2, <2>3 DEF IInv
<1> QED BY <1>1, <1>2, <1>3 DEF Start

\* try_start_now() preserves the invariant.
LEMMA TryStartNowInv ==
    ASSUME IInv, NEW x \in Tasks, TryStartNow(x)
    PROVE  IInv'
<1>1. mMutex' \in Threads \cup {Caller, None} /\ submitted' \subseteq Tasks
    BY DEF TryStartNow, IInv, TypeOK
<1> QED BY <1>1, TryStartInv DEF TryStartNow

\* So does a round of try_to_start_more_threads().
LEMMA StartMoreInv ==
    ASSUME IInv, TryToStartMoreThreads
    PROVE  IInv'
<1>t. TypeOK /\ ListsConsistent /\ ActiveCountExact /\ ActiveWorkersOwned
      /\ RemovedWorkers /\ WorkerLocals
    BY DEF IInv
<1>1. CASE /\ mTaskQueue # <<>>
           /\ TryStart(Head(mTaskQueue).task, TRUE)
           /\ UNCHANGED mMutex
    <2>1. Head(mTaskQueue).task \in Tasks
        <3>1. Head(mTaskQueue) \in Item
            <4>1. mTaskQueue \in Seq(Item)
                BY <1>t DEF TypeOK
            <4> QED BY <1>1, <4>1, HeadTail
        <3> QED BY <3>1 DEF Item
    <2>2. mMutex' \in Threads \cup {Caller, None} /\ submitted' \subseteq Tasks
        BY <1>1, <1>t DEF TryToStartMoreThreads, TypeOK, history
    <2>3. UNCHANGED <<mReservedThreadCount, mMaxThreadCount, mExpiryTimeout,
                      waiting, completed, cancelled>>
        BY DEF TryToStartMoreThreads, history
    <2> QED BY <1>1, <2>1, <2>2, <2>3, TryStartInv
<1>2. CASE /\ mMutex' = None
           /\ UNCHANGED <<mTaskQueue, mWaitingThreads, mExpiredThreads,
                          mAllThreads, mActiveThreadCount, worker>>
    <2> USE <1>2, <1>t DEF TryToStartMoreThreads
    <2>1. TypeOK'
        BY DEF TypeOK, worker, waiting, history
    <2>2. ListsConsistent' /\ ActiveCountExact' /\ ActiveWorkersOwned' /\ RemovedWorkers' /\ WorkerLocals'
        BY DEF ListsConsistent, ActiveCountExact, ActiveWorkersOwned, RemovedWorkers,
               WorkerLocals, worker, waiting
    <2> QED BY <2>1, <2>2 DEF IInv
<1> QED BY <1>1, <1>2 DEF TryToStartMoreThreads

\* The operations that only touch the settings or the queue.
LEMMA SettingsInv ==
    ASSUME IInv,
           \/ \E n \in MaxThreadCounts : SetMaxThreadCount(n)
           \/ \E n \in ExpiryTimeouts : SetExpiryTimeout(n)
           \/ ReserveThread
           \/ ReleaseThread
           \/ \E x \in Tasks : Cancel(x)
           \/ Clear
    PROVE  IInv'
<1>t. TypeOK /\ ListsConsistent /\ ActiveCountExact /\ ActiveWorkersOwned
      /\ RemovedWorkers /\ WorkerLocals
    BY DEF IInv
<1>1. UNCHANGED <<mWaitingThreads, mExpiredThreads, mAllThreads, mActiveThreadCount,
                  worker, waiting>>
    BY DEF SetMaxThreadCount, SetExpiryTimeout, ReserveThread, ReleaseThread, Cancel, Clear
<1>2. ListsConsistent' /\ ActiveCountExact' /\ ActiveWorkersOwned' /\ RemovedWorkers' /\ WorkerLocals'
    BY <1>t, <1>1 DEF ListsConsistent, ActiveCountExact, ActiveWorkersOwned, RemovedWorkers,
           WorkerLocals, worker, waiting
<1>3. TypeOK'
    <2> USE <1>t, <1>1 DEF TypeOK, worker, waiting, history
    <2>1. ASSUME NEW n \in MaxThreadCounts, SetMaxThreadCount(n) PROVE TypeOK'
        BY <2>1, CountAssumption DEF SetMaxThreadCount
    <2>2. ASSUME NEW n \in ExpiryTimeouts, SetExpiryTimeout(n) PROVE TypeOK'
        BY <2>2, CountAssumption DEF SetExpiryTimeout
    <2>3. CASE ReserveThread
        BY <2>3 DEF ReserveThread
    <2>4. CASE ReleaseThread
        BY <2>4 DEF ReleaseThread
    <2>5. ASSUME NEW x \in Tasks, Cancel(x) PROVE TypeOK'
        <3>1. PICK item \in Range(mTaskQueue) : mTaskQueue' = Erase(mTaskQueue, item)
            BY <2>5 DEF Cancel
        <3>2. mTaskQueue' \in Seq(Item)
            BY <3>1, EraseType
        <3> QED BY <2>5, <3>2 DEF Cancel
    <2>6. CASE Clear
        <3>1. {item.task : item \in Range(mTaskQueue)} \subseteq Tasks
            <4>1. Range(mTaskQueue) \subseteq Item
                BY RangeOfSeq
            <4>2. \A item \in Item : item.task \in Tasks
                BY DEF Item
            <4> QED BY <4>1, <4>2
        <3> QED BY <2>6, <3>1 DEF Clear
    <2> QED BY <2>1, <2>2, <2>3, <2>4, <2>5, <2>6
<1> QED BY <1>2, <1>3 DEF IInv

-----------------------------------------------------------------------------
(* The workers. *)

\* The steps of an active worker that stays active.
LEMMA ActiveStepInv ==
    ASSUME IInv, NEW t \in Threads,
           RunEnter(t) \/ Loop(t) \/ RunTask(t) \/ PopTask(t)
    PROVE  IInv'
<1>t. TypeOK /\ ListsConsistent /\ ActiveCountExact /\ ActiveWorkersOwned
      /\ RemovedWorkers /\ WorkerLocals
    BY DEF IInv
<1>1. pc[t] \in ActivePcs /\ t \in mAllThreads /\ (pc[t] # "start" => ~mExit[t])
    <2>1. pc[t] \in {"start", "acquire", "loop", "running", "relock", "next"}
        BY DEF RunEnter, Loop, RunTask, PopTask, HasLock
    <2> QED BY <2>1, <1>t DEF ActivePcs, ActiveWorkersOwned
<1>2. UNCHANGED <<mWaitingThreads, mExpiredThreads, mAllThreads, mActiveThreadCount,
                  mReservedThreadCount, mMaxThreadCount, mExpiryTimeout, waiting,
                  submitted, cancelled>>
    BY DEF RunEnter, Loop, RunTask, PopTask, pool, history
<1>3. PICK v \in ActivePcs : pc' = [pc EXCEPT ![t] = v] /\ v # "start"
    BY <1>1 DEF RunEnter, Loop, RunTask, PopTask, ActivePcs
<1>4. TypeOK'
    <2> USE <1>t, <1>2, <1>3 DEF TypeOK, waiting, ActivePcs, WorkerPcs
    <2>1. CASE RunEnter(t)
        BY <2>1 DEF RunEnter, pool, history
    <2>2. CASE Loop(t)
        BY <2>2, <1>1 DEF Loop, history
    <2>3. CASE RunTask(t)
        <3>1. task[t] \in Tasks
            BY <2>3 DEF RunTask, WorkerLocals
        <3> QED BY <2>3, <3>1 DEF RunTask, pool
    <2>4. CASE PopTask(t)
        <3>1. Head(mTaskQueue) \in Item /\ Tail(mTaskQueue) \in Seq(Item)
            <4>1. mTaskQueue \in Seq(Item) /\ mTaskQueue # <<>>
                BY <2>4 DEF PopTask
            <4> QED BY <4>1, HeadTail
        <3>2. Head(mTaskQueue).task \in Tasks
            BY <3>1 DEF Item
        <3> QED BY <2>4, <3>1, <3>2 DEF PopTask, history
    <2> QED BY <2>1, <2>2, <2>3, <2>4
<1>5. ListsConsistent'
    <2>1. t \notin Range(mWaitingThreads) /\ t \notin Range(mExpiredThreads)
        BY <1>t, <1>1 DEF ListsConsistent, ActivePcs
    <2>2. \A u \in Threads \ {t} : pc'[u] = pc[u] /\ mTask'[u] = mTask[u]
        BY <1>t, <1>3 DEF RunEnter, Loop, RunTask, PopTask, TypeOK
    <2>3. Range(mWaitingThreads) \subseteq Threads /\ Range(mExpiredThreads) \subseteq Threads
        BY <1>t, RangeOfSeq DEF TypeOK
    <2> QED BY <1>t, <1>2, <2>1, <2>2, <2>3 DEF ListsConsistent
<1>6. ActiveCountExact'
    <2>1. Active' = Active
        BY <1>t, <1>1, <1>3, CountSame
    <2> QED BY <1>t, <1>2, <2>1 DEF ActiveCountExact, Active
<1>7. ActiveWorkersOwned'
    <2>1. \A u \in Threads : u # t => pc'[u] = pc[u] /\ mExit'[u] = mExit[u]
        BY <1>t, <1>3 DEF RunEnter, Loop, RunTask, PopTask, TypeOK
    <2>2. ~mExit'[t]
        BY <1>t, <1>1 DEF RunEnter, Loop, RunTask, PopTask, TypeOK, HasLock
    <2> QED BY <1>t, <1>1, <1>2, <2>1, <2>2 DEF ActiveWorkersOwned
<1>8. RemovedWorkers'
    BY <1>t, <1>2 DEF RemovedWorkers, waiting
<1>9. WorkerLocals'
    <2>1. \A u \in Threads : u # t => /\ pc'[u] = pc[u] /\ mExit'[u] = mExit[u]
                                     /\ mTask'[u] = mTask[u] /\ task'[u] = task[u]
        BY <1>t, <1>3 DEF RunEnter, Loop, RunTask, PopTask, TypeOK
    <2>2. CASE RunEnter(t)
        BY <1>t, <1>2, <2>1, <2>2 DEF WorkerLocals, RunEnter, TypeOK
    <2>3. CASE Loop(t)
        BY <1>t, <1>1, <1>2, <2>1, <2>3 DEF WorkerLocals, Loop, TypeOK
    <2>4. CASE RunTask(t)
        BY <1>t, <1>2, <2>1, <2>4 DEF WorkerLocals, RunTask, TypeOK
    <2>5. CASE PopTask(t)
        <3>1. Head(mTaskQueue) \in Item
            <4>1. mTaskQueue \in Seq(Item)
                BY <1>t DEF TypeOK
            <4>2. mTaskQueue # <<>>
                BY <2>5 DEF PopTask
            <4> QED BY <4>1, <4>2, HeadTail
        <3>2. Head(mTaskQueue).task # None
            BY <3>1, NoneAssumption DEF Item
        <3> QED BY <1>t, <1>2, <2>1, <2>5, <3>2 DEF WorkerLocals, PopTask, TypeOK, HasLock
    <2> QED BY <2>2, <2>3, <2>4, <2>5
<1> QED BY <1>4, <1>5, <1>6, <1>7, <1>8, <1>9 DEF IInv

\* register_thread_inactive() of a worker that goes on the expired list.
LEMMA ExpireInv ==
    ASSUME IInv, NEW t \in Threads, Expire(t)
    PROVE  IInv'
<1>t. TypeOK /\ ListsConsistent /\ ActiveCountExact /\ ActiveWorkersOwned
      /\ RemovedWorkers /\ WorkerLocals
    BY DEF IInv
<1>1. pc[t] \in ActivePcs /\ t \in mAllThreads /\ mTask[t] = None
    BY <1>t DEF Expire, HasLock, ActivePcs, ActiveWorkersOwned, WorkerLocals
<1>2. t \notin Range(mWaitingThreads) /\ t \notin Range(mExpiredThreads)
    BY <1>t, <1>1 DEF ListsConsistent, ActivePcs
<1>3. /\ mExpiredThreads' \in Seq(Threads) /\ Distinct(mExpiredThreads')
      /\ Range(mExpiredThreads') = Range(mExpiredThreads) \cup {t}
    BY <1>t, <1>2, AppendToDistinct DEF Expire, TypeOK, ListsConsistent
<1>4. TypeOK'
    <2>1. mTaskQueue' \in Seq(Item)
        BY <1>t DEF Expire, TypeOK
    <2>2. waiter' \in [Waiters -> WaiterPcs]
        BY <1>t DEF Expire, TypeOK, NotifyNoActive, WaiterPcs
    <2>3. pc' \in [Threads -> WorkerPcs]
        BY <1>t DEF Expire, TypeOK, WorkerPcs
    <2>4. mActiveThreadCount' \in Int
        BY <1>t DEF Expire, TypeOK
    <2> QED BY <1>t, <1>3, <2>1, <2>2, <2>3, <2>4 DEF Expire, TypeOK, history
<1>5. ListsConsistent'
    <2>1. Range(mWaitingThreads) \subseteq Threads /\ Range(mExpiredThreads) \subseteq Threads
        BY <1>t, RangeOfSeq DEF TypeOK
    <2> QED BY <1>t, <1>1, <1>2, <1>3, <2>1 DEF ListsConsistent, Expire, TypeOK
<1>6. ActiveCountExact'
    <2>1. Cardinality(Active') = Cardinality(Active) - 1
        BY <1>t, <1>1, CountDown DEF Expire, ActivePcs
    <2> QED BY <1>t, <2>1 DEF ActiveCountExact, Active, Expire
<1>7. ActiveWorkersOwned'
    BY <1>t DEF ActiveWorkersOwned, Expire, TypeOK, ActivePcs
<1>8. RemovedWorkers'
    BY <1>t DEF RemovedWorkers, Expire
<1>9. WorkerLocals'
    BY <1>t DEF WorkerLocals, Expire, TypeOK
<1> QED BY <1>4, <1>5, <1>6, <1>7, <1>8, <1>9 DEF IInv

\* register_thread_inactive() of a worker that goes on the waiting list.
LEMMA WaitForWorkInv ==
    ASSUME IInv, NEW t \in Threads, WaitForWork(t)
    PROVE  IInv'
<1>t. TypeOK /\ ListsConsistent /\ ActiveCountExact /\ ActiveWorkersOwned
      /\ RemovedWorkers /\ WorkerLocals
    BY DEF IInv
<1>1. pc[t] \in ActivePcs /\ t \in mAllThreads /\ mTask[t] = None
    BY <1>t DEF WaitForWork, HasLock, ActivePcs, ActiveWorkersOwned, WorkerLocals
<1>2. t \notin Range(mWaitingThreads) /\ t \notin Range(mExpiredThreads)
    BY <1>t, <1>1 DEF ListsConsistent, ActivePcs
<1>3. /\ mWaitingThreads' \in Seq(Threads) /\ Distinct(mWaitingThreads')
      /\ Range(mWaitingThreads') = Range(mWaitingThreads) \cup {t}
    BY <1>t, <1>2, AppendToDistinct DEF WaitForWork, TypeOK, ListsConsistent
<1>4. TypeOK'
    <2>2. waiter' \in [Waiters -> WaiterPcs]
        BY <1>t DEF WaitForWork, TypeOK, NotifyNoActive, WaiterPcs
    <2>3. pc' \in [Threads -> WorkerPcs]
        BY <1>t DEF WaitForWork, TypeOK, WorkerPcs
    <2>4. mActiveThreadCount' \in Int
        BY <1>t DEF WaitForWork, TypeOK
    <2> QED BY <1>t, <1>3, <2>2, <2>3, <2>4 DEF WaitForWork, TypeOK, history
<1>5. ListsConsistent'
    <2>1. Range(mWaitingThreads) \subseteq Threads /\ Range(mExpiredThreads) \subseteq Threads
        BY <1>t, RangeOfSeq DEF TypeOK
    <2> QED BY <1>t, <1>1, <1>2, <1>3, <2>1 DEF ListsConsistent, WaitForWork, TypeOK
<1>6. ActiveCountExact'
    <2>1. Cardinality(Active') = Cardinality(Active) - 1
        BY <1>t, <1>1, CountDown DEF WaitForWork, ActivePcs
    <2> QED BY <1>t, <2>1 DEF ActiveCountExact, Active, WaitForWork
<1>7. ActiveWorkersOwned'
    BY <1>t DEF ActiveWorkersOwned, WaitForWork, TypeOK, ActivePcs
<1>8. RemovedWorkers'
    BY <1>t DEF RemovedWorkers, WaitForWork
<1>9. WorkerLocals'
    BY <1>t DEF WorkerLocals, WaitForWork, TypeOK
<1> QED BY <1>4, <1>5, <1>6, <1>7, <1>8, <1>9 DEF IInv

\* A worker that somebody took off the waiting list is active again.
LEMMA AwakeInv ==
    ASSUME IInv, NEW t \in Threads, Awake(t)
    PROVE  IInv'
<1>t. TypeOK /\ ListsConsistent /\ ActiveCountExact /\ ActiveWorkersOwned
      /\ RemovedWorkers /\ WorkerLocals
    BY DEF IInv
<1>1. TypeOK'
    BY <1>t DEF TypeOK, Awake, WorkerPcs, waiting, history
<1>2. ListsConsistent'
    <2>1. t \notin Range(mWaitingThreads) /\ t \notin Range(mExpiredThreads)
        BY <1>t DEF ListsConsistent, Awake
    <2>2. Range(mWaitingThreads) \subseteq Threads /\ Range(mExpiredThreads) \subseteq Threads
        BY <1>t, RangeOfSeq DEF TypeOK
    <2> QED BY <1>t, <2>1, <2>2 DEF ListsConsistent, Awake, TypeOK
<1>3. ActiveCountExact'
    <2>1. Cardinality(Active') = Cardinality(Active) + 1
        BY <1>t, CountUp DEF Awake, ActivePcs
    <2> QED BY <1>t, <2>1 DEF ActiveCountExact, Active, Awake
<1>4. ActiveWorkersOwned'
    BY <1>t DEF ActiveWorkersOwned, WorkerLocals, Awake, TypeOK
<1>5. RemovedWorkers' /\ WorkerLocals'
    BY <1>t DEF RemovedWorkers, WorkerLocals, Awake, TypeOK, waiting
<1> QED BY <1>1, <1>2, <1>3, <1>4, <1>5 DEF IInv

\* A worker whose wait ended without work, or that reset() removed, leaves.
LEMMA AwakeAndLeaveInv ==
    ASSUME IInv, NEW t \in Threads, AwakeAndLeave(t)
    PROVE  IInv'
<1>t. TypeOK /\ ListsConsistent /\ ActiveCountExact /\ ActiveWorkersOwned
      /\ RemovedWorkers /\ WorkerLocals
    BY DEF IInv
<1>1. pc[t] = "wait" /\ pc' = [pc EXCEPT ![t] = "finish"] /\ t \notin Range(mExpiredThreads)
    BY <1>t DEF AwakeAndLeave, ListsConsistent
<1>2. /\ mWaitingThreads' \in Seq(Threads) /\ Distinct(mWaitingThreads')
      /\ Range(mWaitingThreads') = Range(mWaitingThreads) \ {t}
    <2>1. CASE t \in Range(mWaitingThreads)
        BY <1>t, <2>1, EraseType, EraseOfDistinct DEF AwakeAndLeave, TypeOK, ListsConsistent
    <2>2. CASE t \notin Range(mWaitingThreads)
        BY <1>t, <2>2 DEF AwakeAndLeave, TypeOK, ListsConsistent
    <2> QED BY <2>1, <2>2
<1>3. /\ mExpiredThreads' \in Seq(Threads) /\ Distinct(mExpiredThreads')
      /\ \/ /\ Range(mExpiredThreads') = Range(mExpiredThreads) \cup {t}
            /\ t \in mAllThreads /\ mTask[t] = None
         \/ Range(mExpiredThreads') = Range(mExpiredThreads)
    <2>1. CASE t \in mAllThreads
        <3>1. mTask[t] = None
            BY <1>t, <2>1 DEF AwakeAndLeave, ListsConsistent
        <3>2. mExpiredThreads' = Append(mExpiredThreads, t)
            BY <2>1 DEF AwakeAndLeave
        <3> QED BY <1>t, <1>1, <2>1, <3>1, <3>2, AppendToDistinct DEF TypeOK, ListsConsistent
    <2>2. CASE t \notin mAllThreads
        BY <1>t, <2>2 DEF AwakeAndLeave, TypeOK, ListsConsistent
    <2> QED BY <2>1, <2>2
<1>4. TypeOK'
    <2>1. waiter' \in [Waiters -> WaiterPcs]
        BY <1>t DEF AwakeAndLeave, TypeOK, NotifyNoActive, WaiterPcs
    <2>2. pc' \in [Threads -> WorkerPcs]
        BY <1>t, <1>1 DEF TypeOK, WorkerPcs
    <2> QED BY <1>t, <1>2, <1>3, <2>1, <2>2 DEF AwakeAndLeave, TypeOK, history
<1>5. ListsConsistent'
    <2>1. Range(mWaitingThreads) \subseteq Threads /\ Range(mExpiredThreads) \subseteq Threads
        BY <1>t, RangeOfSeq DEF TypeOK
    <2>2. UNCHANGED <<mAllThreads, mTask>>
        BY DEF AwakeAndLeave
    <2> QED BY <1>t, <1>1, <1>2, <1>3, <2>1, <2>2 DEF ListsConsistent, TypeOK
<1>6. ActiveCountExact'
    <2>1. Active' = Active
        BY <1>t, <1>1, CountSame DEF ActivePcs
    <2> QED BY <1>t, <2>1 DEF ActiveCountExact, Active, AwakeAndLeave
<1>7. ActiveWorkersOwned'
    BY <1>t, <1>1 DEF ActiveWorkersOwned, AwakeAndLeave, TypeOK, ActivePcs
<1>8. RemovedWorkers' /\ WorkerLocals'
    BY <1>t, <1>1 DEF RemovedWorkers, WorkerLocals, AwakeAndLeave, TypeOK
<1> QED BY <1>4, <1>5, <1>6, <1>7, <1>8 DEF IInv

\* The thread_local destructor of a worker that left run().
LEMMA TlsInv ==
    ASSUME IInv, NEW t \in Threads, TlsClear(t) \/ TlsDrop(t)
    PROVE  IInv'
<1>t. TypeOK /\ ListsConsistent /\ ActiveCountExact /\ ActiveWorkersOwned
      /\ RemovedWorkers /\ WorkerLocals
    BY DEF IInv
<1>1. PICK v \in {"tls", "exited"} : pc' = [pc EXCEPT ![t] = v]
    BY DEF TlsClear, TlsDrop
<1>2. pc[t] \in {"finish", "tls"} /\ UNCHANGED <<pool, mTask, task, mExit, waiting, history>>
    BY DEF TlsClear, TlsDrop
<1>3. TypeOK'
    BY <1>t, <1>1, <1>2 DEF TypeOK, WorkerPcs, pool, waiting, history
<1>4. ListsConsistent'
    <2>1. Range(mWaitingThreads) \subseteq Threads /\ Range(mExpiredThreads) \subseteq Threads
        BY <1>t, RangeOfSeq DEF TypeOK
    <2> QED BY <1>t, <1>1, <1>2, <2>1 DEF ListsConsistent, TypeOK, pool
<1>5. ActiveCountExact'
    <2>1. Active' = Active
        BY <1>t, <1>1, <1>2, CountSame DEF ActivePcs
    <2> QED BY <1>t, <1>2, <2>1 DEF ActiveCountExact, Active, pool
<1>6. ActiveWorkersOwned' /\ RemovedWorkers' /\ WorkerLocals'
    BY <1>t, <1>1, <1>2
    DEF ActiveWorkersOwned, RemovedWorkers, WorkerLocals, ActivePcs, TypeOK, pool, waiting
<1> QED BY <1>3, <1>4, <1>5, <1>6 DEF IInv

-----------------------------------------------------------------------------
(* wait_for_done() and reset(). *)

\* A worker is active only while mActiveThreadCount says so.
LEMMA IdleWhenDone ==
    ASSUME IInv, IsDone
    PROVE  \A t \in Threads : pc[t] \notin ActivePcs
<1>1. IsFiniteSet(Active) /\ Cardinality(Active) = 0
    BY ThreadsAssumption, FS_Subset DEF Active, IInv, ActiveCountExact, IsDone
<1>2. Active = {}
    BY <1>1, FS_EmptySet
<1> QED BY <1>2 DEF Active

\* The critical section of wait_for_done() that decides or begins reset().
LEMMA BeginResetInv ==
    ASSUME IInv, NEW w \in Waiters,
           BeginReset(w) \/ (\E state \in WaiterPcs : StayInWait(w, state)),
           UNCHANGED <<mMutex, mTaskQueue, mActiveThreadCount, mReservedThreadCount,
                       mMaxThreadCount, mExpiryTimeout, worker, joining, history>>
    PROVE  IInv'
<1>t. TypeOK /\ ListsConsistent /\ ActiveCountExact /\ ActiveWorkersOwned
      /\ RemovedWorkers /\ WorkerLocals
    BY DEF IInv
<1>1. CASE BeginReset(w)
    <2> USE <1>1, <1>t DEF BeginReset, worker, history
    <2>1. TypeOK'
        BY DEF TypeOK, WaiterPcs
    <2>2. ListsConsistent'
        BY DEF ListsConsistent, Distinct, Range
    <2>3. ActiveCountExact'
        BY DEF ActiveCountExact
    <2>4. ActiveWorkersOwned'
        BY IdleWhenDone DEF ActiveWorkersOwned
    <2>5. RemovedWorkers'
        BY DEF RemovedWorkers, TypeOK
    <2>6. WorkerLocals'
        BY DEF WorkerLocals
    <2> QED BY <2>1, <2>2, <2>3, <2>4, <2>5, <2>6 DEF IInv
<1>2. ASSUME NEW state \in WaiterPcs, StayInWait(w, state) PROVE IInv'
    <2>1. TypeOK'
        BY <1>2, <1>t DEF TypeOK, StayInWait, worker, history
    <2>2. ListsConsistent' /\ ActiveCountExact' /\ ActiveWorkersOwned' /\ RemovedWorkers' /\ WorkerLocals'
        BY <1>2, <1>t DEF StayInWait, ListsConsistent, ActiveCountExact, ActiveWorkersOwned,
               RemovedWorkers, WorkerLocals, worker
    <2> QED BY <2>1, <2>2 DEF IInv
<1> QED BY <1>1, <1>2

\* The loop of reset() tells only workers outside the pool to exit.
LEMMA ResetLoopInv ==
    ASSUME IInv, NEW w \in Waiters,
           (\E t \in Threads : Visit(w, t)) \/ Joined(w) \/ EndReset(w)
    PROVE  IInv'
<1>t. TypeOK /\ ListsConsistent /\ ActiveCountExact /\ ActiveWorkersOwned
      /\ RemovedWorkers /\ WorkerLocals
    BY DEF IInv
<1>1. UNCHANGED <<pool, pc, mTask, task, history>>
    BY DEF Visit, Joined, EndReset, worker
<1>2. ListsConsistent' /\ ActiveCountExact'
    BY <1>t, <1>1 DEF ListsConsistent, ActiveCountExact, pool
<1>3. ASSUME NEW t \in Threads, Visit(w, t)
      PROVE  TypeOK' /\ ActiveWorkersOwned' /\ RemovedWorkers' /\ WorkerLocals'
    <2>1. t \notin mAllThreads /\ mAllThreads' = mAllThreads
        BY <1>t, <1>1, <1>3 DEF Visit, RemovedWorkers, pool
    <2>2. TypeOK'
        BY <1>t, <1>1, <1>3 DEF TypeOK, Visit, pool, history
    <2>3. \A u \in Threads : u # t => mExit'[u] = mExit[u]
        BY <1>t, <1>3 DEF Visit, TypeOK
    <2>4. ActiveWorkersOwned' /\ WorkerLocals'
        BY <1>t, <1>1, <2>1, <2>3 DEF ActiveWorkersOwned, WorkerLocals
    <2>5. RemovedWorkers'
        BY <1>t, <1>3, <2>1 DEF RemovedWorkers, Visit, TypeOK
    <2> QED BY <2>2, <2>4, <2>5
<1>4. CASE Joined(w) \/ EndReset(w)
    <2>1. UNCHANGED mExit
        BY <1>4 DEF Joined, EndReset, worker
    <2>2. TypeOK'
        BY <1>t, <1>1, <1>4, <2>1 DEF TypeOK, Joined, EndReset, WaiterPcs, pool, history
    <2>3. ActiveWorkersOwned' /\ WorkerLocals'
        BY <1>t, <1>1, <2>1 DEF ActiveWorkersOwned, WorkerLocals, pool
    <2>4. RemovedWorkers'
        BY <1>t, <1>1, <1>4 DEF RemovedWorkers, Joined, EndReset, TypeOK, pool
    <2> QED BY <1>2, <2>2, <2>3, <2>4 DEF IInv
<1> QED BY <1>2, <1>3, <1>4 DEF IInv

-----------------------------------------------------------------------------
\* Every step of the pool, of a worker or of a waiter keeps the invariant.
LEMMA NextIInv == IInv /\ [Next]_vars => IInv'
<1> SUFFICES ASSUME IInv, [Next]_vars PROVE IInv'
    OBVIOUS
<1>1. CASE UNCHANGED vars
    BY <1>1 DEF IInv, TypeOK, ActiveCountExact, ListsConsistent, ActiveWorkersOwned,
           RemovedWorkers, WorkerLocals, vars, pool, worker, waiting, history
<1>2. ASSUME NEW x \in Tasks, NEW p \in Priorities, Start(x, p) PROVE IInv'
    BY <1>2, StartInv
<1>3. ASSUME NEW x \in Tasks, TryStartNow(x) PROVE IInv'
    BY <1>3, TryStartNowInv
<1>4. CASE \/ \E n \in MaxThreadCounts : SetMaxThreadCount(n)
           \/ \E n \in ExpiryTimeouts : SetExpiryTimeout(n)
           \/ ReserveThread
           \/ ReleaseThread
           \/ \E x \in Tasks : Cancel(x)
           \/ Clear
    BY <1>4, SettingsInv
<1>5. CASE TryToStartMoreThreads
    BY <1>5, StartMoreInv
<1>6. ASSUME NEW t \in Threads, WorkerStep(t) PROVE IInv'
    <2>1. CASE RunEnter(t) \/ Loop(t) \/ RunTask(t) \/ PopTask(t)
        BY <2>1, ActiveStepInv
    <2>2. CASE Expire(t)
        BY <2>2, ExpireInv
    <2>3. CASE WaitForWork(t)
        BY <2>3, WaitForWorkInv
    <2>4. CASE Awake(t)
        BY <2>4, AwakeInv
    <2>5. CASE AwakeAndLeave(t)
        BY <2>5, AwakeAndLeaveInv
    <2>6. CASE TlsClear(t) \/ TlsDrop(t)
        BY <2>6, TlsInv
    <2> QED BY <1>6, <2>1, <2>2, <2>3, <2>4, <2>5, <2>6 DEF WorkerStep
<1>7. ASSUME NEW w \in Waiters, WaitForDone(w) \/ WakeSpuriously(w) \/ WakeForever(w) \/ WakeTimed(w)
      PROVE  IInv'
    <2>1. BeginReset(w) \/ \E state \in WaiterPcs : StayInWait(w, state)
        BY <1>7 DEF WaitForDone, WakeSpuriously, WakeForever, WakeTimed, WaiterPcs
    <2>2. UNCHANGED <<mMutex, mTaskQueue, mActiveThreadCount, mReservedThreadCount,
                      mMaxThreadCount, mExpiryTimeout, worker, joining, history>>
        BY <1>7 DEF WaitForDone, WakeSpuriously, WakeForever, WakeTimed
    <2> QED BY <2>1, <2>2, BeginResetInv
<1>8. ASSUME NEW w \in Waiters, (\E t \in Threads : Visit(w, t)) \/ Joined(w) \/ EndReset(w)
      PROVE  IInv'
    BY <1>8, ResetLoopInv
<1> QED BY <1>1, <1>2, <1>3, <1>4, <1>5, <1>6, <1>7, <1>8 DEF Next, WaiterStep

\* The inductive invariant holds throughout every execution of the pool.
THEOREM PoolInvariant == Spec => []IInv
<1>1. Init => IInv
    BY InitIInv
<1>2. IInv /\ [Next]_vars => IInv'
    BY NextIInv
<1> QED BY <1>1, <1>2, PTL DEF Spec

\* Every variable keeps its type, the task queue and the lists included.
THEOREM PoolTypeOK == Spec => []TypeOK
<1>1. IInv => TypeOK
    BY DEF IInv
<1> QED BY <1>1, PoolInvariant, PTL

\* mActiveThreadCount, kept by increments and decrements in five functions,
\* is the number of active workers: is_done() can be trusted.
THEOREM PoolActiveCountExact == Spec => []ActiveCountExact
<1>1. IInv => ActiveCountExact
    BY DEF IInv
<1> QED BY <1>1, PoolInvariant, PTL

\* Both lists hold only workers in the state the list stands for, so a
\* recycled worker is really waiting and a restarted one has left run().
THEOREM PoolListsConsistent == Spec => []ListsConsistent
<1>1. IInv => ListsConsistent
    BY DEF IInv
<1> QED BY <1>1, PoolInvariant, PTL

\* No reset() takes an active worker out of the pool or tells it to exit.
THEOREM PoolActiveWorkersOwned == Spec => []ActiveWorkersOwned
<1>1. IInv => ActiveWorkersOwned
    BY DEF IInv
<1> QED BY <1>1, PoolInvariant, PTL
=============================================================================
