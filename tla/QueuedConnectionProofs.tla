------------------------ MODULE QueuedConnectionProofs ------------------------
(***************************************************************************)
(* Queued connections and call_and_wait() for any number of emitting and   *)
(* calling threads and of emissions.                                       *)
(***************************************************************************)
EXTENDS QueuedConnection, TLAPS

Posted == [kind : {"deliver", "call"}, by : Emitters \cup Callers, arg : Nat \cup {None}]

Running == [kind : {"deliver", "call"}, by : Emitters \cup Callers, arg : {"start", "fn", "finish"}]

Types ==
    /\ queue \in Seq(Posted)
    /\ running \in Running \cup {None}
    /\ connected \in BOOLEAN
    /\ receiver \in {"alive", "dying", "silent", "gone"}
    /\ emits \in [Emitters -> Nat]
    /\ caller \in [Callers -> {"out", "awake", "asleep", "read", "back"}]
    /\ box \in [Callers -> [done : BOOLEAN, holds : {None, "value", "exception"}]]

Queued(i, c) == i \in DOMAIN queue /\ queue[i].kind = "call" /\ queue[i].by = c

Runs(c) == running # None /\ running.kind = "call" /\ running.by = c

\* There is one closure for a call, from its post() to the end of result_box::run(); it is
\* made by a caller, and the box is done when, and only when, it has run.
OneClosure ==
    /\ \A i \in DOMAIN queue : queue[i].kind = "call" => queue[i].by \in Callers
    /\ running # None /\ running.kind = "call" => running.by \in Callers
    /\ \A c \in Callers :
         /\ \A i, j \in DOMAIN queue : Queued(i, c) /\ Queued(j, c) => i = j
         /\ Runs(c) => \A i \in DOMAIN queue : ~Queued(i, c)
         /\ Pending(c) => caller[c] \in {"awake", "asleep"} /\ ~box[c].done
         /\ Runs(c) /\ running.arg = "finish" => box[c].holds # None
         /\ caller[c] = "out" => ~box[c].done
         /\ caller[c] \in {"awake", "asleep"} => Pending(c) \/ box[c].done
         /\ caller[c] = "asleep" => ~box[c].done
         /\ caller[c] \in {"read", "back"} => box[c].done
         /\ box[c].done => box[c].holds # None

Constants ==
    /\ None \notin Running
    /\ None \notin {"value", "exception"}
    /\ MaxEmits \in Nat

Inv == Types /\ OneClosure /\ ReceiverSafe

\* A closure that is taken or goes on is a closure that runs.
LEMMA RunningRecord ==
    ASSUME NEW p \in Posted \cup Running, NEW a \in {"start", "fn", "finish"}
    PROVE  /\ [p EXCEPT !.arg = a] \in Running
           /\ [p EXCEPT !.arg = a].kind = p.kind
           /\ [p EXCEPT !.arg = a].by = p.by
           /\ [p EXCEPT !.arg = a].arg = a
BY DEF Posted, Running

\* The steps of the emitting threads and of the destructors leave the calls alone.
LEMMA OutsideStep ==
    ASSUME Constants, Inv,
           \/ \E e \in Emitters : Emit(e) \/ CheckLoop(e)
           \/ DestroyLoop \/ LoopGone \/ DestroyReceiver \/ Disconnect
    PROVE  Inv'
<1> USE DEF Emit, CheckLoop, DestroyLoop, LoopGone, DestroyReceiver, Disconnect
<1>1. queue' = queue /\ running' = running /\ caller' = caller /\ box' = box
  OBVIOUS
<1>2. emits' \in [Emitters -> Nat]
  BY DEF Inv, Types
<1>3. connected' \in BOOLEAN /\ receiver' \in {"alive", "dying", "silent", "gone"}
  BY DEF Inv, Types
<1>4. Types'
  BY <1>1, <1>2, <1>3 DEF Inv, Types
<1>5. OneClosure'
  BY <1>1 DEF Inv, OneClosure, Queued, Pending, Runs
<1>6. ReceiverSafe'
  <2>1. CASE DestroyReceiver
    <3>1. running' = None
      BY <2>1
    <3>2. receiver = "alive" => receiver' = "dying"
      BY <2>1
    <3>3. receiver = "dying" => ~connected'
      BY <2>1
    <3>4. receiver \in {"silent", "gone"} => ~connected'
      BY <2>1 DEF Inv, ReceiverSafe
    <3> QED
      BY <3>1, <3>2, <3>3, <3>4 DEF Inv, Types, ReceiverSafe
  <2>2. CASE ~DestroyReceiver
    <3>1. receiver' = receiver /\ (connected' => connected)
      BY <2>2
    <3> QED
      BY <1>1, <3>1 DEF Inv, ReceiverSafe
  <2> QED
    BY <2>1, <2>2
<1> QED
  BY <1>4, <1>5, <1>6 DEF Inv

\* The closure of an emission asks for its receiver, calls the slot and ends.
LEMMA DeliveryStep ==
    ASSUME Constants, Inv, Deliver \/ CallSlot
    PROVE  Inv'
<1> USE DEF Deliver, CallSlot
<1>1. /\ queue' = queue /\ caller' = caller /\ box' = box
      /\ connected' = connected /\ receiver' = receiver /\ emits' = emits
      /\ running \in Running /\ running.kind = "deliver"
  BY DEF Inv, Types
<1>2. \/ running' = None
      \/ running' \in Running /\ running'.kind = "deliver" /\ receiver = "alive"
  <2>1. [running EXCEPT !.arg = "fn"] \in Running /\ [running EXCEPT !.arg = "fn"].kind = running.kind
    BY <1>1, RunningRecord
  <2> QED
    BY <1>1, <2>1
<1>3. Types'
  BY <1>1, <1>2 DEF Inv, Types
<1>4. \A c \in Callers : ~Runs(c) /\ ~Runs(c)' /\ (Pending(c)' <=> Pending(c))
  BY <1>1, <1>2 DEF Runs, Pending
<1>5. OneClosure'
  BY <1>1, <1>2, <1>4 DEF Inv, OneClosure, Queued
<1> QED
  BY <1>1, <1>2, <1>3, <1>5 DEF Inv, ReceiverSafe

\* An emitter's post() adds a closure that is no call.
LEMMA PostStep ==
    ASSUME Constants, Inv, \E e \in Emitters : PostDelivery(e)
    PROVE  Inv'
<1> PICK e \in Emitters : PostDelivery(e)
  OBVIOUS
<1> USE DEF PostDelivery
<1>0. /\ [kind |-> "deliver", by |-> e, arg |-> emits[e]] \in Posted
      /\ queue \in Seq(Posted)
  BY DEF Inv, Types, Posted
<1>1. Types'
  BY <1>0 DEF Inv, Types
<1>2. /\ \A c \in Callers : \A i \in DOMAIN queue' : Queued(i, c)' => Queued(i, c)
      /\ \A c \in Callers : \A i \in DOMAIN queue : Queued(i, c) => i \in DOMAIN queue' /\ Queued(i, c)'
      /\ \A i \in DOMAIN queue' : queue'[i].kind = "call" => i \in DOMAIN queue /\ queue'[i] = queue[i]
  BY DEF Inv, Types, Posted, Queued
<1>3. \A c \in Callers : Pending(c)' <=> Pending(c)
  BY <1>2 DEF Pending, Queued
<1>4. OneClosure'
  BY <1>2, <1>3 DEF Inv, OneClosure, Runs, Queued
<1> QED
  BY <1>1, <1>4 DEF Inv, ReceiverSafe

\* The caller waits, wakes and reads.
LEMMA CallerStep ==
    ASSUME Constants, Inv, NEW c \in Callers, Wait(c) \/ Spurious(c) \/ Fetch(c)
    PROVE  Inv'
<1> USE DEF Wait, Spurious, Fetch
<1>1. Types'
  BY DEF Inv, Types
<1>2. OneClosure'
  BY DEF Inv, Types, OneClosure, Queued, Pending, Runs
<1> QED
  BY <1>1, <1>2 DEF Inv, ReceiverSafe

\* A caller posts the closure that refers to its box.
LEMMA PostCallStep ==
    ASSUME Constants, Inv, NEW c \in Callers, PostCall(c)
    PROVE  Inv'
<1> DEFINE n == Len(queue) + 1
<1> USE DEF PostCall
<1>1. Types'
  BY DEF Inv, Types, Posted
<1>2. /\ DOMAIN queue' = DOMAIN queue \cup {n} /\ n \notin DOMAIN queue
      /\ \A i \in DOMAIN queue : queue'[i] = queue[i]
      /\ queue'[n].kind = "call" /\ queue'[n].by = c
  BY DEF Inv, Types, Posted
<1>3. ~Pending(c) /\ ~box[c].done
  BY DEF Inv, OneClosure
<1>4. Pending(c)' /\ \A d \in Callers \ {c} : Pending(d)' <=> Pending(d)
  BY <1>2 DEF Pending
<1>5. OneClosure'
  BY <1>2, <1>3, <1>4 DEF Inv, Types, OneClosure, Queued, Runs, Pending
<1> QED
  BY <1>1, <1>5 DEF Inv, ReceiverSafe

\* The loop takes the first closure.
LEMMA TakeStep ==
    ASSUME Constants, Inv, Take
    PROVE  Inv'
<1> USE DEF Take
<1>0. queue \in Seq(Posted) /\ queue # <<>> /\ Head(queue) \in Posted /\ Head(queue) = queue[1]
  BY DEF Inv, Types
<1>1. /\ running' \in Running
      /\ running'.kind = queue[1].kind /\ running'.by = queue[1].by /\ running'.arg = "start"
  <2>1. PICK p \in Posted : p = queue[1] /\ running' = [p EXCEPT !.arg = "start"]
    BY <1>0
  <2>2. /\ [p EXCEPT !.arg = "start"] \in Running
        /\ [p EXCEPT !.arg = "start"].kind = p.kind
        /\ [p EXCEPT !.arg = "start"].by = p.by
        /\ [p EXCEPT !.arg = "start"].arg = "start"
    BY RunningRecord
  <2> QED
    BY <2>1, <2>2
<1>2. Types'
  <2>1. queue' \in Seq(Posted)
    BY <1>0
  <2> QED
    BY <1>1, <2>1 DEF Inv, Types
<1>3. /\ \A i \in DOMAIN queue' : i + 1 \in DOMAIN queue /\ queue'[i] = queue[i + 1]
      /\ \A i \in DOMAIN queue : i = 1 \/ (i - 1 \in DOMAIN queue' /\ queue'[i - 1] = queue[i])
      /\ 1 \in DOMAIN queue /\ DOMAIN queue \subseteq Int /\ DOMAIN queue' \subseteq Nat \ {0}
  BY DEF Inv, Types, Posted
<1>4. /\ running' # None /\ running = None
      /\ running'.kind = queue[1].kind /\ running'.by = queue[1].by /\ running'.arg = "start"
  BY <1>1 DEF Constants
<1>5. ASSUME NEW d \in Callers PROVE Pending(d)' <=> Pending(d)
  <2>1. ASSUME Pending(d) PROVE Pending(d)'
    <3>1. PICK i \in DOMAIN queue : queue[i].kind = "call" /\ queue[i].by = d
      BY <1>4, <2>1 DEF Pending
    <3>2. CASE i = 1
      BY <1>4, <3>1, <3>2 DEF Pending
    <3>3. CASE i # 1
      BY <1>3, <3>1, <3>3 DEF Pending
    <3> QED
      BY <3>2, <3>3
  <2>2. ASSUME Pending(d)' PROVE Pending(d)
    <3>1. CASE running'.kind = "call" /\ running'.by = d
      BY <1>3, <1>4, <3>1 DEF Pending
    <3>2. CASE \E i \in DOMAIN queue' : queue'[i].kind = "call" /\ queue'[i].by = d
      BY <1>3, <3>2 DEF Pending
    <3> QED
      BY <2>2, <3>1, <3>2 DEF Pending
  <2> QED
    BY <2>1, <2>2
<1>6. OneClosure'
  <2>1. /\ \A i \in DOMAIN queue' : queue'[i].kind = "call" => queue'[i].by \in Callers
        /\ running'.kind = "call" => running'.by \in Callers
    BY <1>3, <1>4 DEF Inv, OneClosure
  <2>2. ASSUME NEW d \in Callers
        PROVE /\ \A i, j \in DOMAIN queue' : Queued(i, d)' /\ Queued(j, d)' => i = j
              /\ Runs(d)' => \A i \in DOMAIN queue' : ~Queued(i, d)'
    BY <1>3, <1>4 DEF Inv, OneClosure, Queued, Runs
  <2> QED
    BY <1>4, <1>5, <2>1, <2>2 DEF Inv, OneClosure, Runs
<1> QED
  BY <1>2, <1>4, <1>6 DEF Inv, ReceiverSafe

\* The closure of a call runs the function, stores what it gave and publishes it.
LEMMA RunStep ==
    ASSUME Constants, Inv, RunFn \/ FinishCall
    PROVE  Inv'
<1>1. PICK c \in Callers : running \in Running /\ running.kind = "call" /\ c = running.by /\ Runs(c)
  BY DEF Inv, Types, OneClosure, RunFn, FinishCall, Runs
<1>2. /\ queue' = queue /\ receiver' = receiver /\ connected' = connected /\ emits' = emits
  BY DEF RunFn, FinishCall, Finish
<1>3. CASE RunFn
  <2>1. Types'
    BY <1>1, <1>3, RunningRecord DEF Inv, Types, RunFn
  <2>2. /\ running' # None /\ running'.kind = "call" /\ running'.by = c /\ running'.arg = "finish"
        /\ caller' = caller /\ box' = [box EXCEPT ![c].holds = "value"]
    BY <1>1, <1>3, RunningRecord DEF RunFn, Constants
  <2>3. \A d \in Callers : (Pending(d)' <=> Pending(d)) /\ (Runs(d)' <=> Runs(d))
    BY <1>1, <1>2, <2>2 DEF Pending, Runs
  <2>4. \A d \in Callers : /\ box'[d].done = box[d].done
                           /\ box'[d].holds = IF d = c THEN "value" ELSE box[d].holds
    BY <1>1, <2>2 DEF Inv, Types
  <2>5. OneClosure'
    BY <1>1, <1>2, <2>2, <2>3, <2>4 DEF Inv, OneClosure, Queued, Runs, Constants
  <2> QED
    BY <1>2, <2>1, <2>2, <2>5 DEF Inv, ReceiverSafe
<1>4. CASE FinishCall
  <2>1. PICK h \in {"value", "exception"} : Finish(c, h)
    BY <1>1, <1>4 DEF Inv, Types, OneClosure, FinishCall, Constants
  <2>2. Types'
    BY <1>1, <1>2, <2>1 DEF Inv, Types, Finish
  <2>3. /\ running' = None /\ box'[c].done /\ box'[c].holds # None
        /\ caller'[c] = "awake"
        /\ \A d \in Callers \ {c} : box'[d] = box[d] /\ caller'[d] = caller[d]
    BY <1>1, <2>1 DEF Inv, Types, OneClosure, Finish, Pending, Runs, Constants
  <2>4. ~Pending(c)' /\ \A d \in Callers \ {c} : Pending(d)' <=> Pending(d)
    <3>1. \A i \in DOMAIN queue : ~(queue[i].kind = "call" /\ queue[i].by = c)
      BY <1>1 DEF Inv, OneClosure, Queued
    <3>2. ~Pending(c)'
      BY <3>1, <1>2, <2>3 DEF Pending
    <3>3. ASSUME NEW d \in Callers, d # c PROVE Pending(d)' <=> Pending(d)
      BY <3>3, <1>1, <1>2, <2>3 DEF Pending
    <3> QED
      BY <3>2, <3>3
  <2>5. OneClosure'
    <3>1. /\ \A i \in DOMAIN queue' : queue'[i].kind = "call" => queue'[i].by \in Callers
          /\ \A d \in Callers : ~Runs(d)'
          /\ \A d \in Callers : \A i, j \in DOMAIN queue' : Queued(i, d)' /\ Queued(j, d)' => i = j
      BY <1>2, <2>3 DEF Inv, OneClosure, Queued, Runs
    <3>2. \A d \in Callers \ {c} :
            /\ Pending(d)' => caller'[d] \in {"awake", "asleep"} /\ ~box'[d].done
            /\ caller'[d] = "out" => ~box'[d].done
            /\ caller'[d] \in {"awake", "asleep"} => Pending(d)' \/ box'[d].done
            /\ caller'[d] = "asleep" => ~box'[d].done
            /\ caller'[d] \in {"read", "back"} => box'[d].done
            /\ box'[d].done => box'[d].holds # None
      BY <2>3, <2>4 DEF Inv, OneClosure
    <3> QED
      BY <3>1, <3>2, <2>3, <2>4 DEF OneClosure
  <2> QED
    BY <1>2, <2>2, <2>3, <2>5 DEF Inv, ReceiverSafe
<1> QED
  BY <1>3, <1>4

\* The invariant of queued connections and blocking calls.
LEMMA QueuedInvariant ==
    ASSUME Constants PROVE Spec => []Inv
<1>1. Init => Inv
  BY DEF Init, Inv, Types, OneClosure, ReceiverSafe, Pending, Runs, Queued
<1>2. Inv /\ [Next]_vars => Inv'
  <2>1. ASSUME Inv, UNCHANGED vars PROVE Inv'
    BY <2>1 DEF vars, Inv, Types, OneClosure, ReceiverSafe, Pending, Runs, Queued
  <2> QED
    BY <2>1, OutsideStep, DeliveryStep, PostStep, CallerStep, PostCallStep, TakeStep, RunStep DEF Next
<1> QED
  BY <1>1, <1>2, PTL DEF Spec

\* connect_queued() with a receiver: a slot runs on a live receiver only, whenever it was
\* emitted or posted, and a receiver that is gone has left no connection.
THEOREM QueuedReceiverSafe ==
    ASSUME Constants PROVE Spec => []ReceiverSafe
<1>1. Inv => ReceiverSafe
  BY DEF Inv
<1> QED
  BY <1>1, QueuedInvariant, PTL

\* call_and_wait(): the box on the caller's stack outlives the closure that refers to it,
\* no caller sleeps without such a closure, and what it reads was stored before.
THEOREM QueuedCallsSafe ==
    ASSUME Constants PROVE Spec => []CallsSafe
<1>1. Inv => CallsSafe
  BY DEF Inv, Types, OneClosure, CallsSafe
<1> QED
  BY <1>1, QueuedInvariant, PTL
=============================================================================
