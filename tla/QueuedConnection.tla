--------------------------- MODULE QueuedConnection ---------------------------
(***************************************************************************)
(* kernel/connect_queued.hpp: a signal whose slot posts to an event loop,  *)
(* with a receiver (the form without one is this with a receiver that is   *)
(* never destroyed), and call_and_wait().  The loop is the first-in        *)
(* first-out runner that EventLoop is shown to be; ~EventLoop runs what it *)
(* finds queued.  Of ~Object the steps that matter here: the liveness      *)
(* token, the connections, the end.                                        *)
(***************************************************************************)
EXTENDS Integers, Sequences

CONSTANTS Emitters,   \* threads that emit the signal, each at most MaxEmits times
          Callers,    \* calls of call_and_wait(), each once
          MaxEmits,
          None

VARIABLES queue,      \* closures posted to the loop
          loop,       \* "runs", then "drains" in ~EventLoop, then "dead" (its token expired)
          running,    \* the closure being run, and how far
          connected,  \* is the slot still connected?
          receiver,   \* "alive", "dying" (token off), "silent" (disconnected), "gone"
          emitter,    \* where a thread is in its emission
          emits,      \* how many it has begun
          caller,     \* where a call_and_wait() is
          box         \* the result_box of each call: mDone, and what was stored

vars == <<queue, loop, running, connected, receiver, emitter, emits, caller, box>>

Init ==
    /\ queue = <<>> /\ loop = "runs" /\ running = None
    /\ connected = TRUE /\ receiver = "alive"
    /\ emitter = [e \in Emitters |-> "out"]
    /\ emits = [e \in Emitters |-> 0]
    /\ caller = [c \in Callers |-> "out"]
    /\ box = [c \in Callers |-> [done |-> FALSE, holds |-> None]]

(***************************************************************************)
(* The emitting side.                                                      *)
(***************************************************************************)
\* operator(): the slot is called if it is connected.
Emit(e) ==
    /\ emitter[e] = "out" /\ emits[e] < MaxEmits
    /\ emits' = [emits EXCEPT ![e] = @ + 1]
    /\ emitter' = [emitter EXCEPT ![e] = IF connected THEN "slot" ELSE "out"]
    /\ UNCHANGED <<queue, loop, running, connected, receiver, caller, box>>

\* The slot: token_alive(loopToken).
CheckLoop(e) ==
    /\ emitter[e] = "slot"
    /\ emitter' = [emitter EXCEPT ![e] = IF loop = "dead" THEN "out" ELSE "post"]
    /\ UNCHANGED <<queue, loop, running, connected, receiver, emits, caller, box>>

\* ... and post() with a copy of the arguments.  ~EventLoop has taken the queue: what is
\* posted while it runs the tasks is lost.
PostDelivery(e) ==
    /\ emitter[e] = "post"
    /\ emitter' = [emitter EXCEPT ![e] = "out"]
    /\ queue' = IF loop = "drains" THEN queue
                ELSE Append(queue, [kind |-> "deliver", by |-> e, arg |-> emits[e]])
    /\ UNCHANGED <<loop, running, connected, receiver, emits, caller, box>>

(***************************************************************************)
(* call_and_wait(), the caller.                                            *)
(***************************************************************************)
\* post() of the closure that refers to the box on the caller's stack; that the loop
\* outlives the call is the caller's duty.
PostCall(c) ==
    /\ caller[c] = "out" /\ loop = "runs"
    /\ queue' = Append(queue, [kind |-> "call", by |-> c, arg |-> None])
    /\ caller' = [caller EXCEPT ![c] = "awake"]
    /\ UNCHANGED <<loop, running, connected, receiver, emitter, emits, box>>

\* box.wait(): the predicate under the mutex.
Wait(c) ==
    /\ caller[c] = "awake"
    /\ caller' = [caller EXCEPT ![c] = IF box[c].done THEN "read" ELSE "asleep"]
    /\ UNCHANGED <<queue, loop, running, connected, receiver, emitter, emits, box>>

Spurious(c) ==
    /\ caller[c] = "asleep"
    /\ caller' = [caller EXCEPT ![c] = "awake"]
    /\ UNCHANGED <<queue, loop, running, connected, receiver, emitter, emits, box>>

\* exception(), take() and the end of the box.
Fetch(c) ==
    /\ caller[c] = "read"
    /\ caller' = [caller EXCEPT ![c] = "back"]
    /\ UNCHANGED <<queue, loop, running, connected, receiver, emitter, emits, box>>

(***************************************************************************)
(* The loop thread.                                                        *)
(***************************************************************************)
\* A closure is taken, by the drain of a round or by ~EventLoop.
Take ==
    /\ running = None /\ queue # <<>> /\ loop # "dead"
    /\ receiver \in {"alive", "gone"}
    /\ running' = [Head(queue) EXCEPT !.arg = "start"]
    /\ queue' = Tail(queue)
    /\ UNCHANGED <<loop, connected, receiver, emitter, emits, caller, box>>

\* mutant: a closure that trusts the connection.
DeliverUnchecked ==
    /\ running # None /\ running.kind = "deliver" /\ running.arg = "start"
    /\ running' = [running EXCEPT !.arg = "fn"]
    /\ UNCHANGED <<queue, loop, connected, receiver, emitter, emits, caller, box>>

\* The posted closure: token_alive(receiverToken), else the delivery is dropped.
Deliver ==
    /\ running # None /\ running.kind = "deliver" /\ running.arg = "start"
    /\ running' = IF receiver = "alive" THEN [running EXCEPT !.arg = "fn"] ELSE None
    /\ UNCHANGED <<queue, loop, connected, receiver, emitter, emits, caller, box>>

\* fn(copiedArgs...)
CallSlot ==
    /\ running # None /\ running.kind = "deliver" /\ running.arg = "fn"
    /\ running' = None
    /\ UNCHANGED <<queue, loop, connected, receiver, emitter, emits, caller, box>>

\* mutant: the done flag is published with the value, before finish().
RunFnPublishes ==
    /\ running # None /\ running.kind = "call" /\ running.arg = "start"
    /\ box' = [box EXCEPT ![running.by] = [done |-> TRUE, holds |-> "value"]]
    /\ running' = [running EXCEPT !.arg = "finish"]
    /\ UNCHANGED <<queue, loop, connected, receiver, emitter, emits, caller>>

\* result_box::run(): fn() returns, and the value is stored under the mutex.
RunFn ==
    /\ running # None /\ running.kind = "call" /\ running.arg = "start"
    /\ box' = [box EXCEPT ![running.by].holds = "value"]
    /\ running' = [running EXCEPT !.arg = "finish"]
    /\ UNCHANGED <<queue, loop, connected, receiver, emitter, emits, caller>>

Finish(c, holds) ==
    /\ box' = [box EXCEPT ![c] = [done |-> TRUE, holds |-> holds]]
    /\ caller' = [caller EXCEPT ![c] = IF @ = "asleep" THEN "awake" ELSE @]
    /\ running' = None
    /\ UNCHANGED <<queue, loop, connected, receiver, emitter, emits>>

\* finish(), or finish_exception() when fn() threw.
FinishCall ==
    /\ running # None /\ running.kind = "call"
    /\ \/ running.arg = "finish" /\ Finish(running.by, box[running.by].holds)
       \/ running.arg = "start" /\ Finish(running.by, "exception")

\* ~EventLoop takes the queue and runs it; the token dies with the loop.  No thread is
\* between its token check and its post() (a limit that connect_queued.hpp documents).
DestroyLoop ==
    /\ loop = "runs" /\ running = None
    /\ loop' = "drains"
    /\ UNCHANGED <<queue, running, connected, receiver, emitter, emits, caller, box>>

LoopGone ==
    /\ loop = "drains" /\ running = None /\ queue = <<>>
    /\ \A e \in Emitters : emitter[e] # "post"
    /\ loop' = "dead"
    /\ UNCHANGED <<queue, running, connected, receiver, emitter, emits, caller, box>>

(***************************************************************************)
(* ~Object of the receiver, on the loop thread: no closure runs meanwhile, *)
(* but emitters do.  (On another thread the check and fn() may enclose all *)
(* of it, a limit that connect_queued.hpp documents.)                      *)
(***************************************************************************)
DestroyReceiver ==
    /\ receiver \in {"alive", "dying", "silent"} /\ running = None
    /\ receiver' = CASE receiver = "alive" -> "dying"     \* mAliveToken->store(false)
                     [] receiver = "dying" -> "silent"    \* mConnections.disconnect_all()
                     [] receiver = "silent" -> "gone"
    /\ connected' = (connected /\ receiver # "dying")
    /\ UNCHANGED <<queue, loop, running, emitter, emits, caller, box>>

\* Connection::disconnect()
Disconnect ==
    /\ connected
    /\ connected' = FALSE
    /\ UNCHANGED <<queue, loop, running, receiver, emitter, emits, caller, box>>

Next ==
    \/ \E e \in Emitters : Emit(e) \/ CheckLoop(e) \/ PostDelivery(e)
    \/ \E c \in Callers : PostCall(c) \/ Wait(c) \/ Spurious(c) \/ Fetch(c)
    \/ Take \/ Deliver \/ CallSlot \/ RunFn \/ FinishCall
    \/ DestroyLoop \/ LoopGone \/ DestroyReceiver \/ Disconnect

Spec == Init /\ [][Next]_vars

(***************************************************************************)
(* Properties.                                                             *)
(***************************************************************************)
\* A slot runs on a live receiver only, also when it was emitted, or even posted, before
\* the receiver was destroyed and is run after it, or by ~EventLoop; and a receiver that
\* is gone has left no connection that would post more.
ReceiverSafe ==
    /\ running # None /\ running.kind = "deliver" /\ running.arg = "fn" => receiver = "alive"
    /\ receiver \in {"silent", "gone"} => ~connected

\* The closures that refer to the box of call c.
Pending(c) ==
    \/ \E i \in DOMAIN queue : queue[i].kind = "call" /\ queue[i].by = c
    \/ running # None /\ running.kind = "call" /\ running.by = c

\* The box lives on the caller's stack: as long as a closure that refers to it is queued or
\* running the caller is inside call_and_wait(); while it sleeps there is such a closure;
\* and it reads a value or an exception that was stored before.
CallsSafe == \A c \in Callers :
    /\ Pending(c) => caller[c] \in {"awake", "asleep"}
    /\ caller[c] = "asleep" => Pending(c)
    /\ caller[c] \in {"read", "back"} => box[c].done /\ box[c].holds # None
=============================================================================
