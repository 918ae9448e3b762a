--------------------------- MODULE UvEventDispatcher ---------------------------
(***************************************************************************)
(* The libuv driver of an EventLoop (uv/detail/uv_event_dispatcher.cpp):   *)
(* timers and socket notifiers, the handles behind them, the callbacks and *)
(* the teardown.  Everything happens on the loop thread; a callback may    *)
(* start and stop whatever it likes, itself included.  The wake-up handle  *)
(* is modelled in EventLoop.                                               *)
(*                                                                         *)
(* libuv is external: uv_close() takes effect at the end of the round,     *)
(* where the close callbacks free the handles; a repeating timer is        *)
(* re-armed before its callback runs, and a repeat of 0 means no repeat.   *)
(***************************************************************************)
EXTENDS Integers, Sequences, FiniteSets, SequencesExt

CONSTANTS
    Ids, Fds, None,
    MaxRegs          \* the bound on registrations, and so on handles

ASSUME UvAssumption == None \notin Ids \cup Fds \cup Nat /\ MaxRegs \in Nat

VARIABLES
    mTimers,         \* id -> handle
    mPolls,          \* fd -> [handle, fn]
    heap,            \* every handle ever allocated
    stage,           \* where uv_run() is
    inflight,        \* poll handles whose events the round has collected
    running,         \* the callback that runs
    regs,            \* callbacks registered so far, their identity
    retired          \* history: callbacks stopped, unregistered or replaced

uvVars == <<mTimers, mPolls, heap, stage, inflight, running, regs, retired>>

UvInit ==
    /\ mTimers = [id \in Ids |-> None]
    /\ mPolls = [fd \in Fds |-> None]
    /\ heap = <<>>
    /\ stage = "outside"
    /\ inflight = {}
    /\ running = None
    /\ regs = 0 /\ retired = {}

\* The program runs on the loop thread, between rounds or in a callback.
InUserCode == running # None \/ stage = "outside"

Close(handles, h) == [handles EXCEPT ![h].state = "closing"]

-----------------------------------------------------------------------------
\* start_timer(): a duplicate id replaces the registration.
UvStartTimer(id, zero) ==
    /\ InUserCode /\ regs < MaxRegs
    /\ regs' = regs + 1
    /\ LET old == mTimers[id]
           rest == IF old = None THEN heap ELSE Close(heap, old)
       IN  /\ heap' = Append(rest, [kind |-> "timer", key |-> id, state |-> "armed",
                                    zero |-> zero, fn |-> regs'])
           /\ retired' = IF old = None THEN retired ELSE retired \cup {heap[old].fn}
    /\ mTimers' = [mTimers EXCEPT ![id] = Len(heap) + 1]
    /\ UNCHANGED <<mPolls, stage, inflight, running>>

\* stop_timer() of every id of a set; an unknown id is a no-op.
Stopped(ids) == {mTimers[id] : id \in ids} \ {None}

StopFreesAtOnce(ids) ==                \* mutant: the handle is deleted, not closed
    /\ heap' = [h \in 1..Len(heap) |->
           IF h \in Stopped(ids) THEN [heap[h] EXCEPT !.state = "freed"] ELSE heap[h]]
    /\ retired' = retired \cup {heap[h].fn : h \in Stopped(ids)}
    /\ mTimers' = [id \in Ids |-> IF id \in ids THEN None ELSE mTimers[id]]

UvStopTimers(ids) ==
    /\ heap' = [h \in 1..Len(heap) |->
           IF h \in Stopped(ids) THEN [heap[h] EXCEPT !.state = "closing"] ELSE heap[h]]
    /\ retired' = retired \cup {heap[h].fn : h \in Stopped(ids)}
    /\ mTimers' = [id \in Ids |-> IF id \in ids THEN None ELSE mTimers[id]]

\* A live fd keeps its handle and gets the new callback.
RegisterSocketNotifier(fd) ==
    /\ InUserCode /\ regs < MaxRegs
    /\ regs' = regs + 1
    /\ IF mPolls[fd] # None
       THEN /\ mPolls' = [mPolls EXCEPT ![fd].fn = regs']
            /\ retired' = retired \cup {mPolls[fd].fn}
            /\ UNCHANGED heap
       ELSE /\ heap' = Append(heap, [kind |-> "poll", key |-> fd, state |-> "armed",
                                     zero |-> FALSE, fn |-> regs'])
            /\ mPolls' = [mPolls EXCEPT ![fd] = [handle |-> Len(heap) + 1, fn |-> regs']]
            /\ UNCHANGED retired
    /\ UNCHANGED <<mTimers, stage, inflight, running>>

UnregisterSocketNotifier(fd) ==
    /\ InUserCode /\ mPolls[fd] # None
    /\ heap' = Close(heap, mPolls[fd].handle)
    /\ retired' = retired \cup {mPolls[fd].fn}
    /\ mPolls' = [mPolls EXCEPT ![fd] = None]
    /\ UNCHANGED <<mTimers, stage, inflight, running, regs>>

-----------------------------------------------------------------------------
(* uv_run(): timers, polls, closing handles. *)
BeginRound ==
    /\ stage = "outside" /\ running = None
    /\ stage' = "timers"
    /\ UNCHANGED <<mTimers, mPolls, heap, inflight, running, regs, retired>>

ExpireUnrepeated(h, once) ==           \* mutant: uv_timer_start() without a repeat
    /\ stage = "timers" /\ running = None
    /\ heap[h].kind = "timer" /\ heap[h].state = "armed"
    /\ heap' = [heap EXCEPT ![h].state = IF once THEN "closing" ELSE "stopped"]
    /\ mTimers' = IF once THEN [mTimers EXCEPT ![heap[h].key] = None] ELSE mTimers
    /\ retired' = IF once THEN retired \cup {heap[h].fn} ELSE retired
    /\ running' = [handle |-> h, fn |-> heap[h].fn]
    /\ UNCHANGED <<mPolls, stage, inflight, regs>>

\* on_timer_expired(); the callback of a one-shot timer begins with stop_timer().
Expire(h, once) ==
    /\ stage = "timers" /\ running = None
    /\ heap[h].kind = "timer" /\ heap[h].state = "armed"
    /\ heap' = [heap EXCEPT ![h].state = IF once THEN "closing"
                                         ELSE IF heap[h].zero THEN "stopped" ELSE "armed"]
    /\ mTimers' = IF once THEN [mTimers EXCEPT ![heap[h].key] = None] ELSE mTimers
    /\ retired' = IF once THEN retired \cup {heap[h].fn} ELSE retired
    /\ running' = [handle |-> h, fn |-> heap[h].fn]
    /\ UNCHANGED <<mPolls, stage, inflight, regs>>

TimersDone ==
    /\ stage = "timers" /\ running = None
    /\ stage' = "polls"
    /\ inflight' \in SUBSET {h \in 1..Len(heap) : heap[h].kind = "poll" /\ heap[h].state = "armed"}
    /\ UNCHANGED <<mTimers, mPolls, heap, running, regs, retired>>

PollReadyOfHandle(h, ok) ==            \* mutant: the callback is kept with the handle
    /\ stage = "polls" /\ running = None /\ h \in inflight
    /\ inflight' = inflight \ {h}
    /\ running' = IF ok THEN [handle |-> h, fn |-> heap[h].fn] ELSE None
    /\ UNCHANGED <<mTimers, mPolls, heap, stage, regs, retired>>

\* on_poll_ready(): the event of a handle that was closed meanwhile finds its fd
\* unregistered or registered anew.
PollReady(h, ok) ==
    /\ stage = "polls" /\ running = None /\ h \in inflight
    /\ inflight' = inflight \ {h}
    /\ LET entry == mPolls[heap[h].key]
       IN  running' = IF entry # None /\ ok THEN [handle |-> h, fn |-> entry.fn] ELSE None
    /\ UNCHANGED <<mTimers, mPolls, heap, stage, regs, retired>>

\* on_handle_closed(), on_poll_closed() of every closing handle.
Freed(handles) == [h \in 1..Len(handles) |->
    IF handles[h].state = "closing" THEN [handles[h] EXCEPT !.state = "freed"] ELSE handles[h]]

RoundEnds ==
    /\ stage = "polls" /\ running = None /\ inflight = {}
    /\ stage' = "outside"
    /\ heap' = Freed(heap)
    /\ UNCHANGED <<mTimers, mPolls, inflight, running, regs, retired>>

\* The destructor: closes what the tables hold and runs a last round.
Teardown ==
    /\ stage = "outside" /\ running = None
    /\ stage' = "closed"
    /\ LET held == ({mTimers[id] : id \in Ids} \ {None})
                   \cup {mPolls[fd].handle : fd \in {f \in Fds : mPolls[f] # None}}
       IN  heap' = Freed([h \in 1..Len(heap) |->
                       IF h \in held THEN [heap[h] EXCEPT !.state = "closing"] ELSE heap[h]])
    /\ mTimers' = [id \in Ids |-> None] /\ mPolls' = [fd \in Fds |-> None]
    /\ UNCHANGED <<inflight, running, regs, retired>>

-----------------------------------------------------------------------------
\* The tables and the handles agree: an open handle is the one its table names,
\* so start_timer() and register_socket_notifier() never leak or double one; and a
\* callback that stops its own timer runs on in storage that only the close
\* callback, later in the round, frees ("the current callback finishes first").  In
\* the end uv_loop_close() succeeds: the destructor left no handle open.
HandlesOwned ==
    /\ \A h \in 1..Len(heap) :
          heap[h].state \in {"armed", "stopped"} <=>
              IF heap[h].kind = "timer" THEN mTimers[heap[h].key] = h
              ELSE mPolls[heap[h].key] # None /\ mPolls[heap[h].key].handle = h
    /\ running # None /\ running.handle # None => heap[running.handle].state # "freed"
    /\ stage = "closed" => \A h \in 1..Len(heap) : heap[h].state = "freed"

\* No callback begins after its registration was stopped, unregistered or
\* replaced, even when its event was already collected by the round.
BeginsRegistered == running = None /\ running' # None => running'.fn \notin retired
=============================================================================
