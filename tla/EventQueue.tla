------------------------------ MODULE EventQueue ------------------------------
(***************************************************************************)
(* The event queue of an EventLoop (EventLoopPrivate::mEventQueue), a      *)
(* sequence of entries that enqueue_event() keeps sorted by priority.      *)
(* Each operator is what one critical section of mEventMutex does to it.   *)
(***************************************************************************)
EXTENDS Integers, Sequences, SequencesExt

\* An entry: who gets the event, which event it is, whether it is a
\* DeferredDeleteEvent, and its dispatch priority.
EventEntry(receivers, events, priorities) ==
    [receiver : receivers, event : events, deferredDelete : BOOLEAN, priority : priorities]

HasDeferredDelete(q, r) ==
    \E i \in 1..Len(q) : q[i].receiver = r /\ q[i].deferredDelete

\* The stable sorted insert: in front of the first entry of strictly smaller
\* priority, at the end if there is none.
Position(q, p) ==
    CHOOSE i \in 1..(Len(q) + 1) :
        /\ i <= Len(q) => q[i].priority < p
        /\ \A j \in 1..(i - 1) : q[j].priority >= p

\* enqueue_event: a second DeferredDeleteEvent for a receiver is dropped.
Enqueue(q, entry) ==
    IF entry.deferredDelete /\ HasDeferredDelete(q, entry.receiver) THEN q
    ELSE InsertAt(q, Position(q, entry.priority), entry)

RemoveNothing(q, r) == q               \* mutant: nothing is removed

\* remove_pending_events, and what take_events_for leaves behind.
RemovePending(q, r) == SelectSeq(q, LAMBDA e : e.receiver # r)

\* take_events_for: what it takes.
EventsFor(q, r) == SelectSeq(q, LAMBDA e : e.receiver = r)

\* Entries are dispatched front first, so the larger priority goes first.
Sorted(q) == \A i, j \in 1..Len(q) : i < j => q[i].priority >= q[j].priority
=============================================================================
