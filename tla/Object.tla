-------------------------------- MODULE Object --------------------------------
(***************************************************************************)
(* Objects (kernel/object.cpp): the ownership tree, event filters, the     *)
(* loop an object belongs to, posted events, delete_later() and the        *)
(* destructor.  Objects are used by one thread, which runs one loop at a   *)
(* time, by exec() or by calling process_events() itself.  A callback, a   *)
(* filter or a handler, may use objects while an event is delivered.       *)
(***************************************************************************)
EXTENDS EventQueue, FiniteSets

CONSTANTS
    Objects, Loops, None,
    Priorities,      \* given to post_event()
    MaxEvents,       \* the bound on events posted
    Programs,        \* [ops, loops, events]: what a program uses, and how many events
    Fallback,        \* is delete_later() called on objects without a loop?
    ChainEdits       \* do filters shrink the chain they are called from at will?

ASSUME ObjectAssumption == None \notin Objects \cup Loops /\ IsFiniteSet(Objects)
ASSUME ObjectBounds ==
    /\ Priorities \subseteq Int /\ MaxEvents \in Nat
    /\ {Fallback, ChainEdits} \subseteq BOOLEAN
    /\ Programs \subseteq
          [ops : SUBSET {"set_parent", "filters", "post_event", "remove_pending_events",
                         "delete_later", "move_to_loop", "exec"},
           loops : SUBSET Loops, events : 0..MaxEvents]

VARIABLES
    program,                           \* the program that runs
    life,                              \* "new", "alive" or "dead"
    mParent, mChildren,                \* the tree
    mFilters, mWatching,               \* the filters of an object, the objects it filters
    mThread,                           \* the loop of an object
    mEventQueue,                       \* per loop
    exited,                            \* the loops exit() was called on
    current,                           \* EventLoop::current()
    pump,                              \* the loop whose process_events() runs
    delivery,                          \* the event being delivered
    posted                             \* events posted so far, their identity

tree == <<mParent, mChildren>>
registry == <<mFilters, mWatching>>
loops == <<exited, current, pump>>
vars == <<program, life, tree, registry, mThread, mEventQueue, loops, delivery, posted>>

Alive == {x \in Objects : life[x] = "alive"}
Idle == [phase |-> "idle"]
IsRunning(l) == l # None /\ current = l /\ l \notin exited

\* Code of the program runs: between deliveries, in a filter or in a handler.
InUserCode == delivery.phase \in {"idle", "filter", "handler"}

Without(s, D) == SelectSeq(s, LAMBDA x : x \notin D)

Init ==
    /\ program \in Programs
    /\ life = [x \in Objects |-> "new"]
    /\ mParent = [x \in Objects |-> None]
    /\ mChildren = [x \in Objects |-> <<>>]
    /\ mFilters = [x \in Objects |-> <<>>]
    /\ mWatching = [x \in Objects |-> <<>>]
    /\ mThread = [x \in Objects |-> None]
    /\ mEventQueue = [l \in Loops |-> <<>>]
    /\ exited = {} /\ current = None /\ pump = None
    /\ delivery = Idle
    /\ posted = 0

-----------------------------------------------------------------------------
(***************************************************************************)
(* The tree.                                                               *)
(***************************************************************************)
\* The objects below x, x included, level by level.
Levels(x) ==
    LET level[n \in 0..Cardinality(Objects)] ==
            IF n = 0 THEN <<x>>
            ELSE FlattenSeq([i \in 1..Len(level[n - 1]) |-> mChildren[level[n - 1][i]]])
    IN  FlattenSeq([n \in 1..(Cardinality(Objects) + 1) |-> level[n - 1]])
Subtree(x) == ToSet(Levels(x))

\* The relink of set_parent(); both lists and the pointer.
Relink(x, p) ==
    /\ mParent' = [mParent EXCEPT ![x] = p]
    /\ mChildren' = [y \in Objects |->
           IF y = p THEN Append(Without(mChildren[y], {x}), x) ELSE Without(mChildren[y], {x})]

\* The constructor: the object belongs to the loop that runs.
Construct(x, p) ==
    /\ InUserCode
    /\ life[x] = "new"
    /\ life' = [life EXCEPT ![x] = "alive"]
    /\ mThread' = [mThread EXCEPT ![x] = current]
    /\ Relink(x, p)
    /\ UNCHANGED <<registry, mEventQueue, loops, delivery, posted>>

SetParentUnchecked(x, p) ==            \* mutant: no cycle detection
    /\ InUserCode /\ x \in Alive
    /\ mParent[x] # p /\ p # x
    /\ Relink(x, p)
    /\ UNCHANGED <<life, registry, mThread, mEventQueue, loops, delivery, posted>>

\* set_parent(): a parent below the object is fatal, the same parent a no-op.
SetParent(x, p) ==
    /\ InUserCode /\ x \in Alive
    /\ mParent[x] # p
    /\ p \notin Subtree(x)
    /\ Relink(x, p)
    /\ UNCHANGED <<life, registry, mThread, mEventQueue, loops, delivery, posted>>

-----------------------------------------------------------------------------
(***************************************************************************)
(* Event filters.                                                          *)
(***************************************************************************)
\* May this code take f out of the chain of w?  A filter may take itself out.
MayDetach(w, f) ==
    (~ChainEdits /\ delivery.phase = "filter" /\ delivery.receiver = w) => delivery.filter = f

\* install_event_filter(): removed first, so an installed filter becomes the newest.
InstallEventFilter(w, f) ==
    /\ InUserCode /\ {w, f} \subseteq Alive /\ w # f
    /\ mFilters' = [mFilters EXCEPT ![w] = Append(Without(@, {f}), f)]
    /\ mWatching' = [mWatching EXCEPT ![f] = Append(Without(@, {w}), w)]
    /\ UNCHANGED <<life, tree, mThread, mEventQueue, loops, delivery, posted>>

RemoveEventFilter(w, f) ==
    /\ InUserCode /\ {w, f} \subseteq Alive
    /\ f \in ToSet(mFilters[w]) /\ MayDetach(w, f)
    /\ mFilters' = [mFilters EXCEPT ![w] = Without(@, {f})]
    /\ mWatching' = [mWatching EXCEPT ![f] = Without(@, {w})]
    /\ UNCHANGED <<life, tree, mThread, mEventQueue, loops, delivery, posted>>

-----------------------------------------------------------------------------
(***************************************************************************)
(* Posted events.                                                          *)
(***************************************************************************)
PostEvent(x, p) ==
    /\ InUserCode /\ x \in Alive
    /\ mThread[x] # None
    /\ posted < program.events
    /\ posted' = posted + 1
    /\ mEventQueue' = [mEventQueue EXCEPT ![mThread[x]] = Enqueue(@,
           [receiver |-> x, event |-> posted', deferredDelete |-> FALSE, priority |-> p])]
    /\ UNCHANGED <<life, tree, registry, mThread, loops, delivery>>

\* delete_later(): on the object's loop, else on the one that runs.
DeleteLater(x) ==
    /\ InUserCode /\ x \in Alive
    /\ mThread[x] # None \/ (Fallback /\ current # None)
    /\ posted < program.events
    /\ posted' = posted + 1
    /\ LET l == IF mThread[x] # None THEN mThread[x] ELSE current
       IN  mEventQueue' = [mEventQueue EXCEPT ![l] = Enqueue(@,
               [receiver |-> x, event |-> posted', deferredDelete |-> TRUE, priority |-> 0])]
    /\ UNCHANGED <<life, tree, registry, mThread, loops, delivery>>

RemovePendingEvents(x) ==
    /\ InUserCode /\ x \in Alive
    /\ mEventQueue' = [l \in Loops |-> IF l \in {mThread[x], current}
                                       THEN RemovePending(mEventQueue[l], x)
                                       ELSE mEventQueue[l]]
    /\ UNCHANGED <<life, tree, registry, mThread, loops, delivery, posted>>

\* What move_to_loop() appends to the queue of its target t: the entries of every
\* moved object, from the loop that object belonged to.
Migrating(x, t) ==
    FlattenSeq([i \in 1..Len(Levels(x)) |->
        LET y == Levels(x)[i]
        IN  IF mThread[y] \in {None, t} THEN <<>> ELSE EventsFor(mEventQueue[mThread[y]], y)])

MigratingFromRoot(x, t) ==             \* mutant: every entry is sought in the root's loop
    FlattenSeq([i \in 1..Len(Levels(x)) |->
        LET y == Levels(x)[i]
        IN  IF mThread[x] \in {None, t} THEN <<>> ELSE EventsFor(mEventQueue[mThread[x]], y)])

MoveEntriesOfRoot(x, t) ==             \* mutant: the children's entries stay behind
    /\ InUserCode /\ x \in Alive
    /\ mThread[x] # t
    /\ ~IsRunning(mThread[x]) /\ ~IsRunning(t)
    /\ mThread' = [y \in Objects |-> IF y \in Subtree(x) THEN t ELSE mThread[y]]
    /\ mEventQueue' = [l \in Loops |->
           IF l = t THEN mEventQueue[l] \o MigratingFromRoot(x, t)
           ELSE SelectSeq(mEventQueue[l], LAMBDA e :
                    ~(e.receiver \in Subtree(x) /\ mThread[x] = l))]
    /\ UNCHANGED <<life, tree, registry, loops, delivery, posted>>

\* move_to_loop(): the subtree and its entries; entries that go nowhere are deleted.
MoveToLoop(x, t) ==
    /\ InUserCode /\ x \in Alive
    /\ mThread[x] # t
    /\ ~IsRunning(mThread[x]) /\ ~IsRunning(t)
    /\ mThread' = [y \in Objects |-> IF y \in Subtree(x) THEN t ELSE mThread[y]]
    /\ mEventQueue' = [l \in Loops |->
           IF l = t THEN mEventQueue[l] \o Migrating(x, t)
           ELSE SelectSeq(mEventQueue[l], LAMBDA e :
                    ~(e.receiver \in Subtree(x) /\ mThread[e.receiver] = l))]
    /\ UNCHANGED <<life, tree, registry, loops, delivery, posted>>

-----------------------------------------------------------------------------
(***************************************************************************)
(* The destructor: the objects of the subtree leave the tree and the       *)
(* filter registries, and their entries the queue of their loop and of     *)
(* the loop that runs.                                                     *)
(***************************************************************************)
Purge(D) ==
    [l \in Loops |-> SelectSeq(mEventQueue[l], LAMBDA e :
        ~(e.receiver \in D /\ l \in {mThread[e.receiver], current}))]

Die(D, filters) ==
    /\ life' = [y \in Objects |-> IF y \in D THEN "dead" ELSE life[y]]
    /\ mParent' = [y \in Objects |-> IF y \in D THEN None ELSE mParent[y]]
    /\ mChildren' = [y \in Objects |-> IF y \in D THEN <<>> ELSE Without(mChildren[y], D)]
    /\ mFilters' = [y \in Objects |-> IF y \in D THEN <<>> ELSE filters[y]]
    /\ mWatching' = [y \in Objects |-> IF y \in D THEN <<>> ELSE Without(mWatching[y], D)]
    /\ mThread' = [y \in Objects |-> IF y \in D THEN None ELSE mThread[y]]
    /\ mEventQueue' = Purge(D)

DestroyWatchedOnly(x) ==               \* mutant: mWatching is not walked
    Die(Subtree(x), mFilters)

\* The children first take their own subtrees with them.
Destroy(x) == Die(Subtree(x), [y \in Objects |-> Without(mFilters[y], Subtree(x))])

\* Deleted by the program, also from a filter or handler.
Delete(x) ==
    /\ InUserCode /\ x \in Alive
    /\ \A y \in Subtree(x) :
          MayDetach(y, None) /\ \A w \in ToSet(mWatching[y]) : MayDetach(w, y)
    /\ Destroy(x)
    /\ UNCHANGED <<loops, delivery, posted>>

-----------------------------------------------------------------------------
(***************************************************************************)
(* The loops, as far as objects see them, and delivery.                    *)
(***************************************************************************)
Exec(l) ==
    /\ pump = None /\ l \notin exited
    /\ current' = l /\ pump' = l
    /\ UNCHANGED <<life, tree, registry, mThread, mEventQueue, exited, delivery, posted>>

\* process_events() called by the program, outside exec().
ProcessEvents(l) ==
    /\ pump = None
    /\ pump' = l
    /\ UNCHANGED <<life, tree, registry, mThread, mEventQueue, exited, current, delivery, posted>>

Exit(l) ==
    /\ InUserCode /\ l \notin exited
    /\ exited' = exited \cup {l}
    /\ UNCHANGED <<life, tree, registry, mThread, mEventQueue, current, pump, delivery, posted>>

LoopReturns ==
    /\ pump # None /\ delivery = Idle
    /\ IF current = None THEN mEventQueue[pump] = <<>> ELSE current \in exited
    /\ current' = None /\ pump' = None
    /\ UNCHANGED <<life, tree, registry, mThread, mEventQueue, exited, delivery, posted>>

\* pop_event_entry(); send_event_internal() starts at the newest filter.
Pop ==
    /\ pump # None /\ delivery = Idle
    /\ mEventQueue[pump] # <<>>
    /\ LET e == Head(mEventQueue[pump])
       IN  delivery' = [phase |-> "chain", receiver |-> e.receiver, event |-> e.event,
                        deferredDelete |-> e.deferredDelete, filter |-> None,
                        i |-> Len(mFilters[e.receiver])]
    /\ mEventQueue' = [mEventQueue EXCEPT ![pump] = Tail(@)]
    /\ UNCHANGED <<life, tree, registry, mThread, loops, posted>>

CallFilter ==
    /\ delivery.phase = "chain" /\ delivery.i > 0
    /\ delivery' = [delivery EXCEPT !.phase = "filter",
                                    !.filter = mFilters[delivery.receiver][delivery.i]]
    /\ UNCHANGED <<life, tree, registry, mThread, mEventQueue, loops, posted>>

\* event_filter() returns: the event is intercepted or the next filter is asked.
FilterReturns(intercepted) ==
    /\ delivery.phase = "filter"
    /\ delivery' = IF intercepted THEN Idle
                   ELSE [delivery EXCEPT !.phase = "chain", !.filter = None, !.i = @ - 1]
    /\ UNCHANGED <<life, tree, registry, mThread, mEventQueue, loops, posted>>

\* Object::event(): a deferred deletion, or a handler of the program.
CallEvent ==
    /\ delivery.phase = "chain" /\ delivery.i = 0
    /\ IF delivery.deferredDelete
       THEN /\ Destroy(delivery.receiver)
            /\ delivery' = Idle
       ELSE /\ delivery' = [delivery EXCEPT !.phase = "handler"]
            /\ UNCHANGED <<life, tree, registry, mThread, mEventQueue>>
    /\ UNCHANGED <<loops, posted>>

HandlerReturns ==
    /\ delivery.phase = "handler"
    /\ delivery' = Idle
    /\ UNCHANGED <<life, tree, registry, mThread, mEventQueue, loops, posted>>

-----------------------------------------------------------------------------
Step ==
    \/ \E x \in Objects, p \in Alive \cup {None} : Construct(x, p)
    \/ \E x \in Objects : Delete(x)
    \/ "set_parent" \in program.ops /\ \E x \in Alive, p \in Alive \cup {None} : SetParent(x, p)
    \/ "filters" \in program.ops /\ \E w, f \in Alive :
          InstallEventFilter(w, f) \/ RemoveEventFilter(w, f)
    \/ "post_event" \in program.ops /\ \E x \in Alive, p \in Priorities : PostEvent(x, p)
    \/ "delete_later" \in program.ops /\ \E x \in Alive : DeleteLater(x)
    \/ "remove_pending_events" \in program.ops /\ \E x \in Alive : RemovePendingEvents(x)
    \/ "move_to_loop" \in program.ops /\ \E x \in Alive, t \in program.loops \cup {None} : MoveToLoop(x, t)
    \/ "exec" \in program.ops /\ \E l \in program.loops : Exec(l) \/ Exit(l)
    \/ \E l \in program.loops : ProcessEvents(l)
    \/ LoopReturns \/ Pop \/ CallFilter \/ CallEvent \/ HandlerReturns
    \/ \E intercepted \in BOOLEAN : FilterReturns(intercepted)

Next == Step /\ UNCHANGED program

Spec == Init /\ [][Next]_vars

-----------------------------------------------------------------------------
\* Every variable has its type, and objects that do not exist own nothing.
TypeOK ==
    /\ life \in [Objects -> {"new", "alive", "dead"}]
    /\ mParent \in [Objects -> Objects \cup {None}]
    /\ mThread \in [Objects -> Loops \cup {None}]
    /\ \A l \in Loops : ToSet(mEventQueue[l])
          \subseteq EventEntry(Objects, 1..MaxEvents, Priorities \cup {0})
    /\ exited \subseteq Loops
    /\ {current, pump} \subseteq Loops \cup {None} /\ current \in {None, pump}
    /\ posted \in 0..MaxEvents
    /\ \A x \in Objects \ Alive :
          /\ {mParent[x], mThread[x]} = {None}
          /\ mChildren[x] = <<>> /\ mFilters[x] = <<>> /\ mWatching[x] = <<>>

\* set_parent(), the constructor and the cascading destructor keep the two sides
\* of the tree together: an object is in the list of its parent, once, in no
\* other list, and nobody is its own ancestor.  (With the types of the variables.)
TreeConsistent ==
    /\ TypeOK
    /\ \A x \in Objects :
          /\ IsInjective(mChildren[x])
          /\ \A y \in ToSet(mChildren[x]) : y \in Alive /\ mParent[y] = x
          /\ mParent[x] # None => /\ x \in ToSet(mChildren[mParent[x]])
                                  /\ mParent[x] \notin Subtree(x)

\* "destruction of EITHER the filter or the watched object detaches the pair":
\* both registries name the same pairs, once, and only objects that exist; and
\* send_event_internal(), which walks the filters by index while they run, reads an
\* index that exists, of a receiver that does.
FiltersConsistent ==
    \A w, f \in Objects :
        /\ IsInjective(mFilters[w]) /\ IsInjective(mWatching[w])
        /\ f \in ToSet(mFilters[w]) <=> w \in ToSet(mWatching[f])
        /\ f \in ToSet(mFilters[w]) => {w, f} \subseteq Alive
        /\ delivery.phase = "chain" => /\ delivery.receiver \in Alive
                                      /\ delivery.i <= Len(mFilters[delivery.receiver])

\* A queued event can be delivered: its receiver exists and belongs to the loop
\* that holds the event, whatever was destroyed, reparented or moved meanwhile; and
\* "equal priority preserves FIFO order", per receiver, also across move_to_loop().
EntriesDeliverable ==
    \A l \in Loops :
        /\ \A e \in ToSet(mEventQueue[l]) : e.receiver \in Alive /\ mThread[e.receiver] = l
        /\ \A i, j \in 1..Len(mEventQueue[l]) :
              LET d == mEventQueue[l][i]
                  e == mEventQueue[l][j]
              IN  i < j /\ d.receiver = e.receiver /\ d.priority = e.priority => d.event < e.event

=============================================================================
