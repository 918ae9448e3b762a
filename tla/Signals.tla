-------------------------------- MODULE Signals --------------------------------
(***************************************************************************)
(* Signals and slots (kernel/signals.hpp), the thread-safe variant: slots  *)
(* in groups, the copy-on-write list, emission over a snapshot of it,      *)
(* connections, tracked slots, observers, one-shot slots and moves.        *)
(*                                                                         *)
(* A critical section of a signal's m_mutex is one step, and so is a write *)
(* of an atomic or adjacent reads of atomics.  Every thread has a stack of *)
(* the functions it is in; user code runs when the stack is empty or a     *)
(* slot's body is on top.                                                  *)
(* SignalBaseR has the same list, emission order and cleaning.             *)
(***************************************************************************)
EXTENDS Integers, Sequences, SequencesExt, FiniteSets

CONSTANTS
    Threads, Signals, None,
    Slots,            \* each is connected once
    GroupOf,          \* the group id a slot is connected with
    Once,             \* slots of connect_once()
    Tracked,          \* slots that track one shared object
    Observed,         \* slots of one observer
    Programs          \* [ops, slots, emissions]: what a program does, and how often

ASSUME SlotAssumption ==
    /\ IsFiniteSet(Slots) /\ IsFiniteSet(Signals) /\ IsFiniteSet(Threads)
    /\ None \notin Signals /\ GroupOf \in [Slots -> Int]
    /\ Once \cup Tracked \cup Observed \subseteq Slots
ASSUME ProgramAssumption ==
    Programs \subseteq [ops : SUBSET {"disconnect", "disconnect_if", "disconnect_all", "observer",
                                     "tracked", "block", "move"},
                       slots : SUBSET Slots, emissions : Nat]

VARIABLES
    program,          \* the program that runs
    life,             \* "none", "live" or "dead", per signal
    m_slots,          \* the payload of a signal's copy_on_write
    heap,             \* payloads: [count, groups]
    made,             \* the slots connected so far
    mIndex, mConnected, mCleaner,
    blocked,          \* what block() was called on: mBlocked and m_block
    use_count,        \* of the tracked object
    owned,            \* does the program hold a reference to it?
    m_connections,    \* the observer's scoped connections
    observer,         \* "alive", "locked" (its mutex is held), "dying" or "gone"
    stack,            \* the functions a thread is in, innermost first
    emissions,
    fired             \* history: the threads that ran the closure of a one-shot slot

slotVars == <<made, mIndex, mConnected, mCleaner>>
observerVars == <<m_connections, observer>>
vars == <<program, life, m_slots, heap, slotVars, blocked, use_count, owned, observerVars,
          stack, emissions, fired>>

\* Signals and emissions hold one payload each.
Payloads == 1..(Cardinality(Signals) + program.emissions)

Init ==
    /\ program \in Programs
    /\ \E sig \in Signals : life = [x \in Signals |-> IF x = sig THEN "live" ELSE "none"]
    /\ m_slots = [x \in Signals |-> IF life[x] = "live" THEN 1 ELSE None]
    /\ heap = [p \in Payloads |-> [count |-> IF p = 1 THEN 1 ELSE 0, groups |-> <<>>]]
    /\ made = {}
    /\ mIndex = [s \in Slots |-> 0]
    /\ mConnected = [s \in Slots |-> FALSE]
    /\ mCleaner = [s \in Slots |-> None]
    /\ blocked = {}
    /\ use_count = 1 /\ owned = TRUE
    /\ m_connections = <<>> /\ observer = "alive"
    /\ stack = [t \in Threads |-> <<>>]
    /\ emissions = 0
    /\ fired = [s \in Once |-> <<>>]

-----------------------------------------------------------------------------
(* The slot list. *)

\* The order of emission: group after group.
Flat(groups) == FlattenSeq([g \in 1..Len(groups) |-> groups[g].slts])

\* add_slot: into its group, which is created before the first larger one.
AddSlot(groups, s) ==
    LET smaller == {g \in 1..Len(groups) : groups[g].gid < GroupOf[s]}
        it == Cardinality(smaller) + 1
    IN  IF it <= Len(groups) /\ groups[it].gid = GroupOf[s]
        THEN [groups EXCEPT ![it].slts = Append(@, s)]
        ELSE InsertAt(groups, it, [gid |-> GroupOf[s], slts |-> <<s>>])

\* The slot at i is overwritten by the last one.
SwapPop(slts, i) == Front([slts EXCEPT ![i] = Last(slts)])

\* clean: the slot is where its index says, unless somebody removed it before.
\* list is [groups, index].
KeepIndex(list, s) ==                  \* mutant: the swapped slot keeps its index
    [list EXCEPT !.groups = [g \in 1..Len(@) |->
        LET slts == @[g].slts  i == list.index[s] IN
        IF @[g].gid = GroupOf[s] /\ i \in 1..Len(slts) /\ slts[i] = s
        THEN [@[g] EXCEPT !.slts = SwapPop(slts, i)] ELSE @[g]]]

CleanSlot(list, s) ==
    LET i == list.index[s]
        here == {g \in 1..Len(list.groups) :
                    /\ list.groups[g].gid = GroupOf[s]
                    /\ i \in 1..Len(list.groups[g].slts)
                    /\ list.groups[g].slts[i] = s}
    IN  IF here = {} THEN list
        ELSE LET g == CHOOSE x \in here : TRUE
                 slts == list.groups[g].slts
             IN  [groups |-> [list.groups EXCEPT ![g].slts = SwapPop(slts, i)],
                  index |-> [list.index EXCEPT ![Last(slts)] = i]]

\* disconnect_if: one pass over every group; the slot swapped in is looked at next.
SweepGroup(slts, index, S) ==
    FoldLeft(LAMBDA st, x :
                IF st.slts[st.i] \in S
                THEN [i |-> st.i, slts |-> SwapPop(st.slts, st.i),
                      index |-> [st.index EXCEPT ![Last(st.slts)] = st.i]]
                ELSE [st EXCEPT !.i = @ + 1],
             [i |-> 1, slts |-> slts, index |-> index], slts)

DisconnectSet(list, S) ==
    FoldLeft(LAMBDA acc, group :
                LET st == SweepGroup(group.slts, acc.index, S) IN
                [groups |-> Append(acc.groups, [group EXCEPT !.slts = st.slts]),
                 index |-> st.index],
             [groups |-> <<>>, index |-> list.index], list.groups)

-----------------------------------------------------------------------------
(* copy_on_write *)

ReleaseLeaks(h, p) == h                \* mutant: the reference is not given back

\* One reference less; the last one takes the payload with it.
Release(h, p) ==
    [h EXCEPT ![p] = IF @.count = 1 THEN [count |-> 0, groups |-> <<>>]
                     ELSE [@ EXCEPT !.count = @ - 1]]

FreePayload(h) == CHOOSE p \in Payloads : h[p].count = 0 /\ \A q \in 1..(p - 1) : h[q].count > 0

\* write(): in place if nobody else holds the payload, else in a copy.
WriteShared(st, sig, groups) ==        \* mutant: the payload is never copied
    [st EXCEPT !.heap[st.slots[sig]].groups = groups]

Write(st, sig, groups) ==
    LET p == st.slots[sig] IN
    IF st.heap[p].count = 1
    THEN [st EXCEPT !.heap[p].groups = groups]
    ELSE LET q == FreePayload(st.heap) IN
         [heap |-> [Release(st.heap, p) EXCEPT ![q] = [count |-> 1, groups |-> groups]],
          slots |-> [st.slots EXCEPT ![sig] = q]]

List(sig) == [groups |-> heap[m_slots[sig]].groups, index |-> mIndex]

\* The signal's list becomes the given one.
SetList(sig, list) ==
    LET st == Write([heap |-> heap, slots |-> m_slots], sig, list.groups) IN
    /\ heap' = st.heap /\ m_slots' = st.slots
    /\ mIndex' = list.index

-----------------------------------------------------------------------------
(* Threads. *)
Frame(fn, s) == [fn |-> fn, slot |-> s]
At(t, fn) == stack[t] # <<>> /\ Head(stack[t]).fn = fn
InUserCode(t) == stack[t] = <<>> \/ At(t, "body")
Rest(t) == Tail(stack[t])
Replace(t, frames) == stack' = [stack EXCEPT ![t] = frames \o Rest(t)]
Push(t, frames) == stack' = [stack EXCEPT ![t] = frames \o @]
Frames == UNION {{stack[t][i] : i \in 1..Len(stack[t])} : t \in Threads}

\* Connections hold slots weakly: a slot lives as long as a payload or a function
\* holds it.
Held(s) ==
    \/ \E p \in Payloads : s \in Range(Flat(heap[p].groups))
    \/ \E f \in Frames : f.fn = "clean" /\ f.slot = s

\* SlotState::disconnect(): whoever clears the flag also cleans the signal's list.
Cleaning(s) ==
    IF mConnected[s] THEN <<[fn |-> "clean", slot |-> s, cleaner |-> mCleaner[s]]>>
    ELSE <<>>
Exchange(s) == mConnected' = [mConnected EXCEPT ![s] = FALSE]

Others == <<life, blocked, use_count, owned, observerVars, emissions, fired>>

-----------------------------------------------------------------------------
(* Connecting. *)

\* connect(): make_slot, add_slot; an observer is told afterwards.
Connect(t, sig, s) ==
    /\ InUserCode(t) /\ life[sig] = "live" /\ s \in program.slots \ made
    /\ s \in Observed => observer \in {"alive", "locked"}
    /\ made' = made \cup {s}
    /\ mConnected' = [mConnected EXCEPT ![s] = TRUE]
    /\ mCleaner' = [mCleaner EXCEPT ![s] = sig]
    /\ LET groups == AddSlot(List(sig).groups, s)
           slts == (CHOOSE g \in Range(groups) : g.gid = GroupOf[s]).slts
       IN  SetList(sig, [groups |-> groups, index |-> [mIndex EXCEPT ![s] = Len(slts)]])
    /\ IF s \in Observed THEN Push(t, <<Frame("register", s)>>) ELSE UNCHANGED stack
    /\ UNCHANGED Others

\* ObserverBase::add_connection()
AddConnection(t) ==
    /\ At(t, "register") /\ observer = "alive"
    /\ m_connections' = Append(m_connections, Head(stack[t]).slot)
    /\ Replace(t, <<>>)
    /\ UNCHANGED <<life, m_slots, heap, slotVars, blocked, use_count, owned, observer,
                   emissions, fired>>

-----------------------------------------------------------------------------
(* Emission. *)
Emit(t, sig) ==
    /\ InUserCode(t) /\ life[sig] = "live" /\ emissions < program.emissions
    /\ sig \notin blocked
    /\ emissions' = emissions + 1
    /\ Push(t, <<[fn |-> "snapshot", sig |-> sig]>>)
    /\ UNCHANGED <<life, m_slots, heap, slotVars, blocked, use_count, owned, observerVars, fired>>

\* slots_reference()
TakeSnapshot(t) ==
    /\ At(t, "snapshot")
    /\ LET sig == Head(stack[t]).sig
           ref == m_slots[sig]
       IN  /\ heap' = [heap EXCEPT ![ref].count = @ + 1]
           /\ Replace(t, <<[fn |-> "emit", sig |-> sig, ref |-> ref, n |-> 1,
                            taken |-> Flat(heap[ref].groups)]>>)
    /\ UNCHANGED <<m_slots, slotVars, Others>>

\* SlotBase::operator(): the next slot of the snapshot is looked at.
CallNext(t) ==
    /\ At(t, "emit")
    /\ LET f == Head(stack[t])
           order == Flat(heap[f.ref].groups)
           s == order[f.n]
           next == [f EXCEPT !.n = @ + 1]
           how == IF s \in Once THEN "once" ELSE IF s \in Tracked THEN "tracked" ELSE "body"
       IN  /\ f.n <= Len(order)
           /\ Replace(t, IF mConnected[s] /\ s \notin blocked THEN <<Frame(how, s), next>>
                         ELSE <<next>>)
    /\ UNCHANGED <<m_slots, heap, slotVars, Others>>

EmissionEnds(t) ==
    /\ At(t, "emit")
    /\ Head(stack[t]).n > Len(Flat(heap[Head(stack[t]).ref].groups))
    /\ heap' = Release(heap, Head(stack[t]).ref)
    /\ Replace(t, <<>>)
    /\ UNCHANGED <<m_slots, slotVars, Others>>

\* connect_once(): the slot disconnects itself, then runs the closure.
RunConnected(t) ==                     \* mutant: the slot does not disconnect itself
    /\ At(t, "once")
    /\ LET s == Head(stack[t]).slot IN
       /\ Replace(t, <<Frame("body", s)>>)
       /\ fired' = [fired EXCEPT ![s] = Append(@, t)]
    /\ UNCHANGED <<life, m_slots, heap, slotVars, blocked, use_count, owned, observerVars, emissions>>

RunOnce(t) ==
    /\ At(t, "once")
    /\ LET s == Head(stack[t]).slot IN
       /\ Exchange(s)
       /\ Replace(t, Cleaning(s) \o <<Frame("body", s)>>)
       /\ fired' = [fired EXCEPT ![s] = Append(@, t)]
    /\ UNCHANGED <<life, m_slots, heap, made, mIndex, mCleaner, blocked, use_count, owned,
                   observerVars, emissions>>

\* slot_tracked::call_slot(): the object is locked for the time of the call; an
\* expired one disconnects the slot.
RunUnlocked(t) ==                      \* mutant: the weak pointer is only tested
    /\ At(t, "tracked")
    /\ LET s == Head(stack[t]).slot IN
       IF use_count = 0
       THEN Exchange(s) /\ Replace(t, Cleaning(s))
       ELSE /\ Replace(t, IF mConnected[s] THEN <<Frame("body", s)>> ELSE <<>>)
            /\ UNCHANGED mConnected
    /\ UNCHANGED <<m_slots, heap, made, mIndex, mCleaner, Others>>

RunTracked(t) ==
    /\ At(t, "tracked")
    /\ LET s == Head(stack[t]).slot IN
       IF use_count = 0
       THEN Exchange(s) /\ Replace(t, Cleaning(s)) /\ UNCHANGED use_count
       ELSE /\ Replace(t, IF mConnected[s] THEN <<Frame("body", s)>> ELSE <<>>)
            /\ use_count' = use_count + (IF mConnected[s] THEN 1 ELSE 0)
            /\ UNCHANGED mConnected
    /\ UNCHANGED <<m_slots, heap, made, mIndex, mCleaner, life, blocked, owned, observerVars,
                   emissions, fired>>

BodyReturns(t) ==
    /\ At(t, "body")
    /\ use_count' = use_count - (IF Head(stack[t]).slot \in Tracked THEN 1 ELSE 0)
    /\ Replace(t, <<>>)
    /\ UNCHANGED <<m_slots, heap, slotVars, life, blocked, owned, observerVars, emissions, fired>>

-----------------------------------------------------------------------------
(* Disconnecting. *)

\* Connection::disconnect(), also from a ScopedConnection's destructor.
Disconnect(t, s) ==
    /\ InUserCode(t) /\ Held(s) /\ mConnected[s]
    /\ Exchange(s)
    /\ Push(t, Cleaning(s))
    /\ UNCHANGED <<m_slots, heap, made, mIndex, mCleaner, Others>>

\* SignalBase::clean()
Clean(t) ==
    /\ At(t, "clean") /\ life[Head(stack[t]).cleaner] = "live"
    /\ LET f == Head(stack[t]) IN SetList(f.cleaner, CleanSlot(List(f.cleaner), f.slot))
    /\ Replace(t, <<>>)
    /\ UNCHANGED <<made, mConnected, mCleaner, Others>>

\* disconnect(callable), disconnect(obj) and disconnect(callable, obj)
DisconnectIf(t, sig, S) ==
    /\ InUserCode(t) /\ life[sig] = "live"
    /\ SetList(sig, DisconnectSet(List(sig), S))
    /\ UNCHANGED <<made, mConnected, mCleaner, stack, Others>>

\* disconnect(gid) empties the first group of that id and keeps it.
DisconnectGroup(t, sig, gid) ==
    /\ InUserCode(t) /\ life[sig] = "live"
    /\ SetList(sig, [List(sig) EXCEPT !.groups =
                        [g \in 1..Len(@) |-> IF @[g].gid = gid THEN [@[g] EXCEPT !.slts = <<>>]
                                             ELSE @[g]]])
    /\ UNCHANGED <<made, mConnected, mCleaner, stack, Others>>

DisconnectAll(t, sig) ==
    /\ InUserCode(t) /\ life[sig] = "live"
    /\ SetList(sig, [List(sig) EXCEPT !.groups = <<>>])
    /\ UNCHANGED <<made, mConnected, mCleaner, stack, Others>>

\* ObserverBase::disconnect_all() clears m_connections under the observer's mutex;
\* the destructor does so without it, when nobody connects the observer any more.
ObserverClears(t, final) ==
    /\ InUserCode(t) /\ observer = "alive"
    /\ final => \A f \in Frames : f.fn # "register"
    /\ observer' = IF final THEN "dying" ELSE "locked"
    /\ Push(t, <<[fn |-> "clear"]>>)
    /\ UNCHANGED <<life, m_slots, heap, slotVars, blocked, use_count, owned, m_connections,
                   emissions, fired>>

\* The destructor of one scoped connection.
DropConnections(t) ==                      \* mutant: the connections are dropped, not disconnected
    /\ At(t, "clear") /\ m_connections # <<>>
    /\ m_connections' = Tail(m_connections)
    /\ UNCHANGED <<life, m_slots, heap, slotVars, blocked, use_count, owned, observer, stack,
                   emissions, fired>>

ClearNext(t) ==
    /\ At(t, "clear") /\ m_connections # <<>>
    /\ LET s == Head(m_connections) IN
       IF Held(s) THEN Exchange(s) /\ Push(t, Cleaning(s))
       ELSE UNCHANGED <<mConnected, stack>>
    /\ m_connections' = Tail(m_connections)
    /\ UNCHANGED <<life, m_slots, heap, made, mIndex, mCleaner, blocked, use_count, owned,
                   observer, emissions, fired>>

ClearEnds(t) ==
    /\ At(t, "clear") /\ m_connections = <<>>
    /\ observer' = IF observer = "dying" THEN "gone" ELSE "alive"
    /\ Replace(t, <<>>)
    /\ UNCHANGED <<life, m_slots, heap, slotVars, blocked, use_count, owned, m_connections,
                   emissions, fired>>

-----------------------------------------------------------------------------
(* The program's own reference to the tracked object goes away. *)
ReleaseOwner(t) ==
    /\ InUserCode(t) /\ owned
    /\ owned' = FALSE
    /\ use_count' = use_count - 1
    /\ UNCHANGED <<life, m_slots, heap, slotVars, blocked, observerVars, stack,
                   emissions, fired>>

\* block() and unblock() of a connection or a signal.
ToggleBlock(t, x) ==
    /\ InUserCode(t)
    /\ x \in Slots => Held(x)
    /\ x \in Signals => life[x] = "live"
    /\ blocked' = IF x \in blocked THEN blocked \ {x} ELSE blocked \cup {x}
    /\ UNCHANGED <<life, m_slots, heap, slotVars, use_count, owned, observerVars, stack,
                   emissions, fired>>

-----------------------------------------------------------------------------
(* The life of a signal.  The program sees to it that nobody is cleaning a list  *)
(* that moves, and that nobody emits or cleans when a signal dies.               *)
NobodyCleans == \A f \in Frames : f.fn # "clean"
NobodyEmits == \A f \in Frames : f.fn \notin {"snapshot", "emit"}

Rerouted(groups, cleaners, sig) ==
    [s \in Slots |-> IF s \in Range(Flat(groups)) THEN sig ELSE cleaners[s]]

Reroute(a, b, groupsA, groupsB) == Rerouted(groupsB, Rerouted(groupsA, mCleaner, a), b)

\* a = std::move(b): the lists and the block flags change places.
MoveAssign(t, a, b) ==
    /\ InUserCode(t) /\ life[a] = "live" /\ life[b] = "live" /\ a # b
    /\ NobodyCleans
    /\ LET groupsA == List(b).groups
           groupsB == List(a).groups
           swapped == [heap |-> heap, slots |-> [m_slots EXCEPT ![a] = m_slots[b],
                                                                ![b] = m_slots[a]]]
           st == Write(Write(swapped, a, groupsA), b, groupsB)
       IN  /\ heap' = st.heap /\ m_slots' = st.slots
           /\ mCleaner' = Reroute(a, b, groupsA, groupsB)
    /\ blocked' = (blocked \ {a, b}) \cup (IF a \in blocked THEN {b} ELSE {})
                                     \cup (IF b \in blocked THEN {a} ELSE {})
    /\ UNCHANGED <<life, made, mIndex, mConnected, use_count, owned, observerVars, stack,
                   emissions, fired>>

\* a(std::move(b)): a begins with an empty list.
MoveConstruct(t, a, b) ==
    /\ InUserCode(t) /\ life[a] = "none" /\ life[b] = "live"
    /\ NobodyCleans
    /\ LET groups == List(b).groups
           fresh == FreePayload(heap)
           swapped == [heap |-> [heap EXCEPT ![fresh] = [count |-> 1, groups |-> <<>>]],
                       slots |-> [m_slots EXCEPT ![a] = m_slots[b], ![b] = fresh]]
           st == Write(swapped, a, groups)
       IN  /\ heap' = st.heap /\ m_slots' = st.slots
           /\ mCleaner' = Rerouted(groups, mCleaner, a)
    /\ life' = [life EXCEPT ![a] = "live"]
    /\ blocked' = blocked \cup (IF b \in blocked THEN {a} ELSE {})
    /\ UNCHANGED <<made, mIndex, mConnected, use_count, owned, observerVars, stack,
                   emissions, fired>>

\* ~SignalBase()
Destroy(t, sig) ==
    /\ InUserCode(t) /\ life[sig] = "live"
    /\ NobodyCleans /\ NobodyEmits
    /\ life' = [life EXCEPT ![sig] = "dead"]
    /\ heap' = Release(heap, m_slots[sig])
    /\ m_slots' = [m_slots EXCEPT ![sig] = None]
    /\ UNCHANGED <<slotVars, blocked, use_count, owned, observerVars, stack, emissions,
                   fired>>

-----------------------------------------------------------------------------
UserStep(t) ==
    \/ \E sig \in Signals :
          \/ \E s \in Slots : Connect(t, sig, s)
          \/ Emit(t, sig)
          \/ "disconnect_if" \in program.ops /\ \E S \in {Observed, Tracked} : DisconnectIf(t, sig, S)
          \/ "disconnect_if" \in program.ops /\ \E gid \in Range(GroupOf) : DisconnectGroup(t, sig, gid)
          \/ "disconnect_all" \in program.ops /\ DisconnectAll(t, sig)
          \/ "move" \in program.ops /\ \E other \in Signals : MoveAssign(t, sig, other)
          \/ "move" \in program.ops /\ \E other \in Signals : MoveConstruct(t, sig, other)
          \/ "move" \in program.ops /\ Destroy(t, sig)
    \/ "disconnect" \in program.ops /\ \E s \in Slots : Disconnect(t, s)
    \/ "block" \in program.ops /\ \E x \in Slots \cup Signals : ToggleBlock(t, x)
    \/ "observer" \in program.ops /\ \E final \in BOOLEAN : ObserverClears(t, final)
    \/ "tracked" \in program.ops /\ ReleaseOwner(t)

SignalStep(t) ==
    \/ AddConnection(t) \/ TakeSnapshot(t) \/ CallNext(t) \/ EmissionEnds(t)
    \/ RunOnce(t) \/ RunTracked(t) \/ BodyReturns(t) \/ Clean(t)
    \/ ClearNext(t) \/ ClearEnds(t)

Next == /\ \E t \in Threads : UserStep(t) \/ SignalStep(t)
        /\ UNCHANGED program

Spec == Init /\ [][Next]_vars

-----------------------------------------------------------------------------
Live == {sig \in Signals : life[sig] = "live"}
Emissions == {<<t, i>> \in Threads \X (1..(4 * program.emissions + 4)) :
                 i <= Len(stack[t]) /\ stack[t][i].fn = "emit"}

\* The list of every signal is sound, however slots are swapped about, copied with
\* their payload, and moved between signals: groups ascend, no slot is listed twice,
\* its index and cleaner are right (else clean() would miss it), one that is
\* disconnected is about to be removed, and nobody cleans a signal that is gone.
ListsSound ==
    /\ \A f \in Frames : f.fn = "clean" => life[f.cleaner] = "live"
    /\ \A sig \in Live :
           LET groups == List(sig).groups IN
           /\ \A g, h \in 1..Len(groups) : g < h => groups[g].gid < groups[h].gid
           /\ IsInjective(Flat(groups))
           /\ \A g \in 1..Len(groups) : \A i \in 1..Len(groups[g].slts) :
                 LET s == groups[g].slts[i] IN
                 /\ GroupOf[s] = groups[g].gid /\ mIndex[s] = i /\ mCleaner[s] = sig
                 /\ mConnected[s] \/ \E f \in Frames : /\ f.fn = "clean" /\ f.slot = s
                                                       /\ f.cleaner = sig

\* "Connect during emission: the new slot is not invoked by the emission in
\* progress": what an emission goes through is the list as it was when it began,
\* and its payload lives until it ends.
SnapshotStable ==
    \A e \in Emissions :
        LET f == stack[e[1]][e[2]] IN
        heap[f.ref].count > 0 /\ Flat(heap[f.ref].groups) = f.taken

\* The counts of payloads are right: none is freed early or kept for ever.
CountsExact ==
    \A p \in Payloads :
        heap[p].count = Cardinality({sig \in Live : m_slots[sig] = p})
                        + Cardinality({e \in Emissions : stack[e[1]][e[2]].ref = p})

\* A tracked slot runs only while its object is alive, whoever drops the last
\* reference meanwhile.
TrackedAlive ==
    \A f \in Frames : f.fn = "body" /\ f.slot \in Tracked => use_count > 0

\* When an observer is destroyed no emission can begin to call its slots any more,
\* also one that still has them in its snapshot.  (A slot that is running then goes
\* on, see disconnect_all().)
ObserverSilent ==
    observer = "gone" => \A s \in Observed : mConnected[s] => ~Held(s)

\* connect_once(): no thread runs the closure twice, re-entrant emissions included.
\* Two threads whose emissions overlap both may.
OncePerThread == \A s \in Once : IsInjective(fired[s])
=============================================================================
