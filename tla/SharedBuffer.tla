----------------------------- MODULE SharedBuffer -----------------------------
(***************************************************************************)
(* tools/shared_buffer.hpp and .cpp: a buffer that shares its storage with *)
(* its copies and slices until it is written, over tools/buffer.hpp and    *)
(* the reference count of memory/ref_count.hpp and shared_ref_ptr.hpp.     *)
(*                                                                         *)
(* A variable of the program is used by one thread at a time; variables    *)
(* that share storage may be used by different threads at once.  Steps are *)
(* cut where the count or the storage is shared: the test of has_one_ref(),*)
(* the copy out of the old storage, and its release.                       *)
(***************************************************************************)
EXTENDS Integers, Sequences, FiniteSets, FiniteSetsExt

CONSTANTS Handles,  \* the SharedBuffer variables of the program
          Blocks,   \* addresses of RefCountedBuffer objects
          Bytes,    \* the bytes the program writes
          Uninit,   \* what new storage holds
          MaxLen,   \* bound on sizes and capacities
          None,     \* nullptr, and no operation
          Programs  \* sets of operations a program may use

VARIABLES program,  \* the one at hand
          view,     \* mBuffer, mOffset and mSize of each variable
          mem,      \* the RefCountedBuffer objects; data has the length of mCapacity
          call,     \* the operation a variable is in
          pc,       \* where in it
          clone     \* the RefCountedBuffer it has made and not yet stored

vars == <<program, view, mem, call, pc, clone>>

Content == Bytes \cup {Uninit}

Strings == UNION {[1..n -> Bytes] : n \in 0..MaxLen}

Freed == [data |-> <<>>, size |-> 0, refs |-> 0, live |-> FALSE]

Empty == [buf |-> None, off |-> 0, size |-> 0]

Init ==
    /\ program \in Programs
    /\ view = [h \in Handles |-> Empty]
    /\ mem = [b \in Blocks |-> Freed]
    /\ call = [h \in Handles |-> None]
    /\ pc = [h \in Handles |-> "idle"]
    /\ clone = [h \in Handles |-> None]

(***************************************************************************)
(* BufferT.                                                                *)
(***************************************************************************)
Junk(n) == [i \in 1..n |-> Uninit]

\* BufferT(data, size, capacity)
NewBuffer(bytes, capacity) ==
    LET n == Max({Len(bytes), capacity})
    IN  [data |-> bytes \o Junk(n - Len(bytes)), size |-> Len(bytes), refs |-> 1, live |-> TRUE]

Capacity(m) == Len(m.data)

\* ensure_capacity_with_headroom(): only the first mSize elements are kept.
Headroom(m, capacity) ==
    IF capacity <= Capacity(m) THEN m
    ELSE LET n == Max({capacity, Capacity(m) + Capacity(m) \div 2})
         IN  [m EXCEPT !.data = SubSeq(m.data, 1, m.size) \o Junk(n - m.size)]

BufferSetSize(m, n) == [Headroom(m, n) EXCEPT !.size = n]

BufferAppend(m, bytes) ==
    LET new == Headroom(m, m.size + Len(bytes))
    IN  [new EXCEPT !.size = m.size + Len(bytes),
                    !.data = [i \in DOMAIN new.data |->
                                IF i \in (m.size + 1)..(m.size + Len(bytes))
                                THEN bytes[i - m.size] ELSE new.data[i]]]

BufferSetData(m, bytes) == BufferAppend([m EXCEPT !.size = 0], bytes)

(***************************************************************************)
(* RefCounter and SharedRefPtr.                                            *)
(***************************************************************************)
\* mem after another reference to b, and after one less: the last one deletes.
AddRef(m, b) == IF b = None THEN m ELSE [m EXCEPT ![b].refs = @ + 1]

Release(m, b) ==
    IF b = None THEN m
    ELSE [m EXCEPT ![b] = IF @.refs = 1 THEN Freed ELSE [@ EXCEPT !.refs = @ - 1]]

\* mutant: the old object is released before the new one is referenced.
AssignReleasesFirst(m, old, new) == AddRef(Release(m, old), new)

\* SharedRefPtr::operator=(T *): the new object is referenced first.
AssignPtr(m, old, new) == Release(AddRef(m, new), old)

HasOneRef(b) == mem[b].refs = 1

\* Addresses for a new object.
Unused == {b \in Blocks : ~mem[b].live}

(***************************************************************************)
(* SharedBuffer.                                                           *)
(***************************************************************************)
Value(h) ==
    LET v == view[h]
    IN  IF v.buf = None THEN <<>> ELSE SubSeq(mem[v.buf].data, v.off + 1, v.off + v.size)

\* SharedBuffer::capacity(): what is behind the start of the slice.
ViewCapacity(h) == IF view[h].buf = None THEN 0 ELSE Capacity(mem[view[h].buf]) - view[h].off

Idle(h) == pc[h] = "idle"

\* Variables that an operation of another thread reads or changes.
Taken == UNION {{h} \cup (IF call[h].name \in {"copy", "move", "swap", "slice"}
                          THEN {call[h].from} ELSE {}) : h \in {g \in Handles : ~Idle(g)}}

Op(name) == [name |-> name, from |-> None, bytes |-> <<>>, at |-> 0, len |-> 0, byte |-> Uninit]

\* The calls the program may make on h.
Calls(h) ==
    LET n == Len(Value(h))
        others == Handles \ Taken
    IN  {[Op("set") EXCEPT !.bytes = s] : s \in Strings}
        \cup {[Op("append") EXCEPT !.bytes = s] : s \in {t \in Strings : n + Len(t) <= MaxLen}}
        \cup {[Op(name) EXCEPT !.len = k] : name \in {"resize", "reserve"}, k \in 0..MaxLen}
        \cup {[Op("write") EXCEPT !.at = i, !.byte = x] : i \in 1..n, x \in Bytes}
        \cup {Op("clear"), Op("destroy")}
        \cup {[Op("move") EXCEPT !.from = g] : g \in others}
        \cup {[Op(name) EXCEPT !.from = g] : name \in {"copy", "swap"}, g \in others \ {h}}
        \cup UNION {{[Op("slice") EXCEPT !.from = g, !.at = i, !.len = k] :
                       k \in 0..(Len(Value(g)) - i)} :
                     <<g, i>> \in {p \in others \X (0..MaxLen) : p[2] <= Len(Value(p[1]))}}

\* A call and its first step are made without another call between them: until then only
\* the thread itself knows of it.
Begin(h) ==
    /\ h \notin Taken
    /\ \A g \in Handles : pc[g] # "called"
    /\ \E o \in Calls(h) : o.name \in program /\ call' = [call EXCEPT ![h] = o]
    /\ pc' = [pc EXCEPT ![h] = "called"]
    /\ UNCHANGED <<view, mem, clone>>

Return(h) ==
    /\ call' = [call EXCEPT ![h] = None]
    /\ pc' = [pc EXCEPT ![h] = "idle"]
    /\ clone' = [clone EXCEPT ![h] = None]

\* The first storage of an empty variable.
FirstBuffer(o) ==
    CASE o.name \in {"set", "append"} -> NewBuffer(o.bytes, 0)
      [] o.name = "resize" -> NewBuffer(Junk(o.len), 0)
      [] o.name = "reserve" -> NewBuffer(<<>>, o.len)

\* set_data(), append_data(), set_size(), ensure_capacity() and clear() on a variable
\* without storage.  append_data() allocates also when there is nothing to append.
OnEmpty(h) ==
    LET o == call[h]
        new == FirstBuffer(o)
    IN  /\ pc[h] = "called" /\ view[h].buf = None
        /\ o.name \in {"set", "append", "resize", "reserve", "clear"}
        /\ IF o.name = "clear" \/ (o.name # "append" /\ Capacity(new) = 0)
           THEN UNCHANGED <<view, mem>>
           ELSE \E b \in Unused :
                  /\ mem' = [mem EXCEPT ![b] = new]
                  /\ view' = [view EXCEPT ![h] = [buf |-> b, off |-> 0, size |-> new.size]]
        /\ Return(h)

\* Copy construction, copy assignment and set_data(buf).
Copy(h) ==
    LET g == view[call[h].from]
    IN  /\ pc[h] = "called" /\ call[h].name = "copy"
        /\ mem' = AssignPtr(mem, view[h].buf, g.buf)
        /\ view' = [view EXCEPT ![h] = g]
        /\ Return(h)

\* slice(), and the assignment of its result.
Slice(h) ==
    LET o == call[h]
        g == view[o.from]
    IN  /\ pc[h] = "called" /\ o.name = "slice"
        /\ mem' = AssignPtr(mem, view[h].buf, g.buf)
        /\ view' = [view EXCEPT ![h] = [g EXCEPT !.off = @ + o.at, !.size = o.len]]
        /\ Return(h)

\* Move construction and assignment.  A variable moved to itself keeps its storage.
Move(h) ==
    LET g == call[h].from
    IN  /\ pc[h] = "called" /\ call[h].name = "move"
        /\ IF g = h THEN /\ view' = [view EXCEPT ![h].off = 0, ![h].size = 0]
                         /\ UNCHANGED mem
                    ELSE /\ view' = [view EXCEPT ![h] = view[g], ![g] = Empty]
                         /\ mem' = Release(mem, view[h].buf)
        /\ Return(h)

Swap(h) ==
    LET g == call[h].from
    IN  /\ pc[h] = "called" /\ call[h].name = "swap"
        /\ view' = [view EXCEPT ![h] = view[g], ![g] = view[h]]
        /\ UNCHANGED mem
        /\ Return(h)

Destroy(h) ==
    /\ pc[h] = "called" /\ call[h].name = "destroy"
    /\ mem' = Release(mem, view[h].buf)
    /\ view' = [view EXCEPT ![h] = Empty]
    /\ Return(h)

\* set_size() that does not grow, ensure_capacity() that is satisfied.
InView(h) ==
    LET o == call[h]
    IN  \/ o.name = "resize" /\ o.len <= view[h].size
        \/ o.name = "reserve" /\ o.len <= ViewCapacity(h)

NoChange(h) ==
    /\ pc[h] = "called" /\ view[h].buf # None /\ InView(h)
    /\ view' = IF call[h].name = "resize" THEN [view EXCEPT ![h].size = call[h].len] ELSE view
    /\ UNCHANGED mem
    /\ Return(h)

\* The argument of unshare_and_ensure_capacity(); set_data() and clear() only ask
\* whether the storage is shared.
Needed(h) ==
    LET o == call[h]
    IN  CASE o.name = "append" -> Max({ViewCapacity(h), view[h].size + Len(o.bytes)})
          [] o.name = "resize" -> Max({ViewCapacity(h), o.len})
          [] o.name = "reserve" -> o.len
          [] o.name = "write" -> ViewCapacity(h)
          [] OTHER -> 0

\* mutant: the count is not asked when the storage is large enough.
TestCapacityOnly(h) ==
    /\ pc[h] = "called" /\ view[h].buf # None /\ ~InView(h)
    /\ call[h].name \in {"set", "append", "resize", "reserve", "write", "clear"}
    /\ pc' = [pc EXCEPT ![h] = IF Needed(h) <= ViewCapacity(h) THEN "alone" ELSE "shared"]
    /\ UNCHANGED <<view, mem, call, clone>>

\* has_one_ref() of an operation that writes.
Test(h) ==
    /\ pc[h] = "called" /\ view[h].buf # None /\ ~InView(h)
    /\ call[h].name \in {"set", "append", "resize", "reserve", "write", "clear"}
    /\ pc' = [pc EXCEPT ![h] = IF HasOneRef(view[h].buf) /\ Needed(h) <= ViewCapacity(h)
                               THEN "alone" ELSE "shared"]
    /\ UNCHANGED <<view, mem, call, clone>>

\* The new object that replaces shared storage: what is not seen is not copied.
CloneOf(h) ==
    LET o == call[h]
    IN  CASE o.name = "set" -> NewBuffer(o.bytes, ViewCapacity(h))
          [] o.name = "clear" -> NewBuffer(<<>>, ViewCapacity(h))
          [] OTHER -> NewBuffer(Value(h), Needed(h))

Clone(h) ==
    /\ pc[h] = "shared"
    /\ \E b \in Unused :
         /\ mem' = [mem EXCEPT ![b] = CloneOf(h)]
         /\ clone' = [clone EXCEPT ![h] = b]
    /\ pc' = [pc EXCEPT ![h] = "cloned"]
    /\ UNCHANGED <<view, call>>

\* The object and the view after the write of operation o to storage that is not shared.
Written(m, v, o) ==
    CASE o.name = "set" ->
           [m |-> BufferSetData(m, o.bytes), v |-> [v EXCEPT !.off = 0, !.size = Len(o.bytes)]]
      [] o.name = "clear" ->
           [m |-> [m EXCEPT !.size = 0], v |-> [v EXCEPT !.off = 0, !.size = 0]]
      [] o.name = "append" ->
           [m |-> BufferAppend(BufferSetSize(m, v.off + v.size), o.bytes),
            v |-> [v EXCEPT !.size = @ + Len(o.bytes)]]
      [] o.name = "resize" ->
           [m |-> BufferSetSize(m, o.len + v.off), v |-> [v EXCEPT !.size = o.len]]
      [] o.name = "write" -> [m |-> [m EXCEPT !.data[v.off + o.at] = o.byte], v |-> v]
      [] o.name = "reserve" -> [m |-> m, v |-> v]

Write(h) ==
    LET v == view[h]
        w == Written(mem[v.buf], v, call[h])
    IN  /\ pc[h] = "alone"
        /\ mem' = [mem EXCEPT ![v.buf] = w.m]
        /\ view' = [view EXCEPT ![h] = w.v]
        /\ Return(h)

\* The clone is stored, the old object released, and the clone written.
Replace(h) ==
    LET o == call[h]
        v == [buf |-> clone[h], off |-> 0, size |-> mem[clone[h]].size]
        w == IF o.name \in {"set", "clear"} THEN [m |-> mem[v.buf], v |-> v]
             ELSE Written(mem[v.buf], v, o)
    IN  /\ pc[h] = "cloned"
        /\ mem' = [Release(mem, view[h].buf) EXCEPT ![v.buf] = w.m]
        /\ view' = [view EXCEPT ![h] = w.v]
        /\ Return(h)

Step(h) ==
    \/ Begin(h) \/ OnEmpty(h) \/ Copy(h) \/ Slice(h) \/ Move(h) \/ Swap(h) \/ Destroy(h)
    \/ NoChange(h) \/ Test(h) \/ Clone(h) \/ Write(h) \/ Replace(h)

Next == (\E h \in Handles : Step(h)) /\ UNCHANGED program

Spec == Init /\ [][Next]_vars

(***************************************************************************)
(* Properties.                                                             *)
(***************************************************************************)
Holders(b) == {h \in Handles : view[h].buf = b}

\* The count of an object is the number of variables that refer to it plus the clone in
\* the making, and the object exists while, and only while, there is one (RefCounter,
\* SharedRefPtr): nothing is read after it was freed and nothing is left behind.  Every
\* slice lies within its storage, as is_consistent() demands.
BlocksSound ==
    /\ \A b \in Blocks :
         /\ mem[b].refs = Cardinality(Holders(b)) + Cardinality({h \in Handles : clone[h] = b})
         /\ mem[b].live <=> mem[b].refs > 0
         /\ mem[b].size <= Capacity(mem[b])
    /\ \A h \in Handles :
         IF view[h].buf = None THEN view[h] = Empty
         ELSE view[h].off + view[h].size <= mem[view[h].buf].size

V == INSTANCE ValueBuffers WITH val <- [h \in Handles |-> Value(h)]

\* Copies and slices share storage, and still every variable behaves as if it had its own
\* bytes: a write, an append or a clear through one is never seen through another, on
\* whatever thread that one is used (unshare_and_ensure_capacity()).
BuffersAreValues == V!Spec
=============================================================================
