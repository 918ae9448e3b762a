----------------------------- MODULE ValueBuffers -----------------------------
(***************************************************************************)
(* What SharedBuffer promises to its users: every buffer variable holds a  *)
(* sequence of bytes of its own, and an operation on one variable changes  *)
(* no other, however the storage is shared.                                *)
(***************************************************************************)
EXTENDS Sequences, Integers

CONSTANTS Handles,  \* the buffer variables of the program
          Content,  \* what a byte of storage may hold
          None      \* no operation

VARIABLES val,      \* the bytes a variable shows
          call      \* the operation in progress on it

Init ==
    /\ val = [h \in Handles |-> <<>>]
    /\ call = [h \in Handles |-> None]

Names == {"set", "append", "resize", "reserve", "write", "clear", "copy", "move", "swap",
          "slice", "destroy"}

\* The caller starts an operation; its arguments are part of the record.
Begin(h) ==
    /\ call[h] = None
    /\ call' = [call EXCEPT ![h] = call'[h]]
    /\ call'[h] # None /\ call'[h].name \in Names
    /\ UNCHANGED val

\* The values after operation o on h.  Space that resize() adds holds anything.
Effect(h, o) ==
    CASE o.name = "set"     -> val' = [val EXCEPT ![h] = o.bytes]
      [] o.name = "append"  -> val' = [val EXCEPT ![h] = @ \o o.bytes]
      [] o.name = "resize"  -> /\ val' = [val EXCEPT ![h] = val'[h]]
                               /\ Len(val'[h]) = o.len
                               /\ \A i \in 1..o.len :
                                    IF i <= Len(val[h]) THEN val'[h][i] = val[h][i]
                                                        ELSE val'[h][i] \in Content
      [] o.name = "reserve" -> UNCHANGED val
      [] o.name = "write"   -> val' = [val EXCEPT ![h][o.at] = o.byte]
      [] o.name \in {"clear", "destroy"} -> val' = [val EXCEPT ![h] = <<>>]
      [] o.name = "copy"    -> val' = [val EXCEPT ![h] = val[o.from]]
      [] o.name = "move"    -> val' = [val EXCEPT ![h] = val[o.from], ![o.from] = <<>>]
      [] o.name = "swap"    -> val' = [val EXCEPT ![h] = val[o.from], ![o.from] = val[h]]
      [] o.name = "slice"   -> val' = [val EXCEPT ![h] =
                                          SubSeq(val[o.from], o.at + 1, o.at + o.len)]

End(h) ==
    /\ call[h] # None
    /\ Effect(h, call[h])
    /\ call' = [call EXCEPT ![h] = None]

Next == \E h \in Handles : Begin(h) \/ End(h)

Spec == Init /\ [][Next]_<<val, call>>
=============================================================================
