---------------------------- MODULE ValueBuffers ----------------------------
(***************************************************************************)
(* What rtc::CopyOnWriteBuffer promises: each buffer is a value of its     *)
(* own, a sequence of bytes, and an operation on one buffer changes no     *)
(* other buffer, except that a move empties its source and a swap          *)
(* exchanges two.                                                          *)
(***************************************************************************)
EXTENDS Naturals, Sequences

CONSTANTS Handle, Byte, Data

VARIABLE val

Init == val = [h \in Handle |-> <<>>]

SetData(h, d) == val' = [val EXCEPT ![h] = d]
AppendData(h, d) == val' = [val EXCEPT ![h] = @ \o d]
Write(h, i, b) == i \in 1..Len(val[h]) /\ val' = [val EXCEPT ![h][i] = b]
Assign(h, g) == val' = [val EXCEPT ![h] = val[g]]
Move(h, g) == val' = [val EXCEPT ![h] = val[g], ![g] = <<>>]
Swap(h, g) == val' = [val EXCEPT ![h] = val[g], ![g] = val[h]]
Slice(h, g, offset, length) ==
    /\ offset + length <= Len(val[g])
    /\ val' = [val EXCEPT ![h] = SubSeq(val[g], offset + 1, offset + length)]

Next ==
    \E h \in Handle :
        \/ \E d \in Data : SetData(h, d) \/ AppendData(h, d)
        \/ \E i \in 1..Len(val[h]), b \in Byte : Write(h, i, b)
        \/ \E g \in Handle :
              \/ Assign(h, g) \/ Move(h, g) \/ Swap(h, g)
              \/ \E offset, length \in 0..Len(val[g]) : Slice(h, g, offset, length)

Spec == Init /\ [][Next]_val
=============================================================================
