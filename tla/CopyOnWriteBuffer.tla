-------------------------- MODULE CopyOnWriteBuffer --------------------------
(***************************************************************************)
(* rtc::CopyOnWriteBuffer with the reference counting under it             *)
(* (RefCounter, FinalRefCountedObject, scoped_refptr).  A buffer is a      *)
(* slice of a reference counted storage.  Every buffer has one owner, and  *)
(* owners are threads of their own: an operation that writes first reads   *)
(* the reference count (Check), and other owners may copy, release or      *)
(* write their buffers before it goes on.                                  *)
(***************************************************************************)
EXTENDS Naturals, Sequences, FiniteSets

CONSTANTS
    Handle,      \* the CopyOnWriteBuffer objects
    Storage,     \* the RefCountedBuffer objects
    Null,        \* no storage
    Byte,
    MaxLen,      \* bound: bytes of a buffer
    EmptyInputs  \* may clients pass empty data and take empty slices?

ASSUME CopyOnWriteAssumption ==
    /\ Null \notin Storage /\ IsFiniteSet(Handle)
    /\ MaxLen \in Nat
    /\ EmptyInputs \in BOOLEAN

VARIABLES
    buf,   \* each buffer's buffer_, offset_ and size_
    mem,   \* each storage's data (its length is size_) and capacity_
    refs,  \* each storage's ref_count_; 0 before it is built and once deleted
    op,    \* the writing operation each buffer is in
    sole   \* what HasOneRef answered for it

vars == <<buf, mem, refs, op, sole>>

Data == UNION {[1..n -> Byte] : n \in 0..MaxLen}
Input == IF EmptyInputs THEN Data ELSE Data \ {<<>>}
Max2(a, b) == IF a < b THEN b ELSE a

Empty == [buffer |-> Null, offset |-> 0, size |-> 0]
Freed == [data |-> <<>>, capacity |-> 0]

(* The part of its storage that a buffer represents: cdata() and size(). *)
Value(h) == IF buf[h].buffer = Null THEN <<>>
            ELSE SubSeq(mem[buf[h].buffer].data, buf[h].offset + 1,
                        buf[h].offset + buf[h].size)

Capacity(h) == IF buf[h].buffer = Null THEN 0
               ELSE mem[buf[h].buffer].capacity - buf[h].offset

-----------------------------------------------------------------------------
AddRef(r, s) == IF s = Null THEN r ELSE [r EXCEPT ![s] = @ + 1]
Release(r, s) == IF s = Null THEN r ELSE [r EXCEPT ![s] = @ - 1]

(* scoped_refptr::operator= without the AddRef of its first line. *)
Repoint_NoAddRef(old, new) == Release(refs, old)
(* scoped_refptr::operator= *)
Repoint(old, new) == Release(AddRef(refs, new), old)

(* DecRef has dropped the last reference of what is no longer counted. *)
DeleteUnreferenced(m) ==
    mem' = [s \in Storage |-> IF refs'[s] = 0 THEN Freed ELSE m[s]]

(* BufferT(data, size, capacity) *)
NewBuffer(d, capacity) == [data |-> d, capacity |-> Max2(Len(d), capacity)]

(* buffer_ = new RefCountedBuffer(d, size, capacity); offset_ = 0. *)
Renew(h, d, capacity) ==
    \E s \in Storage :
        /\ refs[s] = 0
        /\ buf' = [buf EXCEPT ![h] = [buffer |-> s, offset |-> 0, size |-> Len(d)]]
        /\ refs' = Repoint(buf[h].buffer, s)
        /\ DeleteUnreferenced([mem EXCEPT ![s] = NewBuffer(d, capacity)])

Idle(h) == op[h] = "none"
Done(h) == /\ op' = [op EXCEPT ![h] = "none"]
           /\ sole' = [sole EXCEPT ![h] = FALSE]

HasOneRef_OffByOne(s) == refs[s] <= 2
HasOneRef(s) == refs[s] = 1

(* The read of the reference count that a writing operation begins with. *)
Check(h, operation) ==
    /\ Idle(h)
    /\ buf[h].buffer # Null
    /\ operation = "AppendData" => buf[h].size < MaxLen
    /\ op' = [op EXCEPT ![h] = operation]
    /\ sole' = [sole EXCEPT ![h] = HasOneRef(buf[h].buffer)]
    /\ UNCHANGED <<buf, mem, refs>>

-----------------------------------------------------------------------------
(* CopyOnWriteBuffer(data, size, capacity) *)
Construct(h, d, capacity) ==
    /\ Idle(h)
    /\ buf[h] = Empty
    /\ Max2(Len(d), capacity) > 0
    /\ Renew(h, d, capacity)
    /\ UNCHANGED <<op, sole>>

Destroy(h) ==
    /\ Idle(h)
    /\ buf' = [buf EXCEPT ![h] = Empty]
    /\ refs' = Repoint(buf[h].buffer, Null)
    /\ DeleteUnreferenced(mem)
    /\ UNCHANGED <<op, sole>>

(* operator=(const CopyOnWriteBuffer&), SetData(const CopyOnWriteBuffer&)  *)
(* and, for an empty buffer h, the copy constructor.                       *)
Assign(h, g) ==
    /\ Idle(h) /\ Idle(g)
    /\ h # g
    /\ buf' = [buf EXCEPT ![h] = buf[g]]
    /\ refs' = Repoint(buf[h].buffer, buf[g].buffer)
    /\ DeleteUnreferenced(mem)
    /\ UNCHANGED <<op, sole>>

(* operator=(CopyOnWriteBuffer&&).  A buffer moved to itself keeps its     *)
(* storage and loses its size.                                             *)
Move(h, g) ==
    /\ Idle(h) /\ Idle(g)
    /\ buf' = [buf EXCEPT ![h] = buf[g],
                          ![g] = [Empty EXCEPT !.buffer = IF h = g THEN buf[g].buffer
                                                          ELSE Null]]
    /\ refs' = IF h = g THEN refs ELSE Release(refs, buf[h].buffer)
    /\ DeleteUnreferenced(mem)
    /\ UNCHANGED <<op, sole>>

Swap(h, g) ==
    /\ Idle(h) /\ Idle(g)
    /\ buf' = [buf EXCEPT ![h] = buf[g], ![g] = buf[h]]
    /\ UNCHANGED <<mem, refs, op, sole>>

(* Slice, with its result moved to h. *)
Slice(h, g, offset, length) ==
    /\ Idle(h) /\ Idle(g)
    /\ offset <= buf[g].size
    /\ offset + length <= buf[g].size
    /\ EmptyInputs \/ length > 0
    /\ buf' = [buf EXCEPT ![h] = [buffer |-> buf[g].buffer,
                                  offset |-> buf[g].offset + offset,
                                  size |-> length]]
    /\ refs' = Repoint(buf[h].buffer, buf[g].buffer)
    /\ DeleteUnreferenced(mem)
    /\ UNCHANGED <<op, sole>>

-----------------------------------------------------------------------------
(* SetData on a buffer without storage. *)
SetDataNull(h, d) ==
    /\ Idle(h)
    /\ buf[h].buffer = Null
    /\ IF d = <<>> THEN UNCHANGED <<buf, mem, refs>> ELSE Renew(h, d, Len(d))
    /\ UNCHANGED <<op, sole>>

(* BufferT::SetData: room for the new data, with headroom if it grows. *)
Overwritten(m, d) ==
    [data |-> d,
     capacity |-> IF Len(d) <= m.capacity THEN m.capacity
                  ELSE Max2(Len(d), m.capacity + m.capacity \div 2)]

(* SetData after HasOneRef has answered. *)
SetData(h, d) ==
    /\ op[h] = "SetData"
    /\ IF sole[h]
       THEN /\ mem' = [mem EXCEPT ![buf[h].buffer] = Overwritten(@, d)]
            /\ buf' = [buf EXCEPT ![h].offset = 0, ![h].size = Len(d)]
            /\ refs' = refs
       ELSE Renew(h, d, Capacity(h))
    /\ Done(h)

(* AppendData on a buffer without storage. *)
AppendDataNull(h, d) ==
    /\ Idle(h)
    /\ buf[h].buffer = Null
    /\ Renew(h, d, Len(d))
    /\ UNCHANGED <<op, sole>>

(* UnshareAndEnsureCapacity copies the slice if the storage is shared or   *)
(* too small, and leaves it alone otherwise.                               *)
MustCopy(h, capacity) == ~ sole[h] \/ capacity > Capacity(h)

(* AppendData after HasOneRef has answered: unshare, cut what is right of  *)
(* the slice, append.                                                      *)
AppendData(h, d) ==
    /\ op[h] = "AppendData"
    /\ buf[h].size + Len(d) <= MaxLen
    /\ LET room == Max2(Capacity(h), buf[h].size + Len(d)) IN
       IF MustCopy(h, room)
       THEN Renew(h, Value(h) \o d, room)
       ELSE /\ mem' = [mem EXCEPT ![buf[h].buffer].data =
                          SubSeq(@, 1, buf[h].offset + buf[h].size) \o d]
            /\ buf' = [buf EXCEPT ![h].size = @ + Len(d)]
            /\ refs' = refs
    /\ Done(h)

(* MutableData without its call of UnshareAndEnsureCapacity. *)
MutableData_Shared(h) ==
    /\ op[h] = "MutableData"
    /\ op' = [op EXCEPT ![h] = "write"]
    /\ sole' = [sole EXCEPT ![h] = TRUE]
    /\ UNCHANGED <<buf, mem, refs>>

(* MutableData after HasOneRef has answered: unshare, and hand out the     *)
(* pointer.                                                                *)
MutableData(h) ==
    /\ op[h] = "MutableData"
    /\ IF MustCopy(h, Capacity(h))
       THEN Renew(h, Value(h), Capacity(h))
       ELSE UNCHANGED <<buf, mem, refs>>
    /\ op' = [op EXCEPT ![h] = "write"]
    /\ sole' = [sole EXCEPT ![h] = TRUE]

(* The owner writes a byte through the pointer, *)
WriteByte(h, i, b) ==
    /\ op[h] = "write"
    /\ mem' = [mem EXCEPT ![buf[h].buffer].data[buf[h].offset + i] = b]
    /\ UNCHANGED <<buf, refs, op, sole>>

(* and uses it no more. *)
WritesDone(h) ==
    /\ op[h] = "write"
    /\ Done(h)
    /\ UNCHANGED <<buf, mem, refs>>

-----------------------------------------------------------------------------
Init ==
    /\ buf = [h \in Handle |-> Empty]
    /\ mem = [s \in Storage |-> Freed]
    /\ refs = [s \in Storage |-> 0]
    /\ op = [h \in Handle |-> "none"]
    /\ sole = [h \in Handle |-> FALSE]

Next ==
    \E h \in Handle :
        \/ Destroy(h) \/ MutableData(h) \/ WritesDone(h)
        \/ \E operation \in {"SetData", "AppendData", "MutableData"} : Check(h, operation)
        \/ \E d \in Data, capacity \in 0..MaxLen : Construct(h, d, capacity)
        \/ \E d \in Input : \/ SetDataNull(h, d) \/ SetData(h, d)
                            \/ AppendDataNull(h, d) \/ AppendData(h, d)
        \/ \E i \in 1..buf[h].size, b \in Byte : WriteByte(h, i, b)
        \/ \E g \in Handle : \/ Assign(h, g) \/ Move(h, g) \/ Swap(h, g)
                             \/ \E offset, length \in 0..MaxLen :
                                   Slice(h, g, offset, length)

Spec == Init /\ [][Next]_vars

-----------------------------------------------------------------------------
(* Buffers that share storage, are slices of one another or write at the   *)
(* same time are still values of their own: no write through one buffer is *)
(* ever seen through another.                                              *)
Values == INSTANCE ValueBuffers WITH val <- [h \in Handle |-> Value(h)]
ImplementsValues == Values!Spec

(* The reference count of a storage is the number of buffers that point to *)
(* it: no storage is deleted under a buffer, and none is leaked.           *)
RefsCountHandles ==
    \A s \in Storage : refs[s] = Cardinality({h \in Handle : buf[h].buffer = s})

(* HasOneRef stays true of a storage until the operation that asked has    *)
(* written to it: no other owner can come to share the storage meanwhile   *)
(* ("knowing that it has exclusive access").                               *)
ExclusiveWhileWriting ==
    \A h \in Handle : sole[h] =>
        \A g \in Handle \ {h} : buf[g].buffer # buf[h].buffer

(* IsConsistent, "Pre- and postcondition of all methods": a buffer has     *)
(* storage with a capacity above zero that contains its slice, or is empty *)
(* and has none.                                                           *)
IsConsistent ==
    \A h \in Handle :
        IF buf[h].buffer # Null
        THEN /\ mem[buf[h].buffer].capacity > 0
             /\ buf[h].offset + buf[h].size <= Len(mem[buf[h].buffer].data)
        ELSE buf[h].size = 0 /\ buf[h].offset = 0
=============================================================================
