--------------------------- MODULE SharingProofs ----------------------------
(***************************************************************************)
(* Objects that are shared by counting references.  scoped_refptr keeps an *)
(* object exactly while it is pointed to; CopyOnWriteBuffer counts the     *)
(* buffers that share storage and writes only to storage of its own, for   *)
(* any finite set of buffers, any bytes and any capacities.                *)
(***************************************************************************)
EXTENDS ScopedRefptr, CopyOnWriteBuffer, FiniteSetTheorems, TLAPS

(***************************************************************************)
(* ScopedRefptr.                                                           *)
(***************************************************************************)

(* The variables of a state ptr that point to an object. *)
PointersTo(ptr, o) == {p \in Refptr : ptr[p] = o}

(* The objects that exist are those that a variable points to and x, on    *)
(* which an operation holds a reference of its own; the reference counts   *)
(* are the numbers of these references.                                    *)
HeldBy(ptr, c, x) ==
    /\ ptr \in [Refptr -> Object \cup {NoObject}]
    /\ c \in [refs : [Object -> Int], alive : SUBSET Object]
    /\ x \in Object \cup {NoObject}
    /\ \A o \in Object : o \in c.alive <=> (o = x \/ \E p \in Refptr : ptr[p] = o)
    /\ \A o \in c.alive :
          c.refs[o] = Cardinality(PointersTo(ptr, o)) + (IF o = x THEN 1 ELSE 0)

(* Between operations the variables hold all references. *)
RefptrInv == HeldBy(ptr_, counted, NoObject)

(* AddRef on an object that a variable points to. *)
LEMMA RefAddedHolds ==
  ASSUME NEW ptr, NEW c, HeldBy(ptr, c, NoObject), NEW x \in c.alive \cup {NoObject}
  PROVE  HeldBy(ptr, RefAdded(c, x), x)
<1>1. CASE x = NoObject
  BY <1>1 DEF RefAdded
<1>2. CASE x # NoObject
  <2>1. \A o \in Object : Cardinality(PointersTo(ptr, o)) \in Nat
    BY RefptrAssumption, FS_Subset, FS_CardinalityType DEF PointersTo
  <2> QED BY <1>2, <2>1, RefptrAssumption DEF RefAdded, HeldBy
<1> QED BY <1>1, <1>2

(* A variable takes over the reference that the operation holds, and       *)
(* leaves the operation the one it had.                                    *)
LEMMA ReferenceExchanged ==
  ASSUME NEW ptr, NEW c, NEW x, HeldBy(ptr, c, x), NEW p \in Refptr
  PROVE  HeldBy([ptr EXCEPT ![p] = x], c, ptr[p])
<1> DEFINE after == [ptr EXCEPT ![p] = x]
<1>1. after \in [Refptr -> Object \cup {NoObject}] /\ ptr[p] \in Object \cup {NoObject}
  BY DEF HeldBy
<1>2. \A o \in Object : (o = x \/ \E q \in Refptr : ptr[q] = o)
                          <=> (o = ptr[p] \/ \E q \in Refptr : after[q] = o)
  BY DEF HeldBy
<1>3. \A o \in Object : /\ Cardinality(PointersTo(ptr, o)) \in Nat
                        /\ Cardinality(PointersTo(after, o)) = Cardinality(PointersTo(ptr, o))
                               + (IF x = o THEN 1 ELSE 0) - (IF ptr[p] = o THEN 1 ELSE 0)
  <2> TAKE o \in Object
  <2> DEFINE S == PointersTo(ptr, o)
             T == PointersTo(after, o)
  <2>1. IsFiniteSet(S) /\ IsFiniteSet(T)
    BY RefptrAssumption, FS_Subset DEF PointersTo
  <2>2. T = (IF x = o THEN S \cup {p} ELSE S \ {p}) /\ (p \in S <=> ptr[p] = o)
    BY DEF PointersTo, HeldBy
  <2> HIDE DEF S, T
  <2>3. Cardinality(S) \in Nat
    BY <2>1, FS_CardinalityType
  <2>4. Cardinality(T) = Cardinality(S) + (IF x = o THEN 1 ELSE 0) - (IF ptr[p] = o THEN 1 ELSE 0)
    BY <2>1, <2>2, <2>3, FS_AddElement, FS_RemoveElement
  <2> QED BY <2>3, <2>4 DEF S, T
<1> HIDE DEF after
<1>4. \A o \in Object : o \in c.alive <=> (o = ptr[p] \/ \E q \in Refptr : after[q] = o)
  BY <1>2 DEF HeldBy
<1>5. \A o \in c.alive :
         c.refs[o] = Cardinality(PointersTo(after, o)) + (IF o = ptr[p] THEN 1 ELSE 0)
  <2> TAKE o \in c.alive
  <2>1. o \in Object /\ c.refs[o] = Cardinality(PointersTo(ptr, o)) + (IF o = x THEN 1 ELSE 0)
    BY DEF HeldBy
  <2> QED BY <1>3, <2>1
<1>6. c \in [refs : [Object -> Int], alive : SUBSET Object]
  BY DEF HeldBy
<1> QED BY <1>1, <1>4, <1>5, <1>6 DEF HeldBy, after

(* Release of the reference that the operation holds. *)
LEMMA RefReleasedHolds ==
  ASSUME NEW ptr, NEW c, NEW x, HeldBy(ptr, c, x)
  PROVE  HeldBy(ptr, RefReleased(c, x), NoObject)
<1>1. CASE x = NoObject
  BY <1>1 DEF RefReleased
<1>2. CASE x # NoObject
  <2>1. x \in Object /\ x \in c.alive
    BY <1>2 DEF HeldBy
  <2>2. \A o \in Object :
           /\ Cardinality(PointersTo(ptr, o)) \in Nat
           /\ Cardinality(PointersTo(ptr, o)) = 0 <=> \A q \in Refptr : ptr[q] # o
    <3> SUFFICES ASSUME NEW o \in Object
                 PROVE  /\ Cardinality(PointersTo(ptr, o)) \in Nat
                        /\ Cardinality(PointersTo(ptr, o)) = 0 <=> PointersTo(ptr, o) = {}
      BY DEF PointersTo
    <3>1. IsFiniteSet(PointersTo(ptr, o))
      BY RefptrAssumption, FS_Subset DEF PointersTo
    <3> QED BY <3>1, FS_CardinalityType, FS_EmptySet
  <2>3. c.refs[x] = Cardinality(PointersTo(ptr, x)) + 1
    BY <2>1 DEF HeldBy
  <2> DEFINE d == RefReleased(c, x)
  <2>4. /\ d.refs = [c.refs EXCEPT ![x] = @ - 1]
        /\ d.alive = IF c.refs[x] = 1 THEN c.alive \ {x} ELSE c.alive
        /\ d \in [refs : [Object -> Int], alive : SUBSET Object]
    BY <1>2, <2>1 DEF RefReleased, HeldBy
  <2> HIDE DEF d
  <2>5. \A o \in Object : o \in d.alive <=> \E p \in Refptr : ptr[p] = o
    BY <2>1, <2>2, <2>3, <2>4 DEF HeldBy
  <2>6. \A o \in d.alive : d.refs[o] = Cardinality(PointersTo(ptr, o))
    BY <2>1, <2>2, <2>3, <2>4 DEF HeldBy
  <2> QED BY <2>2, <2>4, <2>5, <2>6, RefptrAssumption DEF HeldBy, d
<1> QED BY <1>1, <1>2

(* Every assignment keeps the counts exact. *)
LEMMA RefptrInvKept ==
  ASSUME RefptrInv, [RefptrNext]_refptrVars
  PROVE  RefptrInv'
<1> USE DEF RefptrInv
<1>1. ASSUME NEW p \in Refptr, AssignNew(p) PROVE RefptrInv'
  <2>1. PICK o \in Object \ counted.alive :
           /\ counted' = Reassigned([refs |-> [counted.refs EXCEPT ![o] = 0],
                                     alive |-> counted.alive \cup {o}], ptr_[p], o)
           /\ ptr_' = [ptr_ EXCEPT ![p] = o]
    BY <1>1 DEF AssignNew
  <2> DEFINE c == RefAdded([refs |-> [counted.refs EXCEPT ![o] = 0],
                            alive |-> counted.alive \cup {o}], o)
  <2>2. c.refs = [counted.refs EXCEPT ![o] = 1] /\ c.alive = counted.alive \cup {o}
        /\ c \in [refs : [Object -> Int], alive : SUBSET Object]
    BY RefptrAssumption DEF RefAdded, HeldBy
  <2>3. PointersTo(ptr_, o) = {} /\ Cardinality({}) = 0
    BY FS_EmptySet DEF HeldBy, PointersTo
  <2>4. \A q \in Object : Cardinality(PointersTo(ptr_, q)) \in Nat
    BY RefptrAssumption, FS_Subset, FS_CardinalityType DEF PointersTo
  <2> HIDE DEF c
  <2>5. HeldBy(ptr_, c, o)
    <3>1. \A q \in Object : q \in c.alive <=> (q = o \/ \E r \in Refptr : ptr_[r] = q)
      BY <2>2, RefptrAssumption DEF HeldBy
    <3>2. \A q \in c.alive :
             c.refs[q] = Cardinality(PointersTo(ptr_, q)) + (IF q = o THEN 1 ELSE 0)
      <4>1. c.refs[o] = Cardinality(PointersTo(ptr_, o)) + 1
        BY <2>2, <2>3 DEF HeldBy
      <4>2. \A q \in counted.alive : q \in Object /\ c.refs[q] = Cardinality(PointersTo(ptr_, q))
        BY <2>2, <2>4, RefptrAssumption DEF HeldBy
      <4> QED BY <2>2, <2>4, <4>1, <4>2
    <3> QED BY <2>2, <3>1, <3>2 DEF HeldBy
  <2>6. HeldBy(ptr_', c, ptr_[p])
    BY <2>1, <2>5, ReferenceExchanged
  <2> QED BY <2>1, <2>6, RefReleasedHolds DEF Reassigned, c
<1>2. ASSUME NEW p \in Refptr, NEW x \in counted.alive \cup {NoObject},
             counted' = Reassigned(counted, ptr_[p], x), ptr_' = [ptr_ EXCEPT ![p] = x]
      PROVE  RefptrInv'
  <2>1. HeldBy(ptr_, RefAdded(counted, x), x)
    BY RefAddedHolds
  <2>2. HeldBy(ptr_', RefAdded(counted, x), ptr_[p])
    BY <1>2, <2>1, ReferenceExchanged
  <2> QED BY <1>2, <2>2, RefReleasedHolds DEF Reassigned
<1>3. ASSUME NEW p \in Refptr, NEW r \in Refptr, AssignMoved(p, r) PROVE RefptrInv'
  <2> DEFINE emptied == [ptr_ EXCEPT ![r] = NoObject]
  <2>1. HeldBy(emptied, counted, ptr_[r])
    BY ReferenceExchanged
  <2>2. ptr_' = [emptied EXCEPT ![p] = ptr_[r]] /\ counted' = RefReleased(counted, emptied[p])
    BY <1>3 DEF AssignMoved
  <2> HIDE DEF emptied
  <2> QED BY <2>1, <2>2, ReferenceExchanged, RefReleasedHolds
<1>4. ASSUME NEW p \in Refptr, NEW r \in Refptr, SwapRefptrs(p, r) PROVE RefptrInv'
  <2> DEFINE one == [ptr_ EXCEPT ![p] = NoObject]
             two == [one EXCEPT ![r] = ptr_[p]]
             three == [two EXCEPT ![p] = one[r]]
  <2>1. HeldBy(one, counted, ptr_[p])
    BY ReferenceExchanged
  <2>2. HeldBy(two, counted, one[r])
    <3> HIDE DEF one
    <3> QED BY <2>1, ReferenceExchanged
  <2>3. HeldBy(three, counted, two[p])
    <3> HIDE DEF two
    <3> QED BY <2>2, ReferenceExchanged
  <2>4. CASE p # r
    <3>1. ptr_' = three /\ two[p] = NoObject /\ counted' = counted
      BY <1>4, <2>4 DEF SwapRefptrs, HeldBy
    <3> QED BY <2>3, <3>1
  <2>5. CASE p = r
    <3>1. ptr_' = ptr_ /\ counted' = counted
      BY <1>4, <2>5 DEF SwapRefptrs, HeldBy
    <3> QED BY <3>1
  <2> QED BY <2>4, <2>5
<1>5. CASE UNCHANGED refptrVars
  BY <1>5 DEF refptrVars
<1>6. ASSUME NEW p \in Refptr, AssignNull(p) PROVE RefptrInv'
  BY <1>2, <1>6 DEF AssignNull
<1>7. ASSUME NEW p \in Refptr, NEW r \in Refptr, AssignCopy(p, r) PROVE RefptrInv'
  <2>1. ptr_[r] \in counted.alive \cup {NoObject}
    BY DEF HeldBy
  <2> QED BY <1>2, <1>7, <2>1 DEF AssignCopy
<1> QED BY <1>1, <1>3, <1>4, <1>5, <1>6, <1>7 DEF RefptrNext

(* However the variables are assigned, swapped and moved, also to          *)
(* themselves, an object exists as long as a variable points to it, and    *)
(* not longer: for any number of variables and objects.                    *)
THEOREM NoObjectDanglesOrLeaks == RefptrSpec => []PointedToAreAlive
<1>1. RefptrInit => RefptrInv
  <2> SUFFICES ASSUME RefptrInit PROVE RefptrInv
    OBVIOUS
  <2> QED BY RefptrAssumption DEF RefptrInit, RefptrInv, HeldBy
<1>2. RefptrInv /\ [RefptrNext]_refptrVars => RefptrInv'
  BY RefptrInvKept
<1>3. RefptrInv => PointedToAreAlive
  <2> SUFFICES ASSUME RefptrInv
               PROVE  \A o : o \in counted.alive <=> o \in {ptr_[p] : p \in Refptr} \ {NoObject}
    BY DEF PointedToAreAlive
  <2>1. \A o \in Object : o \in counted.alive <=> \E p \in Refptr : ptr_[p] = o
    BY RefptrAssumption DEF RefptrInv, HeldBy
  <2>2. counted.alive \subseteq Object /\ \A p \in Refptr : ptr_[p] \in Object \cup {NoObject}
    BY DEF RefptrInv, HeldBy
  <2> QED BY <2>1, <2>2, RefptrAssumption
<1> QED BY <1>1, <1>2, <1>3, PTL DEF RefptrSpec

-----------------------------------------------------------------------------
(***************************************************************************)
(* CopyOnWriteBuffer.                                                      *)
(***************************************************************************)

(* A CopyOnWriteBuffer. *)
BufferRecord == [buffer : Storage \cup {Null}, offset : Nat, size : Nat]

(* What a RefCountedBuffer holds. *)
StorageRecord == [data : Seq(Byte), capacity : Nat]

(* The operations of a buffer that take several steps. *)
Operation == {"none", "SetData", "AppendData", "MutableData", "write"}

(* The buffers that share a storage. *)
Sharing(b, s) == {h \in Handle : b[h].buffer = s}

(* The reference counts r are the numbers of the buffers b that point to   *)
(* each storage, with one more for x, on which an operation holds a        *)
(* reference of its own.                                                   *)
CountedBy(b, r, x) ==
    /\ b \in [Handle -> BufferRecord]
    /\ r \in [Storage -> Nat]
    /\ x \in Storage \cup {Null}
    /\ \A s \in Storage : r[s] = Cardinality(Sharing(b, s)) + (IF s = x THEN 1 ELSE 0)

(* How many buffers share a storage; one that counts 1 has it to itself. *)
LEMMA SharingCounted ==
  ASSUME NEW b, NEW s
  PROVE  /\ IsFiniteSet(Sharing(b, s))
         /\ Cardinality(Sharing(b, s)) \in Nat
         /\ Cardinality(Sharing(b, s)) = 0 <=> \A h \in Handle : b[h].buffer # s
         /\ \A h \in Handle : b[h].buffer = s /\ Cardinality(Sharing(b, s)) = 1
               => \A g \in Handle \ {h} : b[g].buffer # s
<1>1. IsFiniteSet(Sharing(b, s))
  BY CopyOnWriteAssumption, FS_Subset DEF Sharing
<1>2. Cardinality(Sharing(b, s)) \in Nat
  BY <1>1, FS_CardinalityType
<1>3. Cardinality(Sharing(b, s)) = 0 <=> Sharing(b, s) = {}
  BY <1>1, FS_EmptySet
<1>4. Cardinality(Sharing(b, s)) = 1 <=> \E h : Sharing(b, s) = {h}
  BY <1>1, FS_Singleton
<1>5. Sharing(b, s) = {} <=> \A h \in Handle : b[h].buffer # s
  BY DEF Sharing
<1>6. ASSUME NEW h \in Handle, b[h].buffer = s, Cardinality(Sharing(b, s)) = 1,
             NEW g \in Handle \ {h}
      PROVE  b[g].buffer # s
  BY <1>4, <1>6 DEF Sharing
<1> QED BY <1>1, <1>2, <1>3, <1>5, <1>6

(* AddRef accounts for the operation's own reference, *)
LEMMA AddRefCounted ==
  ASSUME NEW b, NEW r, CountedBy(b, r, Null), NEW x \in Storage \cup {Null}
  PROVE  CountedBy(b, AddRef(r, x), x)
<1>1. CASE x = Null
  BY <1>1 DEF AddRef
<1>2. CASE x # Null
  BY <1>2, SharingCounted, CopyOnWriteAssumption DEF AddRef, CountedBy
<1> QED BY <1>1, <1>2

(* and Release for its end. *)
LEMMA ReleaseCounted ==
  ASSUME NEW b, NEW r, NEW x, CountedBy(b, r, x)
  PROVE  CountedBy(b, Release(r, x), Null)
<1>1. CASE x = Null
  BY <1>1 DEF Release
<1>2. CASE x # Null
  BY <1>2, SharingCounted, CopyOnWriteAssumption DEF Release, CountedBy
<1> QED BY <1>1, <1>2

(* A buffer takes over the reference that the operation holds, and leaves  *)
(* it the one it had.                                                      *)
LEMMA BufferExchanged ==
  ASSUME NEW b, NEW r, NEW x, CountedBy(b, r, x), NEW h \in Handle,
         NEW new \in BufferRecord, new.buffer = x
  PROVE  CountedBy([b EXCEPT ![h] = new], r, b[h].buffer)
<1> DEFINE after == [b EXCEPT ![h] = new]
<1>1. b \in [Handle -> BufferRecord] /\ r \in [Storage -> Nat] /\ x \in Storage \cup {Null}
  BY DEF CountedBy
<1>2. after \in [Handle -> BufferRecord] /\ b[h].buffer \in Storage \cup {Null}
  BY <1>1 DEF BufferRecord
<1>3. \A s \in Storage :
         r[s] = Cardinality(Sharing(after, s)) + (IF s = b[h].buffer THEN 1 ELSE 0)
  <2> TAKE s \in Storage
  <2> DEFINE S == Sharing(b, s)
             T == Sharing(after, s)
  <2>1. IsFiniteSet(S) /\ IsFiniteSet(T) /\ Cardinality(S) \in Nat
    BY SharingCounted
  <2>2. T = (IF x = s THEN S \cup {h} ELSE S \ {h}) /\ (h \in S <=> b[h].buffer = s)
    BY <1>1 DEF Sharing
  <2>3. r[s] = Cardinality(S) + (IF s = x THEN 1 ELSE 0)
    BY DEF CountedBy
  <2> HIDE DEF S, T
  <2>4. Cardinality(T) = Cardinality(S) + (IF x = s THEN 1 ELSE 0)
                            - (IF b[h].buffer = s THEN 1 ELSE 0)
    BY <2>1, <2>2, FS_AddElement, FS_RemoveElement
  <2> QED BY <2>1, <2>3, <2>4 DEF T
<1> QED BY <1>1, <1>2, <1>3 DEF CountedBy

(* scoped_refptr::operator= keeps the counts exact. *)
LEMMA RepointCounted ==
  ASSUME CountedBy(buf, refs, Null), NEW h \in Handle, NEW new \in BufferRecord
  PROVE  CountedBy([buf EXCEPT ![h] = new], Repoint(buf[h].buffer, new.buffer), Null)
<1>1. CountedBy(buf, AddRef(refs, new.buffer), new.buffer)
  BY AddRefCounted DEF BufferRecord
<1>2. CountedBy([buf EXCEPT ![h] = new], AddRef(refs, new.buffer), buf[h].buffer)
  BY <1>1, BufferExchanged
<1> QED BY <1>2, ReleaseCounted DEF Repoint

-----------------------------------------------------------------------------
(* What is inductive: the counts are exact; an operation that was told     *)
(* that it has the only reference is in progress on a buffer with storage, *)
(* which it shares with no other; and every slice lies within its storage. *)
CowTypeOK ==
    /\ mem \in [Storage -> StorageRecord]
    /\ op \in [Handle -> Operation]
    /\ sole \in [Handle -> BOOLEAN]

(* An operation in progress is on a buffer with storage, and one that      *)
(* writes has been told that it is alone.                                  *)
Protected ==
    \A h \in Handle :
        /\ op[h] # "none" => buf[h].buffer # Null
        /\ sole[h] => op[h] # "none"
        /\ op[h] = "write" => sole[h]

(* The slice of a buffer lies within its storage. *)
SlicesFit ==
    \A h \in Handle :
        IF buf[h].buffer = Null THEN buf[h].size = 0 /\ buf[h].offset = 0
        ELSE buf[h].offset + buf[h].size <= Len(mem[buf[h].buffer].data)

(* The inductive invariant. *)
CowInv ==
    /\ CowTypeOK
    /\ CountedBy(buf, refs, Null)
    /\ Protected
    /\ ExclusiveWhileWriting
    /\ SlicesFit

(* The storage of a buffer is not deleted with those that are not counted. *)
LEMMA CountedAreKept ==
  ASSUME CountedBy(buf, refs, Null)', NEW m, DeleteUnreferenced(m),
         NEW h \in Handle, buf'[h].buffer # Null
  PROVE  mem'[buf'[h].buffer] = m[buf'[h].buffer]
<1> DEFINE s == buf'[h].buffer
<1>1. s \in Storage /\ refs'[s] = Cardinality(Sharing(buf', s))
  BY SharingCounted, CopyOnWriteAssumption DEF CountedBy, BufferRecord
<1>2. Cardinality(Sharing(buf', s)) # 0
  BY SharingCounted
<1>3. refs'[s] # 0
  BY <1>1, <1>2
<1> HIDE DEF s
<1> QED BY <1>1, <1>3 DEF DeleteUnreferenced, s

(* A buffer gets a new storage: no other buffer is affected. *)
LEMMA Renewed ==
  ASSUME CowInv, NEW h \in Handle, NEW d \in Seq(Byte), NEW capacity \in Int,
         Renew(h, d, capacity)
  PROVE  /\ CountedBy(buf, refs, Null)'
         /\ mem' \in [Storage -> StorageRecord]
         /\ buf'[h].buffer # Null
         /\ \A g \in Handle \ {h} : buf'[g] = buf[g] /\ buf'[g].buffer # buf'[h].buffer
         /\ buf'[h].offset = 0 /\ buf'[h].size = Len(d)
         /\ mem'[buf'[h].buffer] = NewBuffer(d, capacity)
         /\ \A g \in Handle \ {h} : buf[g].buffer # Null => mem'[buf[g].buffer] = mem[buf[g].buffer]
<1>1. PICK s \in Storage :
        /\ refs[s] = 0
        /\ buf' = [buf EXCEPT ![h] = [buffer |-> s, offset |-> 0, size |-> Len(d)]]
        /\ refs' = Repoint(buf[h].buffer, s)
        /\ DeleteUnreferenced([mem EXCEPT ![s] = NewBuffer(d, capacity)])
  BY DEF Renew
<1> DEFINE new == [buffer |-> s, offset |-> 0, size |-> Len(d)]
           m == [mem EXCEPT ![s] = NewBuffer(d, capacity)]
<1>2. new \in BufferRecord /\ new.buffer = s
  BY DEF BufferRecord
<1>3. NewBuffer(d, capacity) \in StorageRecord
  BY DEF NewBuffer, StorageRecord, Max2
<1>4. CountedBy(buf, refs, Null)'
  <2> HIDE DEF new
  <2>1. buf' = [buf EXCEPT ![h] = new] /\ refs' = Repoint(buf[h].buffer, new.buffer)
    BY <1>1, <1>2 DEF new
  <2>2. CountedBy([buf EXCEPT ![h] = new], Repoint(buf[h].buffer, new.buffer), Null)
    BY <1>2, RepointCounted DEF CowInv
  <2> QED BY <2>1, <2>2
<1>5. m \in [Storage -> StorageRecord] /\ Freed \in StorageRecord
  BY <1>3 DEF CowInv, CowTypeOK, Freed, StorageRecord
<1>6. mem' \in [Storage -> StorageRecord]
  BY <1>1, <1>5 DEF DeleteUnreferenced
<1>7. \A g \in Handle : buf[g].buffer # s
  <2>1. Cardinality(Sharing(buf, s)) = 0
    BY <1>1, SharingCounted, CopyOnWriteAssumption DEF CowInv, CountedBy
  <2> QED BY <2>1, SharingCounted
<1>8. buf'[h] = new /\ \A g \in Handle \ {h} : buf'[g] = buf[g]
  BY <1>1 DEF CowInv, CountedBy
<1>9. DeleteUnreferenced(m)
  BY <1>1
<1>10. m[s] = NewBuffer(d, capacity) /\ \A t \in Storage \ {s} : m[t] = mem[t]
  BY DEF CowInv, CowTypeOK
<1>11. \A g \in Handle : buf[g].buffer \in Storage \cup {Null}
  BY DEF CowInv, CountedBy, BufferRecord
<1> HIDE DEF m
<1>12. mem'[s] = NewBuffer(d, capacity)
  <2>1. buf'[h].buffer = s /\ s # Null
    BY <1>2, <1>8, CopyOnWriteAssumption
  <2>2. mem'[buf'[h].buffer] = m[buf'[h].buffer]
    BY <1>4, <1>9, <2>1, CountedAreKept
  <2> QED BY <1>10, <2>1, <2>2
<1>13. ASSUME NEW g \in Handle \ {h}, buf[g].buffer # Null
       PROVE  mem'[buf[g].buffer] = mem[buf[g].buffer]
  <2>1. mem'[buf'[g].buffer] = m[buf'[g].buffer]
    BY <1>4, <1>8, <1>9, <1>13, CountedAreKept
  <2> QED BY <1>7, <1>8, <1>10, <1>11, <1>13, <2>1
<1> QED BY <1>4, <1>6, <1>7, <1>8, <1>12, <1>13, CopyOnWriteAssumption

(* Storage that buffers hand to one another stays as it is. *)
LEMMA Rearranged ==
  ASSUME CowInv, CountedBy(buf, refs, Null)', DeleteUnreferenced(mem)
  PROVE  /\ mem' \in [Storage -> StorageRecord]
         /\ \A g \in Handle : buf'[g].buffer # Null => mem'[buf'[g].buffer] = mem[buf'[g].buffer]
<1>1. mem' \in [Storage -> StorageRecord]
  BY DEF DeleteUnreferenced, CowInv, CowTypeOK, Freed, StorageRecord
<1> QED BY <1>1, CountedAreKept

(* A write to a storage by the only buffer that has it. *)
LEMMA WrittenAlone ==
  ASSUME CowInv, NEW h \in Handle, sole[h], NEW x \in StorageRecord,
         mem' = [mem EXCEPT ![buf[h].buffer] = x]
  PROVE  /\ mem' \in [Storage -> StorageRecord]
         /\ mem'[buf[h].buffer] = x
         /\ \A g \in Handle \ {h} : buf[g].buffer # Null => mem'[buf[g].buffer] = mem[buf[g].buffer]
<1>1. buf[h].buffer \in Storage
  BY DEF CowInv, CountedBy, BufferRecord, Protected
<1>2. \A g \in Handle \ {h} : buf[g].buffer # buf[h].buffer
  BY DEF CowInv, ExclusiveWhileWriting
<1>3. \A g \in Handle : buf[g].buffer \in Storage \cup {Null}
  BY DEF CowInv, CountedBy, BufferRecord
<1> QED BY <1>1, <1>2, <1>3 DEF CowInv, CowTypeOK

(* Whether a storage has one reference is what HasOneRef says. *)
LEMMA OneRefIsExclusive ==
  ASSUME CowInv, NEW h \in Handle, buf[h].buffer # Null, HasOneRef(buf[h].buffer)
  PROVE  \A g \in Handle \ {h} : buf[g].buffer # buf[h].buffer
<1>1. buf[h].buffer \in Storage
  BY DEF CowInv, CountedBy, BufferRecord
<1>2. Cardinality(Sharing(buf, buf[h].buffer)) = 1
  BY <1>1, SharingCounted, CopyOnWriteAssumption DEF HasOneRef, CowInv, CountedBy
<1> QED BY <1>2, SharingCounted

(* The operations that hand storage from buffer to buffer keep the counts. *)
LEMMA HandedOn ==
  ASSUME CowInv, NEW h \in Handle, NEW g \in Handle
  PROVE  /\ Destroy(h) => CountedBy(buf, refs, Null)'
         /\ Assign(h, g) => CountedBy(buf, refs, Null)'
         /\ Move(h, g) => CountedBy(buf, refs, Null)'
         /\ Swap(h, g) => CountedBy(buf, refs, Null)'
         /\ \A offset, length \in 0..MaxLen : Slice(h, g, offset, length) => CountedBy(buf, refs, Null)'
<1> USE DEF CowInv
<1>1. /\ buf \in [Handle -> BufferRecord] /\ buf[h] \in BufferRecord /\ buf[g] \in BufferRecord
      /\ Empty \in BufferRecord /\ Empty.buffer = Null
  BY DEF CountedBy, Empty, BufferRecord
<1>2. Destroy(h) => CountedBy(buf, refs, Null)'
  BY <1>1, RepointCounted DEF Destroy
<1>3. Assign(h, g) => CountedBy(buf, refs, Null)'
  BY <1>1, RepointCounted DEF Assign
<1>4. ASSUME Move(h, g) PROVE CountedBy(buf, refs, Null)'
  <2>1. CASE h # g
    <3> DEFINE one == [buf EXCEPT ![g] = Empty]
    <3>1. CountedBy(one, refs, buf[g].buffer)
      BY <1>1, BufferExchanged
    <3>2. buf' = [one EXCEPT ![h] = buf[g]] /\ one[h] = buf[h] /\ refs' = Release(refs, one[h].buffer)
      BY <1>1, <1>4, <2>1 DEF Move, Empty
    <3> HIDE DEF one
    <3>3. CountedBy([one EXCEPT ![h] = buf[g]], refs, one[h].buffer)
      BY <1>1, <3>1, BufferExchanged
    <3> QED BY <3>2, <3>3, ReleaseCounted
  <2>2. CASE h = g
    <3> DEFINE new == [Empty EXCEPT !.buffer = buf[h].buffer]
    <3>1. buf' = [buf EXCEPT ![h] = new] /\ refs' = refs /\ new \in BufferRecord
          /\ new.buffer = buf[h].buffer
      BY <1>1, <1>4, <2>2 DEF Move, Empty, BufferRecord
    <3>2. \A s \in Storage : Sharing(buf', s) = Sharing(buf, s)
      BY <1>1, <3>1 DEF Sharing
    <3>3. buf' \in [Handle -> BufferRecord]
      BY <1>1, <3>1
    <3> QED BY <3>1, <3>2, <3>3 DEF CountedBy
  <2> QED BY <2>1, <2>2
<1>5. ASSUME Swap(h, g) PROVE CountedBy(buf, refs, Null)'
  <2>1. CASE h = g
    <3>1. buf' = buf /\ refs' = refs
      BY <1>1, <1>5, <2>1 DEF Swap
    <3> QED BY <3>1
  <2>2. CASE h # g
    <3> DEFINE one == [buf EXCEPT ![h] = Empty]
               two == [one EXCEPT ![g] = buf[h]]
    <3>1. CountedBy(one, refs, buf[h].buffer) /\ one[g] = buf[g]
      BY <1>1, <2>2, BufferExchanged
    <3>2. CountedBy(two, refs, buf[g].buffer)
      <4> HIDE DEF one
      <4> QED BY <1>1, <3>1, BufferExchanged
    <3>3. buf' = [two EXCEPT ![h] = buf[g]] /\ refs' = refs /\ two[h].buffer = Null
      BY <1>1, <1>5, <2>2 DEF Swap
    <3>4. CountedBy([two EXCEPT ![h] = buf[g]], refs, two[h].buffer)
      <4> HIDE DEF two
      <4> QED BY <1>1, <3>2, BufferExchanged
    <3> QED BY <3>3, <3>4
  <2> QED BY <2>1, <2>2
<1>6. ASSUME NEW offset \in 0..MaxLen, NEW length \in 0..MaxLen, Slice(h, g, offset, length)
      PROVE  CountedBy(buf, refs, Null)'
  <2> DEFINE new == [buffer |-> buf[g].buffer, offset |-> buf[g].offset + offset, size |-> length]
  <2>1. new \in BufferRecord /\ new.buffer = buf[g].buffer
    BY <1>1, CopyOnWriteAssumption DEF BufferRecord
  <2>2. buf' = [buf EXCEPT ![h] = new] /\ refs' = Repoint(buf[h].buffer, new.buffer)
    BY <1>6 DEF Slice
  <2> HIDE DEF new
  <2> QED BY <2>1, <2>2, RepointCounted
<1> QED BY <1>2, <1>3, <1>4, <1>5, <1>6

-----------------------------------------------------------------------------
(* The parts of the state. *)
LEMMA CowTypes ==
  ASSUME CowInv
  PROVE  /\ mem \in [Storage -> StorageRecord] /\ op \in [Handle -> Operation]
         /\ sole \in [Handle -> BOOLEAN]
         /\ buf \in [Handle -> BufferRecord]
         /\ \A h \in Handle : /\ buf[h].buffer \in Storage \cup {Null}
                              /\ buf[h].offset \in Nat /\ buf[h].size \in Nat
<1> QED BY DEF CowInv, CowTypeOK, CountedBy, BufferRecord

(* A buffer that gets new storage, with contents of its own, keeps the     *)
(* invariant.                                                              *)
LEMMA NewStorageKeeps ==
  ASSUME CowInv, NEW h \in Handle, op[h] \in Operation \ {"write"}, NEW d \in Seq(Byte),
         NEW capacity \in Int, Renew(h, d, capacity),
         \/ UNCHANGED <<op, sole>> /\ Idle(h)
         \/ Done(h)
         \/ /\ op' = [op EXCEPT ![h] = "write"]
            /\ sole' = [sole EXCEPT ![h] = TRUE]
  PROVE  CowInv'
<1>1. /\ CountedBy(buf, refs, Null)'
      /\ mem' \in [Storage -> StorageRecord]
      /\ buf'[h].buffer # Null
      /\ \A g \in Handle \ {h} : buf'[g] = buf[g] /\ buf'[g].buffer # buf'[h].buffer
      /\ buf'[h].offset = 0 /\ buf'[h].size = Len(d)
      /\ mem'[buf'[h].buffer] = NewBuffer(d, capacity)
      /\ \A g \in Handle \ {h} : buf[g].buffer # Null => mem'[buf[g].buffer] = mem[buf[g].buffer]
  BY Renewed
<1>2. CowTypeOK'
  BY CowTypes, <1>1 DEF CowTypeOK, Done, Operation
<1>3. Protected'
  BY CowTypes, <1>1 DEF CowInv, Protected, Done, Idle, Operation
<1>4. ExclusiveWhileWriting'
  BY CowTypes, <1>1 DEF CowInv, ExclusiveWhileWriting, Done, Idle
<1>5. SlicesFit'
  BY CowTypes, <1>1 DEF CowInv, SlicesFit, NewBuffer
<1> QED BY <1>1, <1>2, <1>3, <1>4, <1>5 DEF CowInv

(* Buffers that exchange or copy references to storage keep the invariant. *)
LEMMA HandingOnKeeps ==
  ASSUME CowInv, CountedBy(buf, refs, Null)', DeleteUnreferenced(mem), UNCHANGED <<op, sole>>,
         NEW h \in Handle, NEW g \in Handle, Idle(h), Idle(g),
         \A f \in Handle \ {h, g} : buf'[f] = buf[f],
         \A f \in {h, g} :
             \/ buf'[f] = Empty
             \/ \E e \in {h, g} :
                   /\ buf'[f].buffer = buf[e].buffer
                   /\ IF buf[e].buffer = Null THEN buf'[f].size = 0 /\ buf'[f].offset = 0
                      ELSE buf'[f].offset + buf'[f].size <= buf[e].offset + buf[e].size
  PROVE  CowInv'
<1>1. /\ mem' \in [Storage -> StorageRecord]
      /\ \A f \in Handle : buf'[f].buffer # Null => mem'[buf'[f].buffer] = mem[buf'[f].buffer]
  BY Rearranged
<1>2. CowTypeOK'
  BY CowTypes, <1>1 DEF CowTypeOK
<1>3. Protected'
  BY CowTypes DEF CowInv, Protected, Idle
<1>4. ExclusiveWhileWriting'
  <2> SUFFICES ASSUME NEW f \in Handle, sole[f], NEW e \in Handle \ {f}
               PROVE  buf'[e].buffer # buf'[f].buffer
    BY DEF ExclusiveWhileWriting
  <2>1. ~ Idle(f) /\ buf[f].buffer # Null /\ f \notin {h, g} /\ buf'[f] = buf[f]
    BY DEF CowInv, Protected, Idle
  <2>2. \A x \in Handle \ {f} : buf[x].buffer # buf[f].buffer
    BY DEF CowInv, ExclusiveWhileWriting
  <2>3. CASE e \notin {h, g}
    BY <2>1, <2>2, <2>3
  <2>4. CASE e \in {h, g}
    BY <2>1, <2>2, <2>4 DEF Empty
  <2> QED BY <2>3, <2>4
<1>5. SlicesFit'
  <2> SUFFICES ASSUME NEW f \in Handle
               PROVE  IF buf'[f].buffer = Null THEN buf'[f].size = 0 /\ buf'[f].offset = 0
                      ELSE buf'[f].offset + buf'[f].size <= Len(mem'[buf'[f].buffer].data)
    BY DEF SlicesFit
  <2>1. \A e \in Handle : IF buf[e].buffer = Null THEN buf[e].size = 0 /\ buf[e].offset = 0
                          ELSE buf[e].offset + buf[e].size <= Len(mem[buf[e].buffer].data)
    BY DEF CowInv, SlicesFit
  <2>2. CASE f \notin {h, g}
    BY <1>1, <2>1, <2>2
  <2>3. CASE f \in {h, g}
    <3>1. CASE buf'[f] = Empty
      BY <3>1 DEF Empty
    <3>2. ASSUME NEW e \in {h, g}, buf'[f].buffer = buf[e].buffer,
                 IF buf[e].buffer = Null THEN buf'[f].size = 0 /\ buf'[f].offset = 0
                 ELSE buf'[f].offset + buf'[f].size <= buf[e].offset + buf[e].size
          PROVE  IF buf'[f].buffer = Null THEN buf'[f].size = 0 /\ buf'[f].offset = 0
                 ELSE buf'[f].offset + buf'[f].size <= Len(mem'[buf'[f].buffer].data)
      <4>1. CASE buf[e].buffer = Null
        BY <3>2, <4>1
      <4>2. CASE buf[e].buffer # Null
        <5>1. Len(mem[buf[e].buffer].data) \in Nat
          BY CowTypes, <4>2 DEF StorageRecord
        <5>2. buf'[f].offset \in Nat /\ buf'[f].size \in Nat
          BY DEF CountedBy, BufferRecord
        <5>3. mem'[buf'[f].buffer] = mem[buf[e].buffer]
          BY <1>1, <2>3, <3>2, <4>2
        <5>4. buf[e].offset + buf[e].size <= Len(mem[buf[e].buffer].data)
          BY <2>1, <4>2
        <5>5. buf[e].offset \in Nat /\ buf[e].size \in Nat
          BY CowTypes
        <5>6. buf'[f].offset + buf'[f].size <= buf[e].offset + buf[e].size
          BY <3>2, <4>2
        <5>7. buf'[f].offset + buf'[f].size <= Len(mem[buf[e].buffer].data)
<6>1. /\ buf'[f].offset + buf'[f].size \in Nat
      /\ buf[e].offset + buf[e].size \in Nat
  BY <5>2, <5>5
<6>2. \A i, j, k \in Nat : i <= j /\ j <= k => i <= k
  OBVIOUS
<6> QED BY <5>1, <5>4, <5>6, <6>1, <6>2, Zenon
        <5> QED BY <3>2, <4>2, <5>3, <5>7
      <4> QED BY <4>1, <4>2
    <3> QED BY <2>3, <3>1, <3>2
  <2> QED BY <2>2, <2>3
<1> QED BY <1>2, <1>3, <1>4, <1>5 DEF CowInv

(* A write in place, by the only owner, keeps the invariant. *)
LEMMA WriteInPlaceKeeps ==
  ASSUME CowInv, NEW h \in Handle, sole[h], NEW x \in StorageRecord,
         mem' = [mem EXCEPT ![buf[h].buffer] = x], refs' = refs,
         buf' \in [Handle -> BufferRecord],
         \A g \in Handle \ {h} : buf'[g] = buf[g],
         buf'[h].buffer = buf[h].buffer,
         buf'[h].offset + buf'[h].size <= Len(x.data),
         UNCHANGED <<op, sole>> \/ Done(h)
  PROVE  CowInv'
<1>1. /\ mem' \in [Storage -> StorageRecord]
      /\ mem'[buf[h].buffer] = x
      /\ \A g \in Handle \ {h} : buf[g].buffer # Null => mem'[buf[g].buffer] = mem[buf[g].buffer]
  BY WrittenAlone
<1>2. CountedBy(buf, refs, Null)'
  <2>1. \A s \in Storage : Sharing(buf', s) = Sharing(buf, s)
    BY DEF Sharing
  <2> QED BY <2>1 DEF CowInv, CountedBy
<1>3. CowTypeOK'
  BY CowTypes, <1>1 DEF CowTypeOK, Done, Operation
<1>4. Protected'
  BY CowTypes DEF CowInv, Protected, Done
<1>5. ExclusiveWhileWriting'
  BY CowTypes DEF CowInv, ExclusiveWhileWriting, Done
<1>6. SlicesFit'
  BY <1>1 DEF CowInv, SlicesFit, Protected
<1> QED BY <1>2, <1>3, <1>4, <1>5, <1>6 DEF CowInv

(* HasOneRef, whose answer an operation keeps, keeps the invariant. *)
LEMMA AnswerKeeps ==
  ASSUME CowInv, NEW h \in Handle, UNCHANGED <<buf, mem, refs>>, op' \in [Handle -> Operation],
         sole' \in [Handle -> BOOLEAN], \A g \in Handle \ {h} : op'[g] = op[g] /\ sole'[g] = sole[g],
         op'[h] = "write" => sole'[h],
         op'[h] # "none" => buf[h].buffer # Null,
         sole'[h] => /\ op'[h] # "none"
                     /\ \A g \in Handle \ {h} : buf[g].buffer # buf[h].buffer
  PROVE  CowInv'
<1>1. CowTypeOK' /\ CountedBy(buf, refs, Null)' /\ SlicesFit'
  BY CowTypes DEF CowInv, CowTypeOK, CountedBy, Sharing, SlicesFit
<1>2. Protected'
  BY CowTypes DEF CowInv, Protected
<1>3. ExclusiveWhileWriting'
  BY DEF CowInv, ExclusiveWhileWriting
<1> QED BY <1>1, <1>2, <1>3 DEF CowInv

(* So does a step that changes nothing. *)
LEMMA StutterKeeps ==
  ASSUME CowInv, UNCHANGED vars
  PROVE  CowInv'
<1> QED BY DEF vars, CowInv, CowTypeOK, CountedBy, Sharing, Protected, ExclusiveWhileWriting, SlicesFit

(* Data are sequences of bytes, *)
LEMMA DataAreBytes ==
  \A d \in Data : d \in Seq(Byte)
<1> QED BY DEF Data

(* so are the arguments of the calls, *)
LEMMA InputsAreData ==
  Input \subseteq Data
<1> QED BY DEF Input

(* and the slice that a buffer has of its storage. *)
LEMMA SliceOfStorage ==
  ASSUME CowInv, NEW h \in Handle, buf[h].buffer # Null
  PROVE  /\ Value(h) \in Seq(Byte) /\ Len(Value(h)) = buf[h].size /\ Capacity(h) \in Int
         /\ mem[buf[h].buffer] \in StorageRecord
         /\ Len(mem[buf[h].buffer].data) \in Nat
         /\ buf[h].offset + buf[h].size <= Len(mem[buf[h].buffer].data)
<1>1. /\ mem[buf[h].buffer] \in StorageRecord
      /\ mem[buf[h].buffer].data \in Seq(Byte) /\ mem[buf[h].buffer].capacity \in Nat
  BY CowTypes DEF StorageRecord
<1>2. Len(mem[buf[h].buffer].data) \in Nat
  BY <1>1
<1>3. buf[h].offset + buf[h].size <= Len(mem[buf[h].buffer].data)
  BY DEF CowInv, SlicesFit
<1>4. Capacity(h) \in Int
  BY CowTypes, <1>1 DEF Capacity
<1>5. Value(h) \in Seq(Byte) /\ Len(Value(h)) = buf[h].size
  BY CowTypes, <1>1, <1>2, <1>3 DEF Value
<1> QED BY <1>1, <1>2, <1>3, <1>4, <1>5

(* The check of UnshareAndEnsureCapacity keeps the invariant. *)
LEMMA CheckKeeps ==
  ASSUME CowInv, NEW h \in Handle, NEW operation \in {"SetData", "AppendData", "MutableData"},
         Check(h, operation)
  PROVE  CowInv'
<1>1. sole'[h] => \A g \in Handle \ {h} : buf[g].buffer # buf[h].buffer
  BY CowTypes, OneRefIsExclusive DEF Check
<1> QED BY CowTypes, AnswerKeeps, <1>1 DEF Check, Operation, HasOneRef

(* The end of a use of MutableData keeps the invariant. *)
LEMMA WritesDoneKeeps ==
  ASSUME CowInv, NEW h \in Handle, WritesDone(h)
  PROVE  CowInv'
<1> QED BY CowTypes, AnswerKeeps DEF WritesDone, Done, Operation

(* MutableData keeps the invariant. *)
LEMMA MutableDataKeeps ==
  ASSUME CowInv, NEW h \in Handle, MutableData(h)
  PROVE  CowInv'
<1>1. CASE MustCopy(h, Capacity(h)) /\ buf[h].buffer # Null
  BY CowTypes, NewStorageKeeps, SliceOfStorage, <1>1 DEF MutableData, Operation
<1>2. CASE ~ MustCopy(h, Capacity(h))
  <2>1. sole[h]
    BY <1>2 DEF MustCopy
  <2>2. buf[h].buffer # Null /\ \A g \in Handle \ {h} : buf[g].buffer # buf[h].buffer
    BY <2>1 DEF CowInv, Protected, ExclusiveWhileWriting
  <2> QED BY CowTypes, AnswerKeeps, <1>2, <2>2 DEF MutableData, Operation
<1>3. buf[h].buffer # Null
  BY DEF CowInv, Protected, MutableData
<1> QED BY <1>1, <1>2, <1>3

(* Construction keeps the invariant. *)
LEMMA ConstructKeeps ==
  ASSUME CowInv, NEW h \in Handle, NEW d \in Data, NEW capacity \in 0..MaxLen, Construct(h, d, capacity)
  PROVE  CowInv'
<1> QED BY CowTypes, NewStorageKeeps, DataAreBytes DEF Construct, Idle, Operation

(* SetData of an empty buffer keeps the invariant. *)
LEMMA SetDataNullKeeps ==
  ASSUME CowInv, NEW h \in Handle, NEW d \in Input, SetDataNull(h, d)
  PROVE  CowInv'
<1>1. CASE d = <<>>
  BY StutterKeeps, <1>1 DEF SetDataNull, vars
<1>2. CASE d # <<>>
  BY CowTypes, NewStorageKeeps, DataAreBytes, InputsAreData, <1>2 DEF SetDataNull, Idle, Operation
<1> QED BY <1>1, <1>2

(* AppendData to an empty buffer keeps the invariant. *)
LEMMA AppendDataNullKeeps ==
  ASSUME CowInv, NEW h \in Handle, NEW d \in Input, AppendDataNull(h, d)
  PROVE  CowInv'
<1> QED BY CowTypes, NewStorageKeeps, DataAreBytes, InputsAreData DEF AppendDataNull, Idle, Operation

(* The second step of SetData, in place or with new storage, keeps the     *)
(* invariant.                                                              *)
LEMMA SetDataKeeps ==
  ASSUME CowInv, NEW h \in Handle, NEW d \in Input, SetData(h, d)
  PROVE  CowInv'
<1>1. buf[h].buffer # Null /\ d \in Seq(Byte) /\ Len(d) \in Nat
  BY DataAreBytes, InputsAreData DEF CowInv, Protected, SetData
<1>2. CASE sole[h]
  <2>1. mem[buf[h].buffer].capacity \in Nat
    BY SliceOfStorage, <1>1 DEF StorageRecord
  <2>2. Overwritten(mem[buf[h].buffer], d) \in StorageRecord
    BY <1>1, <2>1 DEF Overwritten, StorageRecord, Max2
  <2>3. mem' = [mem EXCEPT ![buf[h].buffer] = Overwritten(mem[buf[h].buffer], d)]
    BY <1>2 DEF SetData
  <2>4. /\ buf' \in [Handle -> BufferRecord] /\ buf'[h].buffer = buf[h].buffer
        /\ buf'[h].offset = 0 /\ buf'[h].size = Len(d)
        /\ \A g \in Handle \ {h} : buf'[g] = buf[g]
    <3> DEFINE new == [buf[h] EXCEPT !.offset = 0, !.size = Len(d)]
    <3>1. buf[h] \in BufferRecord
      BY CowTypes
    <3>2. /\ new \in BufferRecord /\ new.buffer = buf[h].buffer
          /\ new.offset = 0 /\ new.size = Len(d)
      BY <1>1, <3>1 DEF BufferRecord
    <3>3. buf' = [[buf EXCEPT ![h].offset = 0] EXCEPT ![h].size = Len(d)]
      BY <1>2 DEF SetData
    <3>4. buf' = [buf EXCEPT ![h] = new]
      BY CowTypes, <3>3
    <3> HIDE DEF new
    <3> QED BY CowTypes, <3>2, <3>4
  <2>5. Overwritten(mem[buf[h].buffer], d).data = d
    BY DEF Overwritten
  <2>6. refs' = refs /\ Done(h)
    BY <1>2 DEF SetData
  <2>7. buf'[h].offset + buf'[h].size <= Len(Overwritten(mem[buf[h].buffer], d).data)
    BY <1>1, <2>4, <2>5
  <2> QED BY WriteInPlaceKeeps, <1>2, <2>2, <2>3, <2>4, <2>6, <2>7
<1>3. CASE ~ sole[h]
  BY CowTypes, NewStorageKeeps, SliceOfStorage, <1>1, <1>3 DEF SetData, Operation
<1> QED BY <1>2, <1>3

(* The second step of AppendData keeps the invariant. *)
LEMMA AppendDataKeeps ==
  ASSUME CowInv, NEW h \in Handle, NEW d \in Input, AppendData(h, d)
  PROVE  CowInv'
<1> DEFINE s == buf[h].buffer
           room == Max2(Capacity(h), buf[h].size + Len(d))
           kept == SubSeq(mem[s].data, 1, buf[h].offset + buf[h].size)
           x == [mem[s] EXCEPT !.data = kept \o d]
<1>1. s # Null /\ d \in Seq(Byte) /\ Len(d) \in Nat
  BY DataAreBytes, InputsAreData DEF CowInv, Protected, AppendData
<1>2. room \in Int
  BY CowTypes, SliceOfStorage, <1>1 DEF Max2
<1>3. CASE MustCopy(h, room)
  <2>1. Value(h) \o d \in Seq(Byte)
    BY SliceOfStorage, <1>1
  <2>2. Renew(h, Value(h) \o d, room) /\ Done(h) /\ op[h] \in Operation \ {"write"}
    BY <1>3 DEF AppendData, Operation
  <2> HIDE DEF room
  <2> QED BY NewStorageKeeps, <1>2, <2>1, <2>2
<1>4. CASE ~ MustCopy(h, room)
  <2>1. sole[h]
    BY <1>4 DEF MustCopy
  <2>2. mem[s].data \in Seq(Byte) /\ mem[s].capacity \in Nat /\ mem[s] \in StorageRecord
    BY SliceOfStorage, <1>1 DEF StorageRecord
  <2>3. kept \in Seq(Byte) /\ Len(kept) = buf[h].offset + buf[h].size
    BY CowTypes, SliceOfStorage, <1>1, <2>2
  <2>4. kept \o d \in Seq(Byte) /\ Len(kept \o d) = buf[h].offset + buf[h].size + Len(d)
    BY <1>1, <2>3
  <2>5. x \in StorageRecord /\ x.data = kept \o d
    BY <2>2, <2>4 DEF StorageRecord
  <2>6. /\ mem' = [mem EXCEPT ![s].data = kept \o d]
        /\ buf' = [buf EXCEPT ![h].size = @ + Len(d)]
        /\ refs' = refs /\ Done(h)
    BY <1>4 DEF AppendData
  <2>7. mem' = [mem EXCEPT ![s] = x]
    BY <2>6
  <2>8. /\ buf' \in [Handle -> BufferRecord] /\ buf'[h].buffer = s
        /\ buf'[h].offset = buf[h].offset /\ buf'[h].size = buf[h].size + Len(d)
        /\ \A g \in Handle \ {h} : buf'[g] = buf[g]
    <3> DEFINE new == [buf[h] EXCEPT !.size = @ + Len(d)]
    <3>1. buf[h] \in BufferRecord
      BY CowTypes
    <3>2. /\ new \in BufferRecord /\ new.buffer = s
          /\ new.offset = buf[h].offset /\ new.size = buf[h].size + Len(d)
      BY <1>1, <3>1 DEF BufferRecord
    <3>3. buf' = [buf EXCEPT ![h] = new]
      BY <2>6
    <3> HIDE DEF new
    <3> QED BY CowTypes, <3>2, <3>3
  <2>9. buf'[h].offset + buf'[h].size <= Len(x.data)
    <3>1. Len(x.data) = buf[h].offset + buf[h].size + Len(d)
      BY <2>4, <2>5
    <3> HIDE DEF x, kept
    <3> QED BY CowTypes, <1>1, <2>8, <3>1
  <2> HIDE DEF x, kept
  <2> QED BY WriteInPlaceKeeps, <2>1, <2>5, <2>6, <2>7, <2>8, <2>9
<1> QED BY <1>3, <1>4

(* A byte written through the pointer of MutableData keeps the invariant. *)
LEMMA WriteByteKeeps ==
  ASSUME CowInv, NEW h \in Handle, NEW i \in 1..buf[h].size, NEW b \in Byte, WriteByte(h, i, b)
  PROVE  CowInv'
<1> DEFINE s == buf[h].buffer
           x == [mem[s] EXCEPT !.data[buf[h].offset + i] = b]
<1>1. s # Null /\ sole[h]
  BY DEF CowInv, Protected, WriteByte
<1>2. mem[s].data \in Seq(Byte) /\ mem[s].capacity \in Nat /\ mem[s] \in StorageRecord
  BY SliceOfStorage, <1>1 DEF StorageRecord
<1>3. x.data = [mem[s].data EXCEPT ![buf[h].offset + i] = b] /\ x.capacity = mem[s].capacity
  BY <1>2 DEF StorageRecord
<1>4. x.data \in Seq(Byte) /\ Len(x.data) = Len(mem[s].data)
  <2>1. buf[h].offset + i \in 1..Len(mem[s].data)
    BY CowTypes, SliceOfStorage, <1>1
  <2> QED BY <1>2, <1>3, <2>1
<1>5. x \in StorageRecord
  BY <1>2, <1>4 DEF StorageRecord
<1>6. mem' = [mem EXCEPT ![s] = x] /\ UNCHANGED <<buf, refs, op, sole>>
  BY DEF WriteByte
<1>7. buf'[h].offset + buf'[h].size <= Len(x.data)
  BY SliceOfStorage, <1>1, <1>4, <1>6
<1> HIDE DEF x
<1> QED BY CowTypes, WriteInPlaceKeeps, <1>1, <1>5, <1>6, <1>7

(* The destructor keeps the invariant. *)
LEMMA DestroyKeeps ==
  ASSUME CowInv, NEW h \in Handle, Destroy(h)
  PROVE  CowInv'
<1>1. CountedBy(buf, refs, Null)'
  BY HandedOn
<1> QED BY CowTypes, HandingOnKeeps, <1>1 DEF Destroy

(* Copy assignment keeps the invariant. *)
LEMMA AssignKeeps ==
  ASSUME CowInv, NEW h \in Handle, NEW g \in Handle, Assign(h, g)
  PROVE  CowInv'
<1>1. CountedBy(buf, refs, Null)'
  BY HandedOn
<1>2. \A e \in Handle : /\ buf[e].buffer = Null => buf[e].size = 0 /\ buf[e].offset = 0
                        /\ buf[e].offset + buf[e].size <= buf[e].offset + buf[e].size
  BY CowTypes DEF CowInv, SlicesFit
<1> QED BY CowTypes, HandingOnKeeps, <1>1, <1>2 DEF Assign

(* Move assignment keeps the invariant. *)
LEMMA MoveKeeps ==
  ASSUME CowInv, NEW h \in Handle, NEW g \in Handle, Move(h, g)
  PROVE  CowInv'
<1>1. CountedBy(buf, refs, Null)'
  BY HandedOn
<1>2. \A e \in Handle : /\ buf[e].buffer = Null => buf[e].size = 0 /\ buf[e].offset = 0
                        /\ buf[e].offset + buf[e].size <= buf[e].offset + buf[e].size
                        /\ 0 + 0 <= buf[e].offset + buf[e].size
  BY CowTypes DEF CowInv, SlicesFit
<1>3. CASE h # g
  <2>1. buf'[h] = buf[g] /\ buf'[g] = Empty /\ \A f \in Handle \ {h, g} : buf'[f] = buf[f]
    BY CowTypes, <1>3 DEF Move, Empty
  <2>2. Idle(h) /\ Idle(g) /\ DeleteUnreferenced(mem) /\ UNCHANGED <<op, sole>>
    BY DEF Move
  <2>3. IF buf[g].buffer = Null THEN buf'[h].size = 0 /\ buf'[h].offset = 0
        ELSE buf'[h].offset + buf'[h].size <= buf[g].offset + buf[g].size
    BY <1>2, <2>1
  <2> QED BY HandingOnKeeps, <1>1, <2>1, <2>2, <2>3
<1>4. CASE h = g
  <2>1. /\ buf'[h].buffer = buf[h].buffer /\ buf'[h].offset = 0 /\ buf'[h].size = 0
        /\ \A f \in Handle \ {h} : buf'[f] = buf[f]
    BY CowTypes, <1>4 DEF Move, Empty
  <2> QED BY HandingOnKeeps, <1>1, <1>2, <1>4, <2>1 DEF Move
<1> QED BY <1>3, <1>4

(* swap keeps the invariant. *)
LEMMA SwapKeeps ==
  ASSUME CowInv, NEW h \in Handle, NEW g \in Handle, Swap(h, g)
  PROVE  CowInv'
<1>1. CountedBy(buf, refs, Null)'
  BY HandedOn
<1>2. \A e \in Handle : /\ buf[e].buffer = Null => buf[e].size = 0 /\ buf[e].offset = 0
                        /\ buf[e].offset + buf[e].size <= buf[e].offset + buf[e].size
  BY CowTypes DEF CowInv, SlicesFit
<1>3. buf'[h] = buf[g] /\ buf'[g] = buf[h] /\ \A f \in Handle \ {h, g} : buf'[f] = buf[f]
  BY CowTypes DEF Swap
<1>4. CowTypeOK'
  BY CowTypes DEF CowTypeOK, Swap
<1>5. Protected'
  BY CowTypes, <1>3 DEF CowInv, Protected, Swap, Idle
<1>6. ExclusiveWhileWriting'
  BY CowTypes, <1>3 DEF CowInv, ExclusiveWhileWriting, Protected, Swap, Idle
<1>7. SlicesFit'
  <2>1. mem' = mem /\ \A e \in Handle : \E f \in Handle : buf'[e] = buf[f]
    BY <1>3 DEF Swap
  <2> QED BY <2>1 DEF CowInv, SlicesFit
<1> QED BY <1>1, <1>4, <1>5, <1>6, <1>7 DEF CowInv

(* Slice keeps the invariant. *)
LEMMA SliceKeeps ==
  ASSUME CowInv, NEW h \in Handle, NEW g \in Handle, NEW offset \in 0..MaxLen, NEW length \in 0..MaxLen,
         Slice(h, g, offset, length)
  PROVE  CowInv'
<1>1. CountedBy(buf, refs, Null)'
  BY HandedOn
<1>2. /\ buf'[h].buffer = buf[g].buffer /\ buf'[h].offset = buf[g].offset + offset
      /\ buf'[h].size = length /\ \A f \in Handle \ {h} : buf'[f] = buf[f]
  BY CowTypes DEF Slice
<1>3. /\ Idle(h) /\ Idle(g) /\ offset + length <= buf[g].size /\ DeleteUnreferenced(mem)
      /\ UNCHANGED <<op, sole>>
  BY DEF Slice
<1>4. buf[g].offset \in Nat /\ buf[g].size \in Nat /\ offset \in Nat /\ length \in Nat
  BY CowTypes, CopyOnWriteAssumption
<1>5. IF buf[g].buffer = Null THEN buf'[h].size = 0 /\ buf'[h].offset = 0
      ELSE buf'[h].offset + buf'[h].size <= buf[g].offset + buf[g].size
  <2>1. CASE buf[g].buffer = Null
    <3>1. buf[g].size = 0 /\ buf[g].offset = 0
      BY <2>1 DEF CowInv, SlicesFit
    <3> QED BY <1>2, <1>3, <1>4, <2>1, <3>1
  <2>2. CASE buf[g].buffer # Null
    BY <1>2, <1>3, <1>4, <2>2
  <2> QED BY <2>1, <2>2
<1>6. CASE h # g
  <2>1. \A e \in Handle : /\ buf[e].buffer = Null => buf[e].size = 0 /\ buf[e].offset = 0
                          /\ buf[e].offset + buf[e].size <= buf[e].offset + buf[e].size
    BY CowTypes DEF CowInv, SlicesFit
  <2>2. buf'[g] = buf[g]
    BY <1>2, <1>6
  <2> QED BY HandingOnKeeps, <1>1, <1>2, <1>3, <1>5, <2>1, <2>2
<1>7. CASE h = g
  BY HandingOnKeeps, <1>1, <1>2, <1>3, <1>5, <1>7
<1> QED BY <1>6, <1>7

(* Every step keeps the invariant, *)
LEMMA CowInvKept ==
  ASSUME CowInv, [Next]_vars
  PROVE  CowInv'
<1>1. CASE UNCHANGED vars
  BY <1>1, StutterKeeps
<1>2. CASE Next
  <2>1. PICK h \in Handle :
        \/ Destroy(h) \/ MutableData(h) \/ WritesDone(h)
        \/ \E operation \in {"SetData", "AppendData", "MutableData"} : Check(h, operation)
        \/ \E d \in Data, capacity \in 0..MaxLen : Construct(h, d, capacity)
        \/ \E d \in Input : \/ SetDataNull(h, d) \/ SetData(h, d)
                            \/ AppendDataNull(h, d) \/ AppendData(h, d)
        \/ \E i \in 1..buf[h].size, b \in Byte : WriteByte(h, i, b)
        \/ \E g \in Handle : \/ Assign(h, g) \/ Move(h, g) \/ Swap(h, g)
                             \/ \E offset, length \in 0..MaxLen :
                                   Slice(h, g, offset, length)
    BY <1>2 DEF Next
  <2> QED BY <2>1, CheckKeeps, WritesDoneKeeps, MutableDataKeeps, ConstructKeeps, SetDataNullKeeps, AppendDataNullKeeps, SetDataKeeps, AppendDataKeeps, WriteByteKeeps, DestroyKeeps,
             AssignKeeps, MoveKeeps, SwapKeeps, SliceKeeps
<1> QED BY <1>1, <1>2

(* it holds initially, *)
LEMMA CowInvStarts ==
  ASSUME Init
  PROVE  CowInv
<1>1. CowTypeOK /\ Protected /\ ExclusiveWhileWriting /\ SlicesFit
  BY DEF Init, CowTypeOK, StorageRecord, Operation, Freed, Empty, Protected,
         ExclusiveWhileWriting, SlicesFit
<1>2. buf \in [Handle -> BufferRecord] /\ refs \in [Storage -> Nat]
  BY DEF Init, Empty, BufferRecord
<1>3. \A s \in Storage : \A h \in Handle : buf[h].buffer # s
  BY CopyOnWriteAssumption DEF Init, Empty
<1>4. \A s \in Storage : Cardinality(Sharing(buf, s)) = 0
  BY <1>3, SharingCounted
<1>5. CountedBy(buf, refs, Null)
  BY <1>2, <1>4, CopyOnWriteAssumption DEF Init, CountedBy
<1> QED BY <1>1, <1>5 DEF CowInv

(* and so it holds always. *)
LEMMA CowInvHolds == Spec => []CowInv
<1>1. Init => CowInv
  BY CowInvStarts
<1>2. CowInv /\ [Next]_vars => CowInv'
  BY CowInvKept
<1> QED BY <1>1, <1>2, PTL DEF Spec

(* Construction, assignment, move, swap, Slice and                         *)
(* UnshareAndEnsureCapacity keep the reference count of every storage      *)
(* equal to the number of CopyOnWriteBuffers that point to it, for any     *)
(* finite set of buffers.                                                  *)
THEOREM StorageCounted == Spec => []RefsCountHandles
<1>1. CowInv => RefsCountHandles
  <2> SUFFICES ASSUME CowInv, NEW s \in Storage
               PROVE  refs[s] = Cardinality({h \in Handle : buf[h].buffer = s})
    BY DEF RefsCountHandles
  <2>1. refs[s] = Cardinality(Sharing(buf, s))
    BY SharingCounted, CopyOnWriteAssumption DEF CowInv, CountedBy
  <2> QED BY <2>1 DEF Sharing
<1> QED BY <1>1, CowInvHolds, PTL

(* From the answer of HasOneRef to the end of the write that it allows, no *)
(* other buffer shares the storage, whatever the other threads do with     *)
(* theirs.                                                                 *)
THEOREM WritersAreAlone == Spec => []ExclusiveWhileWriting
<1>1. CowInv => ExclusiveWhileWriting
  BY DEF CowInv
<1> QED BY <1>1, CowInvHolds, PTL
=============================================================================
