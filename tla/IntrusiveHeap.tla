---------------------------- MODULE IntrusiveHeap ----------------------------
(***************************************************************************)
(* base::IntrusiveHeap: a max-heap whose elements hold a HeapHandle that   *)
(* the heap keeps at the element's index, so that elements can be removed  *)
(* and updated wherever they are.  Elements are repaired by moving a hole  *)
(* through the heap.  Less compares the elements' keys.                    *)
(***************************************************************************)
EXTENDS Naturals, Sequences, FiniteSets, FiniteSetsExt

CONSTANTS Item, Key, Invalid

ASSUME IntrusiveHeapAssumption == Key \subseteq Nat /\ Invalid \notin Nat

VARIABLES
    heap_,   \* a function from 0..size - 1 to Item
    handle,  \* the HeapHandle of each item
    key,     \* what Compare compares
    members  \* history: the items that were put in and not taken out

heapVars == <<heap_, handle, key, members>>

NoItems == [i \in {} |-> Invalid]

-----------------------------------------------------------------------------
(* A heap under repair: the array, the handles and the keys. *)
Heap(a, h, k) == [a |-> a, h |-> h, k |-> k]
Size(s) == Cardinality(DOMAIN s.a)
Less(s, x, y) == s.k[x] < s.k[y]

ParentIndex(i) == (i - 1) \div 2
LeftIndex(i) == 2 * i + 1

MakeHole(s, pos) == [s EXCEPT !.h[s.a[pos]] = Invalid]

(* FillHole, with element x; MoveHole fills the old hole with an element   *)
(* of the heap and leaves a hole there.  The hole may be one past the end. *)
FillHole(s, pos, x) ==
    [s EXCEPT !.a = [i \in DOMAIN @ \cup {pos} |-> IF i = pos THEN x ELSE @[i]],
              !.h[x] = pos]

MoveHole(s, new_hole_pos, old_hole_pos) == FillHole(s, old_hole_pos, s.a[new_hole_pos])

RECURSIVE MoveHoleUpAndFill(_, _, _)
MoveHoleUpAndFill(s, hole_pos, x) ==
    IF hole_pos # 0 /\ Less(s, s.a[ParentIndex(hole_pos)], x)
    THEN MoveHoleUpAndFill(MoveHole(s, ParentIndex(hole_pos), hole_pos), ParentIndex(hole_pos), x)
    ELSE FillHole(s, hole_pos, x)

(* The larger child of hole_pos below n. *)
Largest(s, hole_pos, n) ==
    LET left == LeftIndex(hole_pos)
    IN  IF left + 1 < n /\ Less(s, s.a[left], s.a[left + 1]) THEN left + 1 ELSE left

RECURSIVE MoveHoleDownAndFill(_, _, _, _)
MoveHoleDownAndFill(s, hole_pos, x, leaf) ==
    LET n == IF leaf THEN Size(s) - 1 ELSE Size(s)
        largest == Largest(s, hole_pos, n)
    IN  IF LeftIndex(hole_pos) < n /\ (leaf \/ Less(s, x, s.a[largest]))
        THEN MoveHoleDownAndFill(MoveHole(s, largest, hole_pos), largest, x, leaf)
        ELSE IF leaf THEN MoveHoleUpAndFill(s, hole_pos, x) ELSE FillHole(s, hole_pos, x)

(* take and erase if the leaf that fills the hole never moved up. *)
Erased_NoMoveUp(s, pos) ==
    LET last == Size(s) - 1
        h == MakeHole(s, pos)
        r == IF pos = last THEN h ELSE MoveHoleDownAndFill(MakeHole(h, last), pos, s.a[last], FALSE)
    IN  [r EXCEPT !.a = [i \in 0..(last - 1) |-> @[i]]]

(* take and erase: the last leaf fills the hole, then the array shrinks. *)
Erased(s, pos) ==
    LET last == Size(s) - 1
        h == MakeHole(s, pos)
        r == IF pos = last THEN h ELSE MoveHoleDownAndFill(MakeHole(h, last), pos, s.a[last], TRUE)
    IN  [r EXCEPT !.a = [i \in 0..(last - 1) |-> @[i]]]

(* Update, of the element at pos, whose key may have changed. *)
Updated(s, pos) ==
    LET x == s.a[pos]
    IN  IF pos > 0 /\ ~Less(s, x, s.a[ParentIndex(pos)])
        THEN MoveHoleUpAndFill(MakeHole(s, pos), pos, x)
        ELSE MoveHoleDownAndFill(MakeHole(s, pos), pos, x, FALSE)

(* ReplaceImpl, of the element at pos by x. *)
Replaced(s, pos, x) ==
    IF ~Less(s, x, s.a[pos])
    THEN MoveHoleUpAndFill(MakeHole(s, pos), pos, x)
    ELSE MoveHoleDownAndFill(MakeHole(s, pos), pos, x, FALSE)

-----------------------------------------------------------------------------
Current == Heap(heap_, handle, key)
WithKey(x, k) == Heap(heap_, handle, [key EXCEPT ![x] = k])

(* The heap becomes s, of the elements inside; the key of an element that  *)
(* leaves no longer matters.                                               *)
HeapBecomes(s, inside) ==
    /\ heap_' = s.a /\ handle' = s.h
    /\ key' = [x \in Item |-> IF x \in inside THEN s.k[x] ELSE Min(Key)]
    /\ members' = inside

HeapInsert(x, k) ==
    /\ x \notin members
    /\ HeapBecomes(MoveHoleUpAndFill(WithKey(x, k), Size(Current), x), members \cup {x})

(* take, erase, pop and take_top; an element is found by its handle. *)
HeapErase(x) ==
    /\ x \in members
    /\ HeapBecomes(Erased(Current, handle[x]), members \ {x})

HeapUpdate(x, k) ==
    /\ x \in members
    /\ HeapBecomes(Updated(WithKey(x, k), handle[x]), members)

HeapReplace(x, y, k) ==
    /\ x \in members /\ y \notin members
    /\ HeapBecomes(Replaced(WithKey(y, k), handle[x], y), (members \ {x}) \cup {y})

(* ReplaceTop, of a heap that is not empty: the hole only moves down. *)
HeapReplaceTop(y, k) ==
    /\ members # {} /\ y \notin members
    /\ HeapBecomes(MoveHoleDownAndFill(MakeHole(WithKey(y, k), 0), 0, y, FALSE),
                   (members \ {heap_[0]}) \cup {y})

HeapClear ==
    LET cleared == [x \in Item |-> IF \E i \in DOMAIN heap_ : heap_[i] = x THEN Invalid ELSE handle[x]]
    IN  HeapBecomes(Heap(NoItems, cleared, key), {})

HeapInit ==
    /\ heap_ = NoItems /\ handle = [x \in Item |-> Invalid]
    /\ key = [x \in Item |-> Min(Key)] /\ members = {}

HeapNext ==
    \/ \E x \in Item, k \in Key :
          \/ HeapInsert(x, k) \/ HeapUpdate(x, k) \/ HeapReplaceTop(x, k)
          \/ \E y \in Item : HeapReplace(x, y, k)
    \/ \E x \in Item : HeapErase(x)
    \/ HeapClear

HeapSpec == HeapInit /\ [][HeapNext]_heapVars

-----------------------------------------------------------------------------
(* After every operation no element is above its parent, so that the top   *)
(* is a maximum; the heap holds the elements that were put in and not yet  *)
(* taken out, each once; and each is found where its handle says, while    *)
(* the handle of an element that left is invalid.                          *)
HeapOrderedAndHandled ==
    /\ \A i \in DOMAIN heap_ : i > 0 => ~Less(Current, heap_[ParentIndex(i)], heap_[i])
    /\ {heap_[i] : i \in DOMAIN heap_} = members
    /\ \A i \in DOMAIN heap_ : handle[heap_[i]] = i
    /\ \A x \in Item \ members : handle[x] = Invalid
=============================================================================
