---------------------------- MODULE CircularDeque ----------------------------
(***************************************************************************)
(* base::circular_deque: a deque in one buffer that wraps around, grows    *)
(* when it is full and shrinks when half of it is unused.  A deque is the  *)
(* record of its members; a buffer is a function from the indexes below    *)
(* buffer_.capacity(), one more than capacity(), and a slot that holds no  *)
(* object holds Raw.  Two deques are modelled, so that they can be         *)
(* assigned to one another and swapped.                                    *)
(***************************************************************************)
EXTENDS Naturals, Sequences, FiniteSets, SequencesExt, FiniteSetsExt

CONSTANTS
    Element,
    Raw,
    MaxElements,  \* bound: the elements of the two deques together
    MaxReserve    \* bound: the argument of reserve

ASSUME CircularDequeAssumption == Raw \notin Element

VARIABLES
    deque,    \* the two deques
    sequence  \* history: the sequences that they stand for

dequeVars == <<deque, sequence>>

kCircularBufferInitialCapacity == 3

EmptyBuffer == [i \in {} |-> Raw]
NoElements == [buffer_ |-> EmptyBuffer, begin_ |-> 0, end_ |-> 0]

BufferCapacity(d) == Cardinality(DOMAIN d.buffer_)
capacity(d) == IF BufferCapacity(d) = 0 THEN 0 ELSE BufferCapacity(d) - 1
size(d) == IF d.begin_ <= d.end_ THEN d.end_ - d.begin_
                                 ELSE BufferCapacity(d) - d.begin_ + d.end_

Index(d, i) ==
    LET right_size == BufferCapacity(d) - d.begin_
    IN  IF d.begin_ <= d.end_ \/ i < right_size THEN d.begin_ + i ELSE i - right_size
at(d, i) == d.buffer_[Index(d, i)]

(* What an iterator visits from begin() up to end(). *)
ElementsOf(d) == [i \in 1..size(d) |-> d.buffer_[(d.begin_ + i - 1) % BufferCapacity(d)]]

-----------------------------------------------------------------------------
(* SetCapacityTo, which unwraps the elements into a new buffer. *)
SetCapacityTo(d, new_capacity) ==
    [buffer_ |-> [i \in 0..new_capacity |-> IF i < size(d) THEN at(d, i) ELSE Raw],
     begin_ |-> 0, end_ |-> size(d)]

(* ExpandCapacityIfNecessary if it took the spare slot for room. *)
ExpandCapacityIfNecessary_Full(d, additional_elts) ==
    IF BufferCapacity(d) >= size(d) + additional_elts THEN d
    ELSE SetCapacityTo(d, Max({size(d) + additional_elts, kCircularBufferInitialCapacity,
                               capacity(d) + capacity(d) \div 4}))

ExpandCapacityIfNecessary(d, additional_elts) ==
    IF capacity(d) >= size(d) + additional_elts THEN d
    ELSE SetCapacityTo(d, Max({size(d) + additional_elts, kCircularBufferInitialCapacity,
                               capacity(d) + capacity(d) \div 4}))

ShrinkCapacityIfNecessary(d) ==
    LET sz == size(d)
        new_capacity == Max({kCircularBufferInitialCapacity, sz + sz \div 4})
    IN  IF \/ capacity(d) <= kCircularBufferInitialCapacity
           \/ capacity(d) - sz < sz
           \/ new_capacity >= capacity(d)
        THEN d ELSE SetCapacityTo(d, new_capacity)

(* DestructRange, on the indexes from begin up to end, that may wrap. *)
DestructRange(d, begin, end) ==
    [d EXCEPT !.buffer_ = [i \in DOMAIN @ |->
        IF IF begin <= end THEN begin <= i /\ i < end ELSE begin <= i \/ i < end
        THEN Raw ELSE @[i]]]

ClearRetainCapacity(d) ==
    [DestructRange(d, d.begin_, d.end_) EXCEPT !.begin_ = 0, !.end_ = 0]

reserve(d, new_capacity) ==
    IF new_capacity > capacity(d) THEN SetCapacityTo(d, new_capacity) ELSE d

(* An empty deque keeps begin_ and end_, wherever they are. *)
shrink_to_fit(d) ==
    IF d.begin_ = d.end_ THEN [d EXCEPT !.buffer_ = EmptyBuffer] ELSE SetCapacityTo(d, size(d))

emplace_front(d, v) ==
    LET e == ExpandCapacityIfNecessary(d, 1)
        new_begin == IF e.begin_ = 0 THEN BufferCapacity(e) - 1 ELSE e.begin_ - 1
    IN  [e EXCEPT !.begin_ = new_begin, !.buffer_[new_begin] = v]

emplace_back(d, v) ==
    LET e == ExpandCapacityIfNecessary(d, 1)
    IN  [e EXCEPT !.buffer_[e.end_] = v,
                  !.end_ = IF @ = BufferCapacity(e) - 1 THEN 0 ELSE @ + 1]

pop_front(d) ==
    LET past == d.begin_ + 1
    IN  ShrinkCapacityIfNecessary(
            [d EXCEPT !.buffer_[d.begin_] = Raw,
                      !.begin_ = IF past = BufferCapacity(d) THEN 0 ELSE past])

pop_back(d) ==
    LET last == IF d.end_ = 0 THEN BufferCapacity(d) - 1 ELSE d.end_ - 1
    IN  ShrinkCapacityIfNecessary([d EXCEPT !.buffer_[last] = Raw, !.end_ = last])

PushAll(d, items) == FoldLeft(emplace_back, d, items)

assign(d, items) == PushAll(ClearRetainCapacity(d), items)

(* Both versions of resize; the elements it adds are copies of v. *)
resize(d, count, v) ==
    IF count > size(d)
    THEN PushAll(ExpandCapacityIfNecessary(d, count - size(d)), [i \in 1..(count - size(d)) |-> v])
    ELSE IF count = size(d) THEN d
    ELSE LET new_end == (d.begin_ + count) % BufferCapacity(d)
         IN  ShrinkCapacityIfNecessary([DestructRange(d, new_end, d.end_) EXCEPT !.end_ = new_end])

-----------------------------------------------------------------------------
(* Elements move one by one, the k-th from index from[k] to index to[k]. *)
MoveEach(d, from, to) ==
    [d EXCEPT !.buffer_ =
        FoldLeft(LAMBDA buf, k : [buf EXCEPT ![to[k]] = buf[from[k]], ![from[k]] = Raw],
                 @, [k \in DOMAIN from |-> k])]

(* MakeRoomFor: opens a hole of count slots at offset, moving what is      *)
(* behind it to the right, the last element first.                         *)
MakeRoomFor(d, offset, count) ==
    LET e == ExpandCapacityIfNecessary(d, count)
        Pos(i) == (e.begin_ + i) % BufferCapacity(e)
        sz == size(e)
    IN  [MoveEach(e, [k \in 1..(sz - offset) |-> Pos(sz - k)],
                    [k \in 1..(sz - offset) |-> Pos(sz + count - k)])
            EXCEPT !.end_ = Pos(sz + count)]

PlaceItems(d, offset, items) ==
    [d EXCEPT !.buffer_ = FoldLeft(
        LAMBDA buf, k : [buf EXCEPT ![(d.begin_ + offset + k - 1) % BufferCapacity(d)] = items[k]],
        @, [k \in 1..Len(items) |-> k])]

(* insert(pos, first, last); at the front the hole is before begin_. *)
insert_range(d, offset, items) ==
    IF items = <<>> THEN d
    ELSE IF offset = 0
    THEN LET e == ExpandCapacityIfNecessary(d, Len(items))
             n == BufferCapacity(e)
         IN  PlaceItems([e EXCEPT !.begin_ = (@ + n - Len(items)) % n], 0, items)
    ELSE PlaceItems(MakeRoomFor(d, offset, Len(items)), offset, items)

(* insert(pos, count, value), and emplace for a count of one. *)
insert_count(d, offset, count, v) ==
    LET items == [i \in 1..count |-> v]
    IN  IF offset = 0
        THEN FoldLeft(emplace_front, ExpandCapacityIfNecessary(d, count), items)
        ELSE IF count = 0 THEN d ELSE PlaceItems(MakeRoomFor(d, offset, count), offset, items)

(* erase of the elements from offset first up to last; it never shrinks. *)
erase(d, first, last) ==
    LET Pos(i) == (d.begin_ + i) % BufferCapacity(d)
        e == DestructRange(d, Pos(first), Pos(last))
        sz == size(d)
    IN  IF first = last THEN d
        ELSE IF first = 0 THEN [e EXCEPT !.begin_ = Pos(last)]
        ELSE [MoveEach(e, [k \in 1..(sz - last) |-> Pos(last + k - 1)],
                        [k \in 1..(sz - last) |-> Pos(first + k - 1)])
                EXCEPT !.end_ = Pos(first + sz - last)]

-----------------------------------------------------------------------------
Deques == {1, 2}
Stored == Len(sequence[1]) + Len(sequence[2])

DequeBecomes(x, d, s) ==
    /\ deque' = [deque EXCEPT ![x] = d]
    /\ sequence' = [sequence EXCEPT ![x] = s]

Push(x) == \E v \in Element :
    /\ Stored < MaxElements
    /\ \/ DequeBecomes(x, emplace_front(deque[x], v), <<v>> \o sequence[x])
       \/ DequeBecomes(x, emplace_back(deque[x], v), Append(sequence[x], v))

Pop(x) ==
    /\ sequence[x] # <<>>
    /\ \/ DequeBecomes(x, pop_front(deque[x]), Tail(sequence[x]))
       \/ DequeBecomes(x, pop_back(deque[x]), Front(sequence[x]))

Insert(x) == \E offset \in 0..Len(sequence[x]), n \in 0..2, v, w \in Element :
    LET items == SubSeq(<<v, w>>, 1, n)
        copies == SubSeq(<<v, v>>, 1, n)
        before == SubSeq(sequence[x], 1, offset)
        after == SubSeq(sequence[x], offset + 1, Len(sequence[x]))
    IN  /\ Stored + n <= MaxElements
        /\ \/ DequeBecomes(x, insert_range(deque[x], offset, items), before \o items \o after)
           \/ DequeBecomes(x, insert_count(deque[x], offset, n, v), before \o copies \o after)

Erase(x) == \E first \in 0..Len(sequence[x]) : \E last \in first..Len(sequence[x]) :
    DequeBecomes(x, erase(deque[x], first, last),
            SubSeq(sequence[x], 1, first) \o SubSeq(sequence[x], last + 1, Len(sequence[x])))

Resize(x) == \E count \in 0..(Len(sequence[x]) + MaxElements - Stored), v \in Element :
    DequeBecomes(x, resize(deque[x], count, v),
            [i \in 1..count |-> IF i <= Len(sequence[x]) THEN sequence[x][i] ELSE v])

Allocate(x) ==
    \/ DequeBecomes(x, shrink_to_fit(deque[x]), sequence[x])
    \/ \E n \in 0..MaxReserve : DequeBecomes(x, reserve(deque[x], n), sequence[x])
    \/ DequeBecomes(x, [ClearRetainCapacity(deque[x]) EXCEPT !.buffer_ = EmptyBuffer], <<>>)

(* circular_deque(const circular_deque&), of y: x is a new deque. *)
CopyConstruct(x, y) ==
    /\ x # y /\ 2 * Len(sequence[y]) <= MaxElements
    /\ LET fresh == [buffer_ |-> [i \in 0..size(deque[y]) |-> Raw], begin_ |-> 0, end_ |-> 0]
       IN  DequeBecomes(x, assign(fresh, ElementsOf(deque[y])), sequence[y])

(* operator=(const circular_deque&), from y to x. *)
CopyAssign(x, y) ==
    /\ x # y /\ 2 * Len(sequence[y]) <= MaxElements
    /\ DequeBecomes(x, assign(reserve(deque[x], size(deque[y])), ElementsOf(deque[y])),
                    sequence[y])

(* operator=(circular_deque&&), from y to x. *)
MoveAssign(x, y) ==
    /\ x # y
    /\ deque' = [deque EXCEPT ![x] = deque[y], ![y] = NoElements]
    /\ sequence' = [sequence EXCEPT ![x] = sequence[y], ![y] = <<>>]

SwapDeques ==
    /\ deque' = <<deque[2], deque[1]>>
    /\ sequence' = <<sequence[2], sequence[1]>>

DequeInit == deque = <<NoElements, NoElements>> /\ sequence = <<<<>>, <<>>>>

(* What happens to the second deque happens to the first after a swap. *)
DequeNext ==
    \/ Push(1) \/ Pop(1) \/ Insert(1) \/ Erase(1) \/ Resize(1) \/ Allocate(1)
    \/ \E x, y \in Deques : CopyConstruct(x, y) \/ CopyAssign(x, y) \/ MoveAssign(x, y)
    \/ SwapDeques

DequeSpec == DequeInit /\ [][DequeNext]_dequeVars

-----------------------------------------------------------------------------
(* However the buffer wraps, grows and shrinks, a deque holds the sequence *)
(* of its elements, in order, in room that is never quite full; and every  *)
(* other slot of its buffer is raw: no element is destroyed that is in the *)
(* deque, and none that left it stays behind.                              *)
CircularDequeIsSequence ==
    \A x \in Deques :
        LET d == deque[x] IN
        /\ size(d) = Len(sequence[x])
        /\ \A i \in 0..(size(d) - 1) : at(d, i) = sequence[x][i + 1]
        /\ \A j \in DOMAIN d.buffer_ :
              (\A i \in 0..(size(d) - 1) : Index(d, i) # j) => d.buffer_[j] = Raw
        /\ size(d) <= capacity(d)
=============================================================================
