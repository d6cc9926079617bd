----------------------- MODULE LazilyDeallocatedDeque -----------------------
(***************************************************************************)
(* base::sequence_manager::internal::LazilyDeallocatedDeque, the queue of  *)
(* tasks of a sequence: a list of rings, each larger than the one before,  *)
(* of which the emptied ones are dropped, and which MaybeShrinkQueue       *)
(* copies into one ring now and then.                                      *)
(***************************************************************************)
EXTENDS Naturals, Sequences, FiniteSets, SequencesExt, FiniteSetsExt

CONSTANTS
    Task,
    NoTask,            \* what a slot of a ring holds that holds no object
    kMinimumRingSize,  \* 4 in the code
    kReclaimThreshold, \* 16 in the code
    MaxTasks           \* bound: the length of the queue

ASSUME LazyDequeAssumption ==
    NoTask \notin Task /\ kMinimumRingSize \in Nat \ {0, 1} /\ kReclaimThreshold \in Nat

VARIABLES
    rings,      \* the rings, from head_ to tail_
    size_,
    max_size_,
    resizeDue,  \* whether next_resize_time_ has passed
    tasks       \* history: the sequence that the queue stands for

lazyVars == <<rings, size_, max_size_, resizeDue, tasks>>

-----------------------------------------------------------------------------
NewRing(n) ==
    [capacity_ |-> n, front_index_ |-> 0, back_index_ |-> 0, data_ |-> [i \in 0..(n - 1) |-> NoTask]]

CircularIncrement(r, i) == IF i + 1 = r.capacity_ THEN 0 ELSE i + 1
CircularDecrement(r, i) == IF i = 0 THEN r.capacity_ - 1 ELSE i - 1

RingEmpty(r) == r.back_index_ = r.front_index_

CanPush(r) == r.front_index_ # CircularIncrement(r, r.back_index_)

RingPushFront(r, t) ==
    [r EXCEPT !.data_[r.front_index_] = t, !.front_index_ = CircularDecrement(r, @)]

RingPushBack(r, t) ==
    LET i == CircularIncrement(r, r.back_index_)
    IN  [r EXCEPT !.back_index_ = i, !.data_[i] = t]

RingFront(r) == r.data_[CircularIncrement(r, r.front_index_)]

RingPopFront(r) ==
    LET i == CircularIncrement(r, r.front_index_)
    IN  [r EXCEPT !.front_index_ = i, !.data_[i] = NoTask]

(* The elements of a ring, as Iterator visits them. *)
Elements(r) ==
    LET n == (r.back_index_ + r.capacity_ - r.front_index_) % r.capacity_
    IN  [k \in 1..n |-> r.data_[(r.front_index_ + k) % r.capacity_]]

Allocated == IF rings = <<>> THEN <<NewRing(kMinimumRingSize)>> ELSE rings

Grown == size_' = size_ + 1 /\ max_size_' = Max({max_size_, size_ + 1}) /\ UNCHANGED resizeDue

PushTaskFront(t) ==
    /\ size_ < MaxTasks
    /\ LET rs == IF CanPush(Allocated[1]) THEN Allocated
                 ELSE <<NewRing(kMinimumRingSize)>> \o Allocated
       IN  rings' = [rs EXCEPT ![1] = RingPushFront(@, t)]
    /\ Grown
    /\ tasks' = <<t>> \o tasks

PushTaskBack(t) ==
    /\ size_ < MaxTasks
    /\ LET n == Last(Allocated).capacity_
           rs == IF CanPush(Last(Allocated)) THEN Allocated
                 ELSE Append(Allocated, NewRing(2 + n + n \div 2))
       IN  rings' = [rs EXCEPT ![Len(rs)] = RingPushBack(@, t)]
    /\ Grown
    /\ tasks' = Append(tasks, t)

(* pop_front: a ring that it empties is dropped unless it is the last one. *)
PoppedRings(rs) ==
    LET r == RingPopFront(rs[1])
    IN  IF RingEmpty(r) /\ Len(rs) > 1 THEN Tail(rs) ELSE [rs EXCEPT ![1] = r]

PopTask ==
    /\ size_ > 0
    /\ rings' = PoppedRings(rings)
    /\ size_' = size_ - 1
    /\ tasks' = Tail(tasks)
    /\ UNCHANGED <<max_size_, resizeDue>>

(* SetCapacity: the tasks move to a new ring, one by one from the front. *)
SetCapacity(new_capacity) ==
    LET Move(m, k) == [from |-> PoppedRings(m.from), to |-> RingPushBack(m.to, RingFront(m.from[1]))]
        moved == FoldLeft(Move, [from |-> rings, to |-> NewRing(new_capacity)],
                          [k \in 1..size_ |-> k])
    IN  rings' = <<moved.to>>

(* MaybeShrinkQueue if it took the largest size for the capacity. *)
NewCapacity_NoSpare == Max({max_size_, kMinimumRingSize})
NewCapacity == Max({max_size_ + 1, kMinimumRingSize})

MaybeShrinkQueue ==
    /\ rings # <<>> /\ resizeDue
    /\ max_size_' = size_
    /\ IF NewCapacity + kReclaimThreshold >= FoldLeft(LAMBDA n, r : n + r.capacity_, 0, rings)
       THEN UNCHANGED <<rings, resizeDue>>
       ELSE SetCapacity(NewCapacity) /\ resizeDue' = FALSE
    /\ UNCHANGED <<size_, tasks>>

ResizeTimePasses == ~resizeDue /\ resizeDue' = TRUE /\ UNCHANGED <<rings, size_, max_size_, tasks>>

ClearTasks ==
    /\ rings' = <<>> /\ size_' = 0 /\ tasks' = <<>>
    /\ UNCHANGED <<max_size_, resizeDue>>

LazyInit == rings = <<>> /\ size_ = 0 /\ max_size_ = 0 /\ resizeDue = TRUE /\ tasks = <<>>

LazyNext ==
    \/ \E t \in Task : PushTaskFront(t) \/ PushTaskBack(t)
    \/ PopTask \/ MaybeShrinkQueue \/ ResizeTimePasses \/ ClearTasks

LazySpec == LazyInit /\ [][LazyNext]_lazyVars

-----------------------------------------------------------------------------
(* Whichever rings were added, dropped and merged, an iteration over them  *)
(* finds the tasks in the order in which they were queued; no ring but a   *)
(* last one is empty (which would end the iteration, and front() would     *)
(* read it); slots that hold no task are raw; and the size MaybeShrink     *)
(* makes room for is at least the queue's size.                            *)
LazyDequeIsSequence ==
    /\ FoldLeft(LAMBDA s, r : s \o Elements(r), <<>>, rings) = tasks
    /\ size_ = Len(tasks) /\ max_size_ >= size_
    /\ \A i \in DOMAIN rings :
          /\ RingEmpty(rings[i]) => Len(rings) = 1
          /\ Cardinality({j \in DOMAIN rings[i].data_ : rings[i].data_[j] # NoTask})
                = Len(Elements(rings[i]))
=============================================================================
