---------------------------- MODULE ObserverList ----------------------------
(***************************************************************************)
(* base::ObserverList, iterated by a range-based for whose body calls an   *)
(* observer.  The observer may add and remove observers, clear the list,   *)
(* iterate over it again, and destroy it.                                  *)
(***************************************************************************)
EXTENDS Naturals, Sequences, FiniteSets, SequencesExt, FiniteSetsExt

CONSTANTS
    Observer,
    NoObserver,     \* what an adapter that is marked for removal holds
    MaxIterations,  \* bound: how deep iterations nest
    MaxStored       \* bound: how many adapters are stored

ASSUME ObserverListAssumption == NoObserver \notin Observer

VARIABLES
    policy_,           \* "ALL" or "EXISTING_ONLY"
    observers_,        \* a sequence: index_ is a position of it, one higher than in the code
    observers_count_,
    live_iterators_,   \* the iterations on the stack, the innermost last
    observersDead      \* whether the list was destroyed

observerVars == <<policy_, observers_, observers_count_, live_iterators_, observersDead>>

-----------------------------------------------------------------------------
(* An observer leaves the list: no iteration owes it a call any more. *)
NotDue(gone) == [i \in DOMAIN live_iterators_ |->
                    [live_iterators_[i] EXCEPT !.due = @ \ gone]]

HasObserver(o) == o \in ToSet(observers_)

AddObserver(o) ==
    /\ ~observersDead /\ ~HasObserver(o) /\ Len(observers_) < MaxStored
    /\ observers_count_' = observers_count_ + 1
    /\ observers_' = Append(observers_, o)
    /\ live_iterators_' = [i \in DOMAIN live_iterators_ |->
                              [live_iterators_[i] EXCEPT !.late = @ \cup {o}]]
    /\ UNCHANGED <<policy_, observersDead>>

MarkForRemoval(gone) ==
    [i \in DOMAIN observers_ |-> IF observers_[i] \in gone THEN NoObserver ELSE observers_[i]]

(* What is left in the list if it erased always. *)
Without_Erases(gone) == SelectSeq(observers_, LAMBDA o : o \notin gone)

(* What is left in the list: adapters stay in place while it is iterated. *)
Without(gone) ==
    IF live_iterators_ = <<>> THEN SelectSeq(observers_, LAMBDA o : o \notin gone)
                              ELSE MarkForRemoval(gone)

RemoveObserver(o) ==
    /\ ~observersDead /\ HasObserver(o)
    /\ observers_count_' = observers_count_ - 1
    /\ observers_' = Without({o})
    /\ live_iterators_' = NotDue({o})
    /\ UNCHANGED <<policy_, observersDead>>

ClearObservers ==
    /\ ~observersDead
    /\ observers_count_' = 0
    /\ observers_' = Without(Observer)
    /\ live_iterators_' = NotDue(Observer)
    /\ UNCHANGED <<policy_, observersDead>>

(* One past the last position that an iteration with max_index_ visits. *)
clamped_max_index(max_index) == Min({max_index, Len(observers_)}) + 1

EnsureValidIndex(index, max_index) ==
    Min({i \in index..clamped_max_index(max_index) :
            i = clamped_max_index(max_index) \/ observers_[i] # NoObserver})

(* ~Iter: the last iterator compacts the list. *)
IterDestroyed(outer) ==
    /\ live_iterators_' = outer
    /\ observers_' = IF outer = <<>> /\ ~observersDead
                     THEN SelectSeq(observers_, LAMBDA o : o # NoObserver) ELSE observers_

(* The loop goes on at index: it calls the observer there, or ends. *)
CallObserverAt(index, iter, outer) ==
    /\ IF index = clamped_max_index(iter.max_index_)
       THEN IterDestroyed(outer)
       ELSE /\ live_iterators_' = Append(outer, [iter EXCEPT !.index_ = index,
                                                             !.due = @ \ {observers_[index]}])
            /\ UNCHANGED observers_
    /\ UNCHANGED <<policy_, observers_count_, observersDead>>

(* A loop over the list begins; begin() of an empty list is end(). *)
Iterate ==
    /\ ~observersDead /\ observers_ # <<>> /\ Len(live_iterators_) < MaxIterations
    /\ LET iter == [index_ |-> 1,
                    max_index_ |-> IF policy_ = "ALL" THEN MaxStored ELSE Len(observers_),
                    due |-> ToSet(observers_) \ {NoObserver}, late |-> {}]
       IN  CallObserverAt(EnsureValidIndex(1, iter.max_index_), iter, live_iterators_)

(* The observer that the innermost loop called returns, and the loop       *)
(* increments its iterator.  The iterators of a dead list are at the end.  *)
ObserverReturns ==
    /\ live_iterators_ # <<>>
    /\ LET iter == Last(live_iterators_)
           outer == Front(live_iterators_)
       IN  IF observersDead
           THEN /\ IterDestroyed(outer)
                /\ UNCHANGED <<policy_, observers_count_, observersDead>>
           ELSE CallObserverAt(EnsureValidIndex(iter.index_ + 1, iter.max_index_), iter, outer)

(* ~ObserverList invalidates the iterators that are left. *)
DestroyObserverList ==
    /\ ~observersDead
    /\ observersDead' = TRUE
    /\ observers_' = <<>> /\ observers_count_' = 0
    /\ UNCHANGED <<policy_, live_iterators_>>

ObserverInit ==
    /\ policy_ \in {"ALL", "EXISTING_ONLY"} /\ observers_ = <<>> /\ observers_count_ = 0
    /\ live_iterators_ = <<>> /\ observersDead = FALSE

ObserverNext ==
    \/ \E o \in Observer : AddObserver(o) \/ RemoveObserver(o)
    \/ ClearObservers
    \/ Iterate
    \/ ObserverReturns
    \/ DestroyObserverList

ObserverSpec == ObserverInit /\ [][ObserverNext]_observerVars

-----------------------------------------------------------------------------
(* Whatever the observers do to the list, an iteration calls every         *)
(* observer that was in the list when it began and was not removed since:  *)
(* those it has not called yet lie ahead of its index.  Under              *)
(* EXISTING_ONLY, "observers added while sending out notification are not  *)
(* notified".                                                              *)
ObserversAllNotified ==
    ~observersDead => \A k \in DOMAIN live_iterators_ :
        LET iter == live_iterators_[k]
        IN  /\ \A o \in iter.due :
                  \E i \in iter.index_..(clamped_max_index(iter.max_index_) - 1) : observers_[i] = o
            /\ iter.index_ \in DOMAIN observers_
            /\ policy_ = "EXISTING_ONLY" => observers_[iter.index_] \notin iter.late
=============================================================================
