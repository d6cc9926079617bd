--------------------------- MODULE SwapQueueOrders ---------------------------
(***************************************************************************)
(* The memory orders of webrtc::SwapQueue.  The queue's slots are ordinary *)
(* memory: the two threads' accesses of a slot must be ordered by the      *)
(* acquire loads and the release modifications of num_elements_.           *)
(*                                                                         *)
(* changes is the modification order of num_elements_, without what both   *)
(* threads have seen superseded.  A load may return any value from the one *)
(* that its thread saw last on; a read-modify-write takes the last one.    *)
(* Every modification is a read-modify-write, so that an acquire load      *)
(* synchronizes with all the releases before the value it returns: these   *)
(* are carried by it.  Of the accesses of a slot by a thread only the last *)
(* one matters, as the earlier ones are before it.                         *)
(***************************************************************************)
EXTENDS Naturals, Sequences, SequencesExt

CONSTANTS
    QueueSize,     \* queue_.size()
    MaxUnseen      \* bound: the changes that one of the threads has not seen

ASSUME OrdersAssumption == QueueSize \in Nat \ {0} /\ MaxUnseen \in Nat

VARIABLES
    changes,   \* the values, each with the slots whose last access by a thread it carries
    seen,      \* the position in changes of the value each thread saw last
    ordered,   \* the slots whose last access by the other thread is before this one's next step
    orderPc,
    nextIndex  \* next_write_index_ and next_read_index_

orderVars == <<changes, seen, ordered, orderPc, nextIndex>>

Producer == "producer"
Consumer == "consumer"
Slots == 0..(QueueSize - 1)
Other(t) == IF t = Producer THEN Consumer ELSE Producer
Newest == Last(changes)

(* The changes are cs and the threads have seen them up to at. *)
Observed(cs, at) ==
    LET first == IF at[Producer] < at[Consumer] THEN at[Producer] ELSE at[Consumer]
    IN  /\ changes' = SubSeq(cs, first, Len(cs))
        /\ seen' = [t \in {Producer, Consumer} |-> at[t] - first + 1]

(* A thread's own modification is one it has seen. *)
Modified(t, change) ==
    Observed(Append(changes, change), [seen EXCEPT ![t] = Len(changes) + 1])

-----------------------------------------------------------------------------
(* The acquire load with which Insert and Remove begin. *)
LoadCount(t) ==
    /\ orderPc[t] = "idle"
    /\ \E i \in seen[t]..Len(changes) :
          /\ Observed(changes, [seen EXCEPT ![t] = i])
          /\ ordered' = [ordered EXCEPT ![t] = @ \cup changes[i].carries[Other(t)]]
          /\ orderPc' = [orderPc EXCEPT ![t] =
                IF changes[i].num = (IF t = Producer THEN QueueSize ELSE 0)
                THEN "idle" ELSE "swap"]
    /\ UNCHANGED nextIndex

(* The load of SizeAtLeast. *)
LoadSizeAtLeast ==
    /\ orderPc[Consumer] = "idle"
    /\ \E i \in seen[Consumer]..Len(changes) :
          /\ Observed(changes, [seen EXCEPT ![Consumer] = i])
          /\ ordered' = [ordered EXCEPT ![Consumer] = @ \cup changes[i].carries[Producer]]
    /\ UNCHANGED <<orderPc, nextIndex>>

(* swap accesses the slot: nothing carries this access yet. *)
SwapSlot(t) ==
    /\ orderPc[t] = "swap"
    /\ changes' = [i \in DOMAIN changes |-> [changes[i] EXCEPT !.carries[t] = @ \ {nextIndex[t]}]]
    /\ ordered' = [ordered EXCEPT ![Other(t)] = @ \ {nextIndex[t]}]
    /\ orderPc' = [orderPc EXCEPT ![t] = "count"]
    /\ UNCHANGED <<seen, nextIndex>>

(* What a release modification carries: also all that is before it. *)
Published(t) == [Newest.carries EXCEPT ![t] = Slots, ![Other(t)] = @ \cup ordered[t]]

(* The fetch_add of Insert and the fetch_sub of Remove, then the index. *)
CountSlot(t) ==
    /\ orderPc[t] = "count"
    /\ Len(changes) <= MaxUnseen
    /\ Modified(t, [num |-> IF t = Producer THEN Newest.num + 1 ELSE Newest.num - 1,
                    carries |-> Published(t)])
    /\ orderPc' = [orderPc EXCEPT ![t] = "idle"]
    /\ nextIndex' = [nextIndex EXCEPT ![t] = IF @ + 1 = QueueSize THEN 0 ELSE @ + 1]
    /\ UNCHANGED ordered

(* Clear by a store, which what was released before does not reach past. *)
ClearedCount_Store == [num |-> 0, carries |-> [t \in {Producer, Consumer} |-> {}]]
(* Clear's relaxed exchange. *)
ClearedCount == [num |-> 0, carries |-> Newest.carries]

ClearCount ==
    /\ orderPc[Consumer] = "idle"
    /\ Len(changes) <= MaxUnseen
    /\ Modified(Consumer, ClearedCount)
    /\ nextIndex' = [nextIndex EXCEPT ![Consumer] =
          IF @ + Newest.num >= QueueSize THEN @ + Newest.num - QueueSize ELSE @ + Newest.num]
    /\ UNCHANGED <<ordered, orderPc>>

-----------------------------------------------------------------------------
(* The queue was built before the threads got to know it. *)
OrdersInit ==
    /\ changes = <<[num |-> 0, carries |-> [t \in {Producer, Consumer} |-> Slots]]>>
    /\ seen = [t \in {Producer, Consumer} |-> 1]
    /\ ordered = [t \in {Producer, Consumer} |-> Slots]
    /\ orderPc = [t \in {Producer, Consumer} |-> "idle"]
    /\ nextIndex = [t \in {Producer, Consumer} |-> 0]

OrdersNext ==
    \/ \E t \in {Producer, Consumer} : LoadCount(t) \/ SwapSlot(t) \/ CountSlot(t)
    \/ LoadSizeAtLeast \/ ClearCount

OrdersSpec == OrdersInit /\ [][OrdersNext]_orderVars

-----------------------------------------------------------------------------
(* The slots are free of data races: whenever a thread is about to swap a  *)
(* slot, the other thread's last access of that slot is ordered before it, *)
(* whichever values of num_elements_ the loads may return, and although    *)
(* Clear's exchange is relaxed ("Relaxed memory ordering is sufficient     *)
(* since the dropped elements are not accessed").                          *)
NoUnorderedAccess ==
    \A t \in {Producer, Consumer} : orderPc[t] = "swap" => nextIndex[t] \in ordered[t]
=============================================================================
