---------------------------- MODULE SigSlotProofs ----------------------------
(***************************************************************************)
(* Proofs about SigSlot, for any number of signals, objects, connections   *)
(* and nested emissions: iterators stay valid and every slot is called     *)
(* once.                                                                   *)
(***************************************************************************)
EXTENDS SigSlot, FiniteSetTheorems, SequenceTheorems, WellFoundedInduction, TLAPS

(* Every iterator is end() or a node of its list. *)
IteratorInv ==
    \A s \in Signal : m_current_iterator[s] \in m_connected_slots[s] \union {End}

(* A signal that is firing is alive, and every connection an emission      *)
(* still owes a call is at or after the signal's iterator.                 *)
DueInv ==
    \A i \in 1..Len(stack) :
        /\ stack[i].signal \in signals
        /\ \A n \in stack[i].due :
              /\ n \in m_connected_slots[stack[i].signal]
              /\ m_current_iterator[stack[i].signal] <= n

(* The innermost emission of a signal has called only nodes before the     *)
(* iterator; an outer one has lost the iterator and makes no more calls.   *)
DoneInv ==
    \A i \in 1..Len(stack) :
        (\A j \in (i + 1)..Len(stack) : stack[j].signal # stack[i].signal)
            => \A n \in stack[i].done : n < m_current_iterator[stack[i].signal]

DispatchInv == TypeOK /\ IteratorInv /\ DueInv /\ DoneInv

-----------------------------------------------------------------------------
(* The position FirstFrom chooses exists and is the least at or after n. *)
LEMMA FirstFromLeast ==
    ASSUME NEW C \in SUBSET Node, NEW n \in Nat, n <= End
    PROVE  /\ FirstFrom(C, n) \in C \union {End}
           /\ FirstFrom(C, n) >= n
           /\ \A k \in C : k >= n => k >= FirstFrom(C, n)
  <1> DEFINE T == {m \in C \union {End} : m >= n}
  <1>1. /\ End \in Nat
        /\ C \subseteq Nat
        /\ \A k \in C : k <= End
    BY BoundsAssumption DEF Node, End
  <1>2. T \subseteq Nat /\ T # {}
    BY Zenon, <1>1
  <1>3. PICK x \in T : \A y \in T : ~ (<<y, x>> \in OpToRel(<, Nat))
    BY Zenon, <1>2, WFMin, NatLessThanWellFounded
  <1>4. \A y \in T : ~ (y < x)
    BY Zenon, <1>2, <1>3 DEF OpToRel
  <1>5. x \in C \union {End} /\ x >= n /\ \A k \in C : k >= n => k >= x
    BY <1>1, <1>2, <1>4
  <1> QED
    BY <1>5 DEF FirstFrom

LEMMA EndIsLast ==
    /\ End \in Nat
    /\ \A n \in Node : n \in Nat /\ n < End
    /\ End \notin Node
  BY BoundsAssumption DEF Node, End

LEMMA InitDispatch == Init => DispatchInv
  BY BoundsAssumption
  DEF Init, DispatchInv, TypeOK, IteratorInv, DueInv, DoneInv, Node, End, Frame

(* Erasing nodes, from wherever, keeps the part of the invariant that is   *)
(* about iterators and emissions.                                          *)
LEMMA ErasePreserves ==
    ASSUME DispatchInv, NEW gone, Erase(gone),
           signals' = signals, pushed' = pushed
    PROVE  /\ m_connected_slots' \in [Signal -> SUBSET (1..pushed)]
           /\ m_current_iterator' \in [Signal -> Node \union {End}]
           /\ stack' \in Seq(Frame)
           /\ IteratorInv' /\ DueInv' /\ DoneInv'
  <1> USE DEF DispatchInv, TypeOK
  <1>1. m_connected_slots' \in [Signal -> SUBSET (1..pushed)]
    BY DEF Erase
  <1>2. 1..pushed \subseteq Node
    BY BoundsAssumption DEF Node
  <1>3. ASSUME NEW s \in Signal
        PROVE  /\ m_current_iterator'[s] \in m_connected_slots'[s] \union {End}
               /\ m_current_iterator'[s] >= m_current_iterator[s]
               /\ \A n \in m_connected_slots'[s] :
                     n >= m_current_iterator[s] => n >= m_current_iterator'[s]
    <2>1. m_current_iterator[s] \in Nat /\ m_current_iterator[s] <= End
      BY EndIsLast
    <2>2. m_connected_slots'[s] = m_connected_slots[s] \ gone
      BY DEF Erase
    <2>3. m_connected_slots[s] \ gone \in SUBSET Node
      BY <1>2
    <2>4. CASE m_current_iterator[s] \in gone
      <3>1. m_current_iterator'[s] =
              FirstFrom(m_connected_slots[s] \ gone, m_current_iterator[s])
        BY <2>4 DEF Erase
      <3> DEFINE C == m_connected_slots[s] \ gone
                 m == FirstFrom(C, m_current_iterator[s])
      <3>2. /\ m \in C \union {End}
            /\ m >= m_current_iterator[s]
            /\ \A k \in C : k >= m_current_iterator[s] => k >= m
        BY Zenon, <2>1, <2>3, FirstFromLeast
      <3> QED
        BY Zenon, <3>1, <3>2, <2>2
    <2>5. CASE m_current_iterator[s] \notin gone
      <3>1. m_current_iterator'[s] = m_current_iterator[s]
        BY <2>5 DEF Erase
      <3> QED
        BY <3>1, <2>1, <2>2, <2>3, <2>5 DEF IteratorInv
    <2> QED
      BY <2>4, <2>5
  <1>4. m_current_iterator' \in [Signal -> Node \union {End}]
    <2>1. m_current_iterator' = [s \in Signal |-> m_current_iterator'[s]]
      BY DEF Erase
    <2> QED
      BY <2>1, <1>1, <1>2, <1>3
  <1>5. /\ DOMAIN stack = 1..Len(stack)
        /\ Len(stack) \in Nat
        /\ \A i \in 1..Len(stack) : stack[i] \in Frame
    OBVIOUS
  <1>6. /\ stack' = [i \in 1..Len(stack) |-> [stack[i] EXCEPT !.due = @ \ gone]]
        /\ \A i \in 1..Len(stack) : [stack[i] EXCEPT !.due = @ \ gone] \in Frame
    BY Zenon, <1>5 DEF Erase, Frame
  <1>7. stack' \in Seq(Frame) /\ Len(stack') = Len(stack)
    BY <1>5, <1>6
  <1>8. \A i \in 1..Len(stack) :
           /\ stack'[i].signal = stack[i].signal
           /\ stack'[i].done = stack[i].done
           /\ stack'[i].due = stack[i].due \ gone
           /\ stack[i].signal \in Signal
           /\ stack[i].done \subseteq Node
           /\ stack[i].due \subseteq Node
    BY <1>5, <1>6 DEF Frame
  <1>9. IteratorInv'
    BY <1>3 DEF IteratorInv
  <1>10. DueInv'
    <2>1. ASSUME NEW i \in 1..Len(stack'), NEW n \in stack'[i].due
          PROVE  /\ n \in m_connected_slots'[stack'[i].signal]
                 /\ m_current_iterator'[stack'[i].signal] <= n
      <3>1. n \in stack[i].due /\ n \notin gone /\ n \in Node
        BY <2>1, <1>7, <1>8
      <3>2. /\ n \in m_connected_slots[stack[i].signal]
            /\ m_current_iterator[stack[i].signal] <= n
        BY <3>1, <1>7 DEF DueInv
      <3>3. n \in m_connected_slots'[stack[i].signal]
        BY Zenon, <3>1, <3>2, <1>7, <1>8 DEF Erase
      <3> QED
        BY <3>1, <3>2, <3>3, <1>3, <1>4, <1>7, <1>8, EndIsLast
    <2> QED
      BY <2>1, <1>7, <1>8 DEF DueInv
  <1>11. DoneInv'
    <2>1. ASSUME NEW i \in 1..Len(stack'), NEW n \in stack'[i].done,
                 \A j \in (i + 1)..Len(stack') : stack'[j].signal # stack'[i].signal
          PROVE  n < m_current_iterator'[stack'[i].signal]
      <3>1. i \in 1..Len(stack) /\ n \in stack[i].done /\ n \in Nat
        BY <2>1, <1>7, <1>8, EndIsLast
      <3>2. ASSUME NEW j \in (i + 1)..Len(stack)
            PROVE  stack[j].signal # stack[i].signal
        <4>1. j \in 1..Len(stack) /\ j \in (i + 1)..Len(stack')
          BY <3>1, <1>5, <1>7
        <4> QED
          BY SMTT(20), <4>1, <3>1, <2>1, <1>8
      <3>3. n < m_current_iterator[stack[i].signal]
        BY <3>1, <3>2 DEF DoneInv
      <3> DEFINE s == stack[i].signal
      <3>4. s \in Signal /\ stack'[i].signal = s
        BY <3>1, <1>8
      <3>5. /\ m_current_iterator[s] \in Nat
            /\ m_current_iterator'[s] \in Nat
            /\ m_current_iterator'[s] >= m_current_iterator[s]
        BY <3>4, <1>3, <1>4, EndIsLast
      <3> QED
        BY <3>1, <3>3, <3>4, <3>5
    <2> QED
      BY <2>1 DEF DoneInv
  <1> QED
    BY <1>1, <1>4, <1>7, <1>9, <1>10, <1>11

(* Adding signals, and nodes at the back of lists, owes and delivers       *)
(* nothing.                                                                *)
LEMMA GrowPreserves ==
    ASSUME DispatchInv, stack' = stack, signals \subseteq signals',
           \A s \in signals : /\ m_current_iterator'[s] = m_current_iterator[s]
                              /\ m_connected_slots[s] \subseteq m_connected_slots'[s]
    PROVE  DueInv' /\ DoneInv'
  <1>1. \A i \in 1..Len(stack) : stack[i].signal \in signals
    BY DEF DispatchInv, DueInv
  <1>2. DueInv'
    BY <1>1 DEF DispatchInv, DueInv
  <1>3. DoneInv'
    BY <1>1 DEF DispatchInv, DoneInv
  <1> QED
    BY <1>2, <1>3

LEMMA CardinalityOfNodes ==
    ASSUME TypeOK, NEW C, C \subseteq Node
    PROVE  Cardinality(C) \in Nat
  <1>1. IsFiniteSet(Node)
    BY BoundsAssumption, FS_Interval DEF Node
  <1>2. IsFiniteSet(C)
    BY <1>1, FS_Subset
  <1> QED
    BY <1>2, FS_CardinalityType

LEMMA CreatePreserves ==
    ASSUME DispatchInv,
           \/ \E s \in Signal : CreateSignal(s)
           \/ \E p \in Slot : CreateSlot(p)
    PROVE  DispatchInv'
  <1> USE DEF DispatchInv
  <1>1. ASSUME NEW s \in Signal, CreateSignal(s) PROVE DispatchInv'
    <2> USE <1>1 DEF CreateSignal
    <2>1. TypeOK' /\ IteratorInv'
      BY EndIsLast DEF TypeOK, IteratorInv
    <2>2. DueInv' /\ DoneInv'
      <3>1. \A t \in signals : /\ m_current_iterator'[t] = m_current_iterator[t]
                               /\ m_connected_slots[t] \subseteq m_connected_slots'[t]
        BY DEF TypeOK
      <3> QED
        BY <3>1, GrowPreserves
    <2> QED
      BY <2>1, <2>2
  <1>2. ASSUME NEW p \in Slot, CreateSlot(p) PROVE DispatchInv'
    <2>1. TypeOK' /\ IteratorInv'
      BY <1>2 DEF TypeOK, IteratorInv, CreateSlot
    <2>2. DueInv' /\ DoneInv'
      BY <1>2, GrowPreserves DEF CreateSlot
    <2> QED
      BY <2>1, <2>2
  <1> QED
    BY <1>1, <1>2

LEMMA CopySignalPreserves ==
    ASSUME DispatchInv, NEW o \in Signal, NEW s \in Signal, CopySignal(o, s)
    PROVE  DispatchInv'
  <1> USE DEF DispatchInv
  <1> DEFINE Old == m_connected_slots[o]
             k == Cardinality(Old)
  <1>1. /\ Old \subseteq Node /\ k \in Nat /\ pushed \in Nat /\ MaxConn \in Nat
        /\ pushed + k <= MaxConn /\ pushed <= MaxConn
    <2>1. Old \subseteq Node /\ pushed \in Nat /\ pushed <= MaxConn /\ MaxConn \in Nat
      BY BoundsAssumption DEF TypeOK, Node
    <2> QED
      BY <2>1, CardinalityOfNodes DEF CopySignal
  <1>2. PICK f \in Copies(Old) :
          /\ getdest' = [n \in Node |->
                            IF n \in DOMAIN f THEN getdest[f[n]] ELSE getdest[n]]
          /\ m_connected_slots' = [m_connected_slots EXCEPT ![s] = DOMAIN f]
    BY Zenon DEF CopySignal
  <1>3. /\ DOMAIN f = (pushed + 1)..(pushed + k)
        /\ \A n \in DOMAIN f : f[n] \in Old
    BY <1>2 DEF Copies
  <1> HIDE DEF k, Old
  <1>4. pushed' = pushed + k
    BY DEF CopySignal, k, Old
  <1>5. TypeOK'
    <2>1. getdest' \in [Node -> Slot]
      BY <1>1, <1>2, <1>3 DEF TypeOK
    <2>2. m_connected_slots' \in [Signal -> SUBSET (1..pushed')]
      <3>1. DOMAIN f \subseteq 1..pushed' /\ 1..pushed \subseteq 1..pushed'
        BY <1>1, <1>3, <1>4
      <3> QED
        BY <1>2, <3>1 DEF TypeOK
    <2>3. pushed' \in 0..MaxConn
      BY <1>1, <1>4
    <2>4. m_senders' \in [Slot -> SUBSET Signal]
      BY DEF CopySignal, TypeOK
    <2> QED
      BY <2>1, <2>2, <2>3, <2>4 DEF CopySignal, TypeOK
  <1>6. IteratorInv'
    BY <1>2 DEF CopySignal, TypeOK, IteratorInv
  <1>7. DueInv' /\ DoneInv'
    <2>1. \A t \in signals : /\ m_current_iterator'[t] = m_current_iterator[t]
                             /\ m_connected_slots[t] \subseteq m_connected_slots'[t]
      BY <1>2 DEF TypeOK, CopySignal
    <2> QED
      BY <2>1, GrowPreserves DEF CopySignal
  <1> QED
    BY <1>5, <1>6, <1>7

LEMMA CopySlotPreserves ==
    ASSUME DispatchInv, NEW o \in Slot, NEW p \in Slot, CopySlot(o, p)
    PROVE  DispatchInv'
  <1> USE DEF DispatchInv
  <1> DEFINE Old == UNION {To(s, o) : s \in m_senders[o]}
             k == Cardinality(Old)
  <1>1. /\ Old \subseteq Node /\ k \in Nat /\ pushed \in Nat /\ MaxConn \in Nat
        /\ pushed + k <= MaxConn /\ pushed <= MaxConn
    <2>1. pushed \in Nat /\ pushed <= MaxConn /\ MaxConn \in Nat
      BY BoundsAssumption DEF TypeOK
    <2>2. Old \subseteq Node
      BY <2>1 DEF TypeOK, Node, To
    <2> QED
      BY <2>1, <2>2, CardinalityOfNodes DEF CopySlot
  <1>2. PICK f \in Copies(Old) :
          /\ getdest' = [n \in Node |-> IF n \in DOMAIN f THEN p ELSE getdest[n]]
          /\ m_connected_slots' = [s \in Signal |->
                m_connected_slots[s] \union
                    {n \in DOMAIN f : f[n] \in m_connected_slots[s]}]
    BY Zenon DEF CopySlot
  <1>3. DOMAIN f = (pushed + 1)..(pushed + k)
    BY <1>2 DEF Copies
  <1>4. pushed' = pushed + k
    BY DEF CopySlot
  <1> HIDE DEF k, Old
  <1>5. TypeOK'
    <2>1. getdest' \in [Node -> Slot]
      BY <1>2 DEF TypeOK
    <2>2. m_connected_slots' \in [Signal -> SUBSET (1..pushed')]
      <3>1. DOMAIN f \subseteq 1..pushed' /\ 1..pushed \subseteq 1..pushed'
        BY <1>1, <1>3, <1>4
      <3> QED
        BY <1>2, <3>1 DEF TypeOK
    <2>3. pushed' \in 0..MaxConn
      BY <1>1, <1>4
    <2> QED
      BY <2>1, <2>2, <2>3 DEF CopySlot, TypeOK
  <1>6. IteratorInv'
    BY <1>2 DEF CopySlot, TypeOK, IteratorInv
  <1>7. DueInv' /\ DoneInv'
    <2>1. \A t \in signals : /\ m_current_iterator'[t] = m_current_iterator[t]
                             /\ m_connected_slots[t] \subseteq m_connected_slots'[t]
      BY <1>2 DEF TypeOK, CopySlot
    <2> QED
      BY <2>1, GrowPreserves DEF CopySlot
  <1> QED
    BY <1>5, <1>6, <1>7

LEMMA ConnectPreserves ==
    ASSUME DispatchInv, NEW s \in Signal, NEW p \in Slot, Connect(s, p)
    PROVE  DispatchInv'
  <1> USE DEF DispatchInv
  <1>1. /\ pushed \in Nat /\ MaxConn \in Nat /\ pushed < MaxConn
        /\ pushed' = pushed + 1
    BY BoundsAssumption DEF Connect, TypeOK
  <1>2. 1..pushed \subseteq 1..pushed' /\ pushed + 1 \in 1..pushed'
    BY <1>1
  <1>3. TypeOK'
    <2>1. m_connected_slots' \in [Signal -> SUBSET (1..pushed')]
      BY <1>2 DEF Connect, TypeOK
    <2>2. getdest' \in [Node -> Slot] /\ m_senders' \in [Slot -> SUBSET Signal]
      BY Zenon DEF Connect, TypeOK
    <2>3. pushed' \in 0..MaxConn
      BY <1>1
    <2> QED
      BY <2>1, <2>2, <2>3 DEF Connect, TypeOK
  <1>4. IteratorInv'
    BY DEF Connect, TypeOK, IteratorInv
  <1>5. \A t \in signals : /\ m_current_iterator'[t] = m_current_iterator[t]
                           /\ m_connected_slots[t] \subseteq m_connected_slots'[t]
    BY DEF TypeOK, Connect
  <1> QED
    BY <1>3, <1>4, <1>5, GrowPreserves DEF Connect

(* Emptying a list and parking its iterator at end(). *)
LEMMA DropAllPreserves ==
    ASSUME DispatchInv, NEW s \in Signal, DropAll(s), pushed' = pushed,
           signals' \subseteq signals, \A t \in signals : Firing(t) => t \in signals'
    PROVE  /\ m_connected_slots' \in [Signal -> SUBSET (1..pushed)]
           /\ m_current_iterator' \in [Signal -> Node \union {End}]
           /\ m_senders' \in [Slot -> SUBSET Signal]
           /\ stack' \in Seq(Frame)
           /\ IteratorInv' /\ DueInv' /\ DoneInv'
  <1> USE DEF DispatchInv
  <1>1. /\ m_connected_slots' \in [Signal -> SUBSET (1..pushed)]
        /\ m_current_iterator' \in [Signal -> Node \union {End}]
        /\ m_senders' \in [Slot -> SUBSET Signal]
        /\ IteratorInv'
    BY DEF DropAll, TypeOK, IteratorInv
  <1>2. /\ DOMAIN stack = 1..Len(stack)
        /\ Len(stack) \in Nat
        /\ \A i \in 1..Len(stack) : stack[i] \in Frame
    BY DEF TypeOK
  <1>3. /\ stack' = [i \in 1..Len(stack) |->
                        [stack[i] EXCEPT !.due = @ \ m_connected_slots[s]]]
        /\ \A i \in 1..Len(stack) :
              [stack[i] EXCEPT !.due = @ \ m_connected_slots[s]] \in Frame
    BY SMTT(20), <1>2 DEF DropAll, Frame
  <1>4. stack' \in Seq(Frame) /\ Len(stack') = Len(stack)
    BY <1>2, <1>3
  <1>5. \A i \in 1..Len(stack) :
           /\ stack'[i].signal = stack[i].signal
           /\ stack'[i].done = stack[i].done
           /\ stack'[i].due = stack[i].due \ m_connected_slots[s]
           /\ stack[i].signal \in Signal
           /\ stack[i].done \subseteq Node
    BY <1>2, <1>3 DEF Frame
  <1>6. \A t \in Signal :
           IF t = s
           THEN m_connected_slots'[t] = {} /\ m_current_iterator'[t] = End
           ELSE /\ m_connected_slots'[t] = m_connected_slots[t]
                /\ m_current_iterator'[t] = m_current_iterator[t]
    BY DEF DropAll, TypeOK
  <1>7. DueInv'
    <2>1. ASSUME NEW i \in 1..Len(stack) PROVE stack'[i].signal \in signals'
      <3>1. stack[i].signal \in signals
        BY DEF DueInv
      <3>2. Firing(stack[i].signal)
        BY DEF Firing
      <3> QED
        BY <3>1, <3>2, <1>5
    <2>2. ASSUME NEW i \in 1..Len(stack), NEW n \in stack'[i].due
          PROVE  /\ n \in m_connected_slots'[stack'[i].signal]
                 /\ m_current_iterator'[stack'[i].signal] <= n
      BY <1>5, <1>6 DEF DueInv
    <2> QED
      BY <2>1, <2>2, <1>4 DEF DueInv
  <1>8. DoneInv'
    <2>1. ASSUME NEW i \in 1..Len(stack), NEW n \in stack'[i].done,
                 \A j \in (i + 1)..Len(stack') : stack'[j].signal # stack'[i].signal
          PROVE  n < m_current_iterator'[stack'[i].signal]
      <3>1. ASSUME NEW j \in (i + 1)..Len(stack)
            PROVE  stack[j].signal # stack[i].signal
        <4>1. j \in 1..Len(stack) /\ j \in (i + 1)..Len(stack')
          BY <1>2, <1>4
        <4> QED
          BY <4>1, <2>1, <1>5
      <3>2. n < m_current_iterator[stack[i].signal]
        BY <3>1, <1>5 DEF DoneInv
      <3> QED
        BY <3>2, <1>5, <1>6, EndIsLast
    <2> QED
      BY SMTT(20), <2>1, <1>4 DEF DoneInv
  <1> QED
    BY <1>1, <1>4, <1>7, <1>8

LEMMA DisconnectPreserves ==
    ASSUME DispatchInv,
           \/ \E s \in Signal, p \in Slot : Disconnect(s, p)
           \/ \E p \in Slot : SlotDisconnectAll(p)
           \/ \E p \in Slot : DestroySlot(p)
    PROVE  DispatchInv'
  <1>1. ASSUME NEW s \in Signal, NEW p \in Slot, Disconnect(s, p)
        PROVE  DispatchInv'
    BY <1>1, ErasePreserves DEF Disconnect, DispatchInv, TypeOK
  <1>2. ASSUME NEW p \in Slot, SlotDisconnectAll(p) \/ DestroySlot(p)
        PROVE  DispatchInv'
    BY <1>2, ErasePreserves
    DEF SlotDisconnectAll, DestroySlot, ForgetAll, DispatchInv, TypeOK
  <1> QED
    BY <1>1, <1>2

LEMMA SignalDropPreserves ==
    ASSUME DispatchInv, NEW s \in Signal, SignalDisconnectAll(s) \/ DestroySignal(s)
    PROVE  DispatchInv'
  <1>1. CASE SignalDisconnectAll(s)
    BY <1>1, DropAllPreserves DEF SignalDisconnectAll, DispatchInv, TypeOK
  <1>2. CASE DestroySignal(s)
    BY <1>2, DropAllPreserves DEF DestroySignal, DispatchInv, TypeOK
  <1> QED
    BY <1>1, <1>2

LEMMA EmitBeginPreserves ==
    ASSUME DispatchInv, NEW s \in Signal, EmitBegin(s)
    PROVE  DispatchInv'
  <1> USE DEF DispatchInv
  <1> DEFINE first == FirstFrom(m_connected_slots[s], 0)
             new == [signal |-> s, inSlot |-> FALSE, done |-> {},
                     due |-> m_connected_slots[s]]
  <1>1. m_connected_slots[s] \in SUBSET Node
    BY BoundsAssumption DEF TypeOK, Node
  <1>2. /\ first \in m_connected_slots[s] \union {End}
        /\ \A k \in m_connected_slots[s] : k >= first
    <2>1. 0 \in Nat /\ 0 <= End
      BY EndIsLast
    <2>2. /\ first \in m_connected_slots[s] \union {End}
          /\ \A k \in m_connected_slots[s] : k >= 0 => k >= first
      BY <1>1, <2>1, FirstFromLeast
    <2> HIDE DEF first
    <2> QED
      BY <1>1, <2>2, EndIsLast
  <1> HIDE DEF first
  <1>3. /\ m_current_iterator' = [m_current_iterator EXCEPT ![s] = first]
        /\ stack' = Append(stack, new)
        /\ m_connected_slots' = m_connected_slots
        /\ signals' = signals /\ s \in signals
    BY DEF EmitBegin, first
  <1>4. new \in Frame
    BY <1>1 DEF Frame
  <1>5. /\ Len(stack) \in Nat /\ Len(stack') = Len(stack) + 1
        /\ stack' \in Seq(Frame)
        /\ stack'[Len(stack) + 1] = new
        /\ \A i \in 1..Len(stack) : stack'[i] = stack[i] /\ stack[i] \in Frame
    BY <1>3, <1>4 DEF TypeOK
  <1>6. \A t \in Signal : m_current_iterator'[t] =
                             IF t = s THEN first ELSE m_current_iterator[t]
    BY <1>3 DEF TypeOK
  <1>7. TypeOK' /\ IteratorInv'
    BY <1>1, <1>2, <1>3, <1>5, <1>6 DEF TypeOK, IteratorInv, EmitBegin
  <1>8. DueInv'
    <2>1. ASSUME NEW i \in 1..Len(stack')
          PROVE  /\ stack'[i].signal \in signals'
                 /\ \A n \in stack'[i].due :
                       /\ n \in m_connected_slots'[stack'[i].signal]
                       /\ m_current_iterator'[stack'[i].signal] <= n
      <3>1. CASE i = Len(stack) + 1
        BY SMTT(20), <3>1, <1>1, <1>2, <1>3, <1>5, <1>6, EndIsLast
      <3>2. CASE i \in 1..Len(stack)
        <4>1. stack'[i] = stack[i] /\ stack[i].signal \in Signal
          BY <3>2, <1>5 DEF Frame
        <4>2. /\ stack[i].signal \in signals
              /\ \A n \in stack[i].due :
                    /\ n \in m_connected_slots[stack[i].signal]
                    /\ m_current_iterator[stack[i].signal] <= n
          BY <3>2 DEF DueInv
        <4> QED
          BY SMTT(20), <4>1, <4>2, <1>1, <1>2, <1>3, <1>6, EndIsLast
      <3> QED
        BY <3>1, <3>2, <1>5
    <2> QED
      BY <2>1 DEF DueInv
  <1>9. DoneInv'
    <2>1. ASSUME NEW i \in 1..Len(stack'), NEW n \in stack'[i].done,
                 \A j \in (i + 1)..Len(stack') : stack'[j].signal # stack'[i].signal
          PROVE  n < m_current_iterator'[stack'[i].signal]
      <3>1. i # Len(stack) + 1
        BY <2>1, <1>5
      <3>2. i \in 1..Len(stack) /\ stack'[i] = stack[i] /\ stack[i].signal \in Signal
        BY <3>1, <1>5 DEF Frame
      <3>3. Len(stack) + 1 \in (i + 1)..Len(stack')
        BY <3>2, <1>5
      <3>4. stack[i].signal # s
        BY <3>2, <3>3, <2>1, <1>5
      <3>5. ASSUME NEW j \in (i + 1)..Len(stack)
            PROVE  stack[j].signal # stack[i].signal
        <4>1. j \in 1..Len(stack) /\ j \in (i + 1)..Len(stack')
          BY <3>2, <1>5
        <4> QED
          BY <4>1, <3>2, <2>1, <1>5
      <3>6. n < m_current_iterator[stack[i].signal]
        BY <3>2, <3>5, <2>1 DEF DoneInv
      <3> QED
        BY <3>2, <3>4, <3>6, <1>6
    <2> QED
      BY <2>1 DEF DoneInv
  <1> QED
    BY <1>7, <1>8, <1>9

(* What a call of node n does to the history of a frame. *)
LEMMA CalledFrame ==
    ASSUME NEW f \in Frame, NEW top \in BOOLEAN, NEW n \in Node
    PROVE  /\ Called(f, top, n) \in Frame
           /\ Called(f, top, n).signal = f.signal
           /\ Called(f, top, n).done = IF top THEN f.done \union {n} ELSE f.done
           /\ Called(f, top, n).due = f.due \ {n}
  BY Zenon DEF Called, Frame

LEMMA EmitCallPreserves ==
    ASSUME DispatchInv, EmitCall
    PROVE  DispatchInv'
  <1> USE DEF DispatchInv
  <1> DEFINE d == Len(stack)
             s == Top.signal
             n == m_current_iterator[s]
             next == FirstFrom(m_connected_slots[s], n + 1)
  <1>1. /\ d \in Nat /\ d # 0 /\ d \in 1..d /\ DOMAIN stack = 1..d
        /\ \A i \in 1..d : stack[i] \in Frame
    <2>1. stack \in Seq(Frame) /\ stack # <<>>
      BY DEF EmitCall, TypeOK
    <2>2. Len(stack) \in Nat \ {0}
      BY <2>1, EmptySeq
    <2> QED
      BY <2>1, <2>2
  <1>2. /\ s \in Signal /\ n \in m_connected_slots[s] /\ n \in Node
        /\ m_connected_slots[s] \in SUBSET Node
    <2>1. s \in Signal
      BY <1>1 DEF Top, Frame
    <2>2. n # End
      BY DEF EmitCall
    <2> QED
      BY <2>1, <2>2, BoundsAssumption DEF IteratorInv, TypeOK, Node
  <1>3. /\ next \in m_connected_slots[s] \union {End}
        /\ next > n
        /\ \A k \in m_connected_slots[s] : k > n => k >= next
    <2>1. n \in Nat /\ n + 1 \in Nat /\ n + 1 <= End
      BY <1>2, EndIsLast
    <2>2. /\ next \in m_connected_slots[s] \union {End}
          /\ next >= n + 1
          /\ \A k \in m_connected_slots[s] : k >= n + 1 => k >= next
      BY <1>2, <2>1, FirstFromLeast
    <2>3. \A k \in m_connected_slots[s] \union {End} : k \in Nat
      BY <1>2, EndIsLast
    <2> HIDE DEF next, n, s
    <2> QED
      BY <2>1, <2>2, <2>3
  <1>4. /\ m_current_iterator' = [m_current_iterator EXCEPT ![s] = next]
        /\ stack' = [i \in 1..d |-> Called(stack[i], i = d, n)]
        /\ m_connected_slots' = m_connected_slots
        /\ signals' = signals
    BY <1>1 DEF EmitCall
  <1> HIDE DEF next, n, d
  <1>5. \A i \in 1..d : stack'[i] = Called(stack[i], i = d, n) /\ stack'[i] \in Frame
    BY Zenon, <1>1, <1>2, <1>4, CalledFrame
  <1>6. stack' \in Seq(Frame) /\ Len(stack') = d
    <2>1. stack' \in [1..d -> Frame]
      BY <1>4, <1>5
    <2> QED
      BY <2>1, <1>1
  <1>7. \A i \in 1..d :
           /\ stack'[i].signal = stack[i].signal
           /\ stack'[i].done = (IF i = d THEN stack[i].done \union {n}
                                ELSE stack[i].done)
           /\ stack'[i].due = stack[i].due \ {n}
           /\ stack[i].signal \in Signal
           /\ stack[i].done \subseteq Node
           /\ stack[i].due \subseteq Node
    <2>1. \A i \in 1..d : /\ stack[i].signal \in Signal
                         /\ stack[i].done \subseteq Node
                         /\ stack[i].due \subseteq Node
      BY <1>1 DEF Frame
    <2>2. ASSUME NEW i \in 1..d
          PROVE  /\ stack'[i].signal = stack[i].signal
                 /\ stack'[i].done = (IF i = d THEN stack[i].done \union {n}
                                      ELSE stack[i].done)
                 /\ stack'[i].due = stack[i].due \ {n}
      <3> DEFINE top == i = d
                 g == Called(stack[i], top, n)
      <3>1. stack[i] \in Frame /\ top \in BOOLEAN /\ stack'[i] = g
        BY Zenon, <1>1, <1>5
      <3>2. /\ g.signal = stack[i].signal
            /\ g.done = IF top THEN stack[i].done \union {n} ELSE stack[i].done
            /\ g.due = stack[i].due \ {n}
        BY Zenon, <3>1, <1>2, CalledFrame
      <3> QED
        BY Zenon, <3>1, <3>2
    <2> QED
      BY Zenon, <2>1, <2>2
  <1>8. stack[d].signal = s
    BY DEF Top, d
  <1> HIDE DEF s
  <1>9. \A t \in Signal : m_current_iterator'[t] =
                             IF t = s THEN next ELSE m_current_iterator[t]
    BY <1>4 DEF TypeOK
  <1>10. TypeOK' /\ IteratorInv'
    <2>1. next \in Node \union {End}
      BY <1>2, <1>3
    <2>2. m_current_iterator' \in [Signal -> Node \union {End}]
      BY Zenon, <2>1, <1>4 DEF TypeOK
    <2>3. UNCHANGED <<slots, getdest, pushed, m_senders>>
      BY DEF EmitCall
    <2>4. TypeOK'
      BY <2>2, <2>3, <1>4, <1>6 DEF TypeOK
    <2>5. IteratorInv'
      BY <1>3, <1>4, <1>9 DEF IteratorInv
    <2> QED
      BY <2>4, <2>5
  <1>11. n = m_current_iterator[s]
    BY DEF n
  <1>12. DueInv'
    <2>1. ASSUME NEW i \in 1..d, NEW k \in stack'[i].due
          PROVE  /\ k \in m_connected_slots'[stack'[i].signal]
                 /\ m_current_iterator'[stack'[i].signal] <= k
      <3>1. k \in stack[i].due /\ k # n /\ k \in Node
        BY Zenon, <2>1, <1>7
      <3>2. /\ k \in m_connected_slots[stack[i].signal]
            /\ m_current_iterator[stack[i].signal] <= k
        BY <3>1 DEF DueInv, d
      <3>3. CASE stack[i].signal = s
        <4>1. k > n
          BY <3>1, <3>2, <3>3, <1>2, <1>11, EndIsLast
        <4>2. k >= next
          BY <4>1, <3>2, <3>3, <1>3
        <4> QED
          BY ZenonT(30), <4>2, <3>1, <3>2, <3>3, <1>2, <1>3, <1>4, <1>7, <1>9, EndIsLast
      <3>4. CASE stack[i].signal # s
        BY ZenonT(30), <3>2, <3>4, <1>4, <1>7, <1>9
      <3> QED
        BY <3>3, <3>4
    <2>2. ASSUME NEW i \in 1..d PROVE stack'[i].signal \in signals'
      <3>1. i \in 1..Len(stack)
        BY DEF d
      <3>2. stack[i].signal \in signals
        BY <3>1 DEF DueInv
      <3>3. signals' = signals
        BY <1>4
      <3>4. stack'[i].signal = stack[i].signal
        BY Zenon, <1>7
      <3> QED
        BY <3>2, <3>3, <3>4
    <2> QED
      BY <2>1, <2>2, <1>6 DEF DueInv
  <1>13. DoneInv'
    <2>1. ASSUME NEW i \in 1..d, NEW k \in stack'[i].done,
                 \A j \in (i + 1)..d : stack'[j].signal # stack'[i].signal
          PROVE  k < m_current_iterator'[stack'[i].signal]
      <3>1. \A j \in (i + 1)..d : stack[j].signal # stack[i].signal
        <4>1. \A j \in (i + 1)..d : j \in 1..d
          BY <1>1
        <4> QED
          BY Zenon, <4>1, <2>1, <1>7
      <3>2. \A m \in stack[i].done : m < m_current_iterator[stack[i].signal]
        BY <3>1 DEF DoneInv, d
      <3>3. CASE i = d
        <4>1. k = n \/ k \in stack[i].done
          BY ZenonT(30), <2>1, <3>3, <1>7
        <4>2. k \in Nat /\ n \in Nat /\ next \in Nat
          BY Zenon, <4>1, <1>2, <1>3, <1>7, EndIsLast
        <4>3. k = n \/ k < n
          BY <4>1, <3>2, <3>3, <1>8, <1>11
        <4>4. k < next
          BY <4>2, <4>3, <1>3
        <4> QED
          BY Zenon, <4>4, <3>3, <1>2, <1>7, <1>8, <1>9
      <3>4. CASE i # d
        <4>1. d \in (i + 1)..d
          BY <3>4, <1>1
        <4>2. stack[i].signal # s
          BY <4>1, <3>1, <1>8
        <4> QED
          BY Zenon, <4>2, <3>2, <3>4, <2>1, <1>7, <1>9
      <3> QED
        BY <3>3, <3>4
    <2> QED
      BY <2>1, <1>6 DEF DoneInv
  <1> QED
    BY <1>10, <1>12, <1>13

LEMMA ReturnPreserves ==
    ASSUME DispatchInv, SlotReturn \/ EmitReturn
    PROVE  DispatchInv'
  <1> USE DEF DispatchInv
  <1> DEFINE d == Len(stack)
  <1>1. /\ d \in Nat /\ d \in 1..d /\ DOMAIN stack = 1..d
        /\ \A i \in 1..d : stack[i] \in Frame
    <2>1. stack \in Seq(Frame) /\ stack # <<>>
      BY DEF SlotReturn, EmitReturn, TypeOK
    <2>2. Len(stack) \in Nat \ {0}
      BY <2>1, EmptySeq
    <2> QED
      BY <2>1, <2>2
  <1>2. UNCHANGED <<signals, slots, m_connected_slots, m_current_iterator,
                    getdest, pushed, m_senders>>
    BY DEF SlotReturn, EmitReturn
  <1>3. CASE SlotReturn
    <2>1. /\ stack' \in Seq(Frame) /\ Len(stack') = d
          /\ \A i \in 1..d : /\ stack'[i].signal = stack[i].signal
                             /\ stack'[i].done = stack[i].done
                             /\ stack'[i].due = stack[i].due
      <3>1. /\ stack' = [stack EXCEPT ![d].inSlot = FALSE]
            /\ stack \in Seq(Frame)
        BY <1>3 DEF SlotReturn, TypeOK
      <3>2. [stack[d] EXCEPT !.inSlot = FALSE] \in Frame
        BY Zenon, <1>1 DEF Frame
      <3>3. stack' = [stack EXCEPT ![d] = [stack[d] EXCEPT !.inSlot = FALSE]]
        BY <3>1
      <3> HIDE DEF d
      <3>4. stack' \in Seq(Frame) /\ Len(stack') = d
        BY <3>1, <3>2, <3>3, <1>1 DEF d
      <3>5. \A i \in 1..d : stack'[i] = IF i = d
              THEN [stack[d] EXCEPT !.inSlot = FALSE] ELSE stack[i]
        BY <3>3, <1>1
      <3> QED
        BY <3>4, <3>5, <1>1 DEF Frame
    <2>2. TypeOK' /\ IteratorInv'
      BY <2>1, <1>2 DEF TypeOK, IteratorInv
    <2>3. DueInv'
      BY <2>1, <1>2 DEF DueInv
    <2>4. DoneInv'
      <3>1. \A i \in 1..d : \A j \in (i + 1)..d : j \in 1..d
        BY <1>1
      <3> QED
        BY <3>1, <2>1, <1>2 DEF DoneInv
    <2> QED
      BY <2>2, <2>3, <2>4
  <1>4. CASE EmitReturn
    <2>1. /\ stack' \in Seq(Frame) /\ Len(stack') = d - 1
          /\ \A i \in 1..(d - 1) : stack'[i] = stack[i]
      <3>1. stack' = SubSeq(stack, 1, d - 1) /\ stack \in Seq(Frame)
        BY <1>4 DEF EmitReturn, TypeOK
      <3> QED
        BY <3>1, <1>1
    <2>2. TypeOK' /\ IteratorInv'
      BY <2>1, <1>2 DEF TypeOK, IteratorInv
    <2>3. \A i \in 1..(d - 1) : i \in 1..d
      BY <1>1
    <2>4. DueInv'
      BY <2>1, <2>3, <1>2 DEF DueInv
    <2>5. DoneInv'
      <3>1. ASSUME NEW i \in 1..(d - 1), NEW n \in stack[i].done,
                   \A j \in (i + 1)..(d - 1) : stack[j].signal # stack[i].signal
            PROVE  n < m_current_iterator[stack[i].signal]
        <4>1. CASE stack[i].signal = stack[d].signal
          <5>1. m_current_iterator[stack[i].signal] = End
            BY <4>1, <1>4 DEF EmitReturn, Top
          <5>2. stack[i] \in Frame
            BY <1>1, <2>3
          <5>3. n \in Node
            BY <5>2 DEF Frame
          <5> QED
            BY <5>1, <5>3, EndIsLast
        <4>2. CASE stack[i].signal # stack[d].signal
          <5>1. \A j \in (i + 1)..d : j = d \/ j \in (i + 1)..(d - 1)
            <6>1. d \in Nat
              BY <1>1
            <6> HIDE DEF d
            <6> QED
              BY <6>1
          <5>2. \A j \in (i + 1)..d : stack[j].signal # stack[i].signal
            BY <5>1, <4>2, <3>1
          <5> QED
            BY <5>2, <2>3 DEF DoneInv
        <4> QED
          BY <4>1, <4>2
      <3>2. \A i \in 1..(d - 1) : \A j \in (i + 1)..(d - 1) : j \in 1..(d - 1)
        BY <1>1
      <3>3. ASSUME NEW i \in 1..(d - 1), NEW n \in stack'[i].done,
                   \A j \in (i + 1)..(d - 1) : stack'[j].signal # stack'[i].signal
            PROVE  n < m_current_iterator'[stack'[i].signal]
        BY Zenon, <3>1, <3>2, <3>3, <2>1, <1>2
      <3> QED
        BY <3>3, <2>1 DEF DoneInv
    <2> QED
      BY <2>2, <2>4, <2>5
  <1> QED
    BY <1>3, <1>4

LEMMA NextDispatch == DispatchInv /\ [Next]_vars => DispatchInv'
  <1> SUFFICES ASSUME DispatchInv, [Next]_vars PROVE DispatchInv'
    OBVIOUS
  <1>1. CASE UNCHANGED vars
    BY <1>1 DEF vars, DispatchInv, TypeOK, IteratorInv, DueInv, DoneInv
  <1>2. CASE Next
    BY SMTT(20), <1>2, CreatePreserves, CopySignalPreserves, CopySlotPreserves,
       ConnectPreserves, DisconnectPreserves, SignalDropPreserves,
       EmitBeginPreserves, EmitCallPreserves, ReturnPreserves DEF Next
  <1> QED
    BY <1>1, <1>2

THEOREM DispatchInvariance == Spec => []DispatchInv
  BY InitDispatch, NextDispatch, PTL DEF Spec

(* Every iterator of a live signal stays valid, whatever slots erase while *)
(* emit is using it.                                                       *)
THEOREM IteratorsStayValid == Spec => []IteratorValid
  <1>1. DispatchInv => IteratorValid
    BY DEF DispatchInv, TypeOK, IteratorInv, IteratorValid
  <1> QED
    BY <1>1, DispatchInvariance, PTL

LEMMA TopFrame ==
    ASSUME TypeOK, stack # <<>>
    PROVE  /\ Len(stack) \in 1..Len(stack) /\ Len(stack) \in Nat
           /\ Top \in Frame
  <1>1. stack \in Seq(Frame)
    BY DEF TypeOK
  <1>2. Len(stack) \in Nat \ {0}
    BY <1>1, EmptySeq
  <1> QED
    BY <1>1, <1>2 DEF Top

(* An emission that is about to return owes no connection a call. *)
THEOREM EveryoneIsCalled == Spec => []NoSlotMissed
  <1>1. DispatchInv => NoSlotMissed
    <2> SUFFICES ASSUME DispatchInv, stack # <<>>,
                        m_current_iterator[Top.signal] = End,
                        NEW n \in Top.due
                 PROVE  FALSE
      BY DEF NoSlotMissed
    <2>1. TypeOK
      BY DEF DispatchInv
    <2>2. /\ Len(stack) \in 1..Len(stack) /\ Top \in Frame
      BY <2>1, TopFrame
    <2>3. End <= n
      BY <2>2 DEF DispatchInv, DueInv, Top
    <2>4. n \in Node
      BY <2>2 DEF Frame
    <2> QED
      BY <2>3, <2>4, EndIsLast
  <1> QED
    BY <1>1, DispatchInvariance, PTL

(* No call of emit calls a connection a second time. *)
THEOREM NobodyIsCalledTwice == Spec => []NoDoubleDelivery
  <1>1. DispatchInv => NoDoubleDelivery
    <2> SUFFICES ASSUME DispatchInv, stack # <<>>,
                        m_current_iterator[Top.signal] \in Top.done
                 PROVE  FALSE
      BY DEF NoDoubleDelivery
    <2> DEFINE n == m_current_iterator[Top.signal]
    <2>1. TypeOK
      BY DEF DispatchInv
    <2>2. /\ Len(stack) \in 1..Len(stack) /\ Len(stack) \in Nat /\ Top \in Frame
      BY <2>1, TopFrame
    <2>3. (Len(stack) + 1)..Len(stack) = {}
      BY <2>2
    <2>4. n < n
      BY <2>2, <2>3 DEF DispatchInv, DoneInv, Top
    <2>5. n \in Nat
      BY <2>2, EndIsLast DEF Frame
    <2> QED
      BY <2>4, <2>5
  <1> QED
    BY <1>1, DispatchInvariance, PTL
=============================================================================
