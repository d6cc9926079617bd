------------------------- MODULE SigSlotMirrorProofs -------------------------
(***************************************************************************)
(* Proofs about SigSlot, continued: with at most one connection between a  *)
(* signal and an object, the two ends of every connection agree, and no    *)
(* destroyed object is called.                                             *)
(***************************************************************************)
EXTENDS SigSlotProofs

(* No node is in two lists. *)
ListsDisjoint ==
    \A s, t \in Signal :
        s # t => m_connected_slots[s] \intersect m_connected_slots[t] = {}

(* No two connections join the same signal and object. *)
AtMostOne ==
    \A s \in Signal : \A n, k \in m_connected_slots[s] :
        getdest[n] = getdest[k] => n = k

MirrorInv == TypeOK /\ ConnectionsMirrored /\ ListsDisjoint /\ AtMostOne

LEMMA CreateMirror ==
    ASSUME MirrorInv, TypeOK',
           \/ \E s \in Signal : CreateSignal(s)
           \/ \E p \in Slot : CreateSlot(p)
    PROVE  MirrorInv'
  <1> USE DEF MirrorInv
  <1>1. ASSUME NEW s \in Signal, CreateSignal(s) PROVE MirrorInv'
    <2>1. m_connected_slots' = m_connected_slots
      BY SMTT(20), <1>1 DEF CreateSignal, ConnectionsMirrored, TypeOK
    <2> QED
      BY <1>1, <2>1 DEF CreateSignal, ConnectionsMirrored, ListsDisjoint, AtMostOne, To
  <1>2. ASSUME NEW p \in Slot, CreateSlot(p) PROVE MirrorInv'
    <2>1. \A q \in Slot : m_senders'[q] = IF q = p THEN {} ELSE m_senders[q]
      BY SMTT(20), <1>2 DEF CreateSlot, TypeOK
    <2>2. \A s \in Signal : To(s, p) = {}
      BY <1>2 DEF CreateSlot, ConnectionsMirrored, To
    <2>3. ConnectionsMirrored'
      BY <1>2, <2>1, <2>2 DEF CreateSlot, ConnectionsMirrored, To, TypeOK
    <2> QED
      BY <1>2, <2>3 DEF CreateSlot, ListsDisjoint, AtMostOne
  <1> QED
    BY <1>1, <1>2

LEMMA ConnectMirror ==
    ASSUME ~ Repeated, MirrorInv, TypeOK', NEW s \in Signal, NEW p \in Slot, Connect(s, p)
    PROVE  MirrorInv'
  <1> USE DEF MirrorInv
  <1> DEFINE new == pushed + 1
  <1>1. new \in Node /\ \A t \in Signal : new \notin m_connected_slots[t]
    BY SMTT(20), BoundsAssumption DEF Connect, TypeOK, Node
  <1>2. \A t \in Signal : m_connected_slots'[t] =
          IF t = s THEN m_connected_slots[t] \union {new} ELSE m_connected_slots[t]
    BY Zenon DEF Connect, TypeOK
  <1>3. \A n \in Node : getdest'[n] = IF n = new THEN p ELSE getdest[n]
    BY DEF Connect, TypeOK
  <1>4. \A q \in Slot : m_senders'[q] =
          IF q = p THEN m_senders[q] \union {s} ELSE m_senders[q]
    BY Zenon DEF Connect, TypeOK
  <1>5. \A t \in Signal : m_connected_slots[t] \subseteq Node
    BY SMTT(20), BoundsAssumption DEF TypeOK, Node
  <1>6. s \in signals /\ p \in slots /\ To(s, p) = {}
        /\ signals' = signals /\ slots' = slots /\ slots \subseteq Slot
    BY DEF Connect, TypeOK
  <1> HIDE DEF new
  <1>7. \A t \in Signal, q \in Slot : To(t, q)' =
          IF t = s /\ q = p THEN To(t, q) \union {new} ELSE To(t, q)
    BY ZenonT(30), <1>1, <1>2, <1>3, <1>5 DEF To
  <1>8. ConnectionsMirrored'
    <2>1. \A t \in Signal : m_connected_slots'[t] # {} => t \in signals'
      BY Zenon, <1>2, <1>6 DEF ConnectionsMirrored
    <2>2. \A t \in Signal : \A n \in m_connected_slots'[t] : getdest'[n] \in slots'
      <3>1. ASSUME NEW t \in Signal, NEW n \in m_connected_slots'[t]
            PROVE  n = new \/ (n \in m_connected_slots[t] /\ n # new /\ n \in Node)
        BY Zenon, <1>1, <1>2, <1>5
      <3>2. \A t \in Signal : \A n \in m_connected_slots[t] : getdest[n] \in slots
        BY DEF ConnectionsMirrored
      <3> QED
        BY <3>1, <3>2, <1>1, <1>3, <1>6
    <2>3. \A q \in slots', t \in Signal : t \in m_senders'[q] <=> To(t, q)' # {}
      <3>1. \A q \in slots, t \in Signal : t \in m_senders[q] <=> To(t, q) # {}
        BY DEF ConnectionsMirrored
      <3>2. ASSUME NEW q \in slots, NEW t \in Signal
            PROVE  t \in m_senders'[q] <=> To(t, q)' # {}
        <4>1. q \in Slot
          BY <1>6
        <4>2. CASE t = s /\ q = p
          <5>1. s \in m_senders'[p] /\ new \in To(s, p)'
            BY Zenon, <4>1, <4>2, <1>4, <1>7
          <5> QED
            BY <4>2, <5>1
        <4>3. CASE ~ (t = s /\ q = p)
          <5>1. (t \in m_senders'[q] <=> t \in m_senders[q]) /\ To(t, q)' = To(t, q)
            BY Zenon, <4>1, <4>3, <1>4, <1>7
          <5> QED
            BY <5>1, <3>1
        <4> QED
          BY <4>2, <4>3
      <3> QED
        BY <3>2, <1>6
    <2> QED
      BY <2>1, <2>2, <2>3 DEF ConnectionsMirrored
  <1>9. ListsDisjoint'
    BY ZenonT(30), <1>1, <1>2 DEF ListsDisjoint
  <1>10. AtMostOne'
    <2>1. ASSUME NEW t \in Signal, NEW n \in m_connected_slots'[t],
                 NEW k \in m_connected_slots'[t], getdest'[n] = getdest'[k]
          PROVE  n = k
      <3>1. \A m \in m_connected_slots[t] : m # new /\ getdest'[m] = getdest[m]
        BY <1>1, <1>3, <1>5
      <3>2. t = s => \A m \in m_connected_slots[t] : getdest[m] # p
        BY <1>6 DEF To
      <3>3. getdest'[new] = p
        BY <1>1, <1>3
      <3>4. \A m \in m_connected_slots'[t] :
               m \in m_connected_slots[t] \/ (t = s /\ m = new)
        BY Zenon, <1>2
      <3>5. CASE n \in m_connected_slots[t] /\ k \in m_connected_slots[t]
        BY <2>1, <3>1, <3>5 DEF AtMostOne
      <3> QED
        BY <2>1, <3>1, <3>2, <3>3, <3>4, <3>5
    <2> QED
      BY <2>1 DEF AtMostOne
  <1> QED
    BY <1>8, <1>9, <1>10

(* Erasing nodes keeps the lists disjoint and single. *)
LEMMA EraseMirror ==
    ASSUME MirrorInv, NEW gone, Erase(gone), getdest' = getdest
    PROVE  /\ \A t \in Signal : m_connected_slots'[t] = m_connected_slots[t] \ gone
           /\ \A t \in Signal, q \in Slot : To(t, q)' = To(t, q) \ gone
           /\ ListsDisjoint' /\ AtMostOne'
  <1>1. \A t \in Signal : m_connected_slots'[t] = m_connected_slots[t] \ gone
    BY DEF Erase
  <1>2. \A t \in Signal, q \in Slot : To(t, q)' = To(t, q) \ gone
    BY <1>1 DEF To
  <1>3. ListsDisjoint' /\ AtMostOne'
    BY <1>1 DEF MirrorInv, ListsDisjoint, AtMostOne
  <1> QED
    BY <1>1, <1>2, <1>3

LEMMA DisconnectMirror ==
    ASSUME MirrorInv, TypeOK', NEW s \in Signal, NEW p \in Slot, Disconnect(s, p)
    PROVE  MirrorInv'
  <1> USE DEF MirrorInv
  <1> DEFINE n == FirstFrom(To(s, p), 0)
  <1>1. n \in To(s, p)
    <2>1. To(s, p) \in SUBSET Node /\ To(s, p) # {}
      BY BoundsAssumption DEF TypeOK, To, Node, Disconnect
    <2>2. 0 \in Nat /\ 0 <= End
      BY EndIsLast
    <2>3. /\ n \in To(s, p) \union {End}
          /\ \A k \in To(s, p) : k >= 0 => k >= n
      BY <2>1, <2>2, FirstFromLeast
    <2>4. PICK k \in To(s, p) : k \in Nat /\ k < End
      BY <2>1, EndIsLast
    <2> HIDE DEF n
    <2>5. n # End
      BY <2>3, <2>4, EndIsLast
    <2> QED
      BY <2>3, <2>5
  <1>2. Erase({n}) /\ getdest' = getdest /\ slots' = slots /\ signals' = signals
    BY DEF Disconnect
  <1> HIDE DEF n
  <1>3. To(s, p) = {n}
    BY SMTT(20), <1>1 DEF To, AtMostOne
  <1>4. /\ \A t \in Signal : m_connected_slots'[t] = m_connected_slots[t] \ {n}
        /\ \A t \in Signal, q \in Slot : To(t, q)' = To(t, q) \ {n}
        /\ ListsDisjoint' /\ AtMostOne'
    BY SMTT(20), <1>2, EraseMirror
  <1>5. \A t \in Signal, q \in Slot :
          To(t, q)' = IF t = s /\ q = p THEN {} ELSE To(t, q)
    BY <1>1, <1>3, <1>4 DEF ListsDisjoint, To
  <1>6. \A q \in Slot : m_senders'[q] =
          IF q = p THEN m_senders[q] \ {s} ELSE m_senders[q]
    BY ZenonT(30) DEF Disconnect, TypeOK
  <1>7. ConnectionsMirrored'
    <2>1. \A q \in slots', t \in Signal : t \in m_senders'[q] <=> To(t, q)' # {}
      BY <1>2, <1>5, <1>6 DEF ConnectionsMirrored, TypeOK
    <2> QED
      BY SMTT(20), <2>1, <1>2, <1>4 DEF ConnectionsMirrored
  <1> QED
    BY <1>4, <1>7

LEMMA ForgetMirror ==
    ASSUME MirrorInv, TypeOK', NEW p \in Slot, SlotDisconnectAll(p) \/ DestroySlot(p)
    PROVE  MirrorInv'
  <1> USE DEF MirrorInv
  <1> DEFINE gone == UNION {To(s, p) : s \in m_senders[p]}
  <1>1. /\ Erase(gone) /\ getdest' = getdest /\ signals' = signals /\ p \in slots
        /\ m_senders' = [m_senders EXCEPT ![p] = {}]
        /\ slots' = slots \/ slots' = slots \ {p}
    BY DEF SlotDisconnectAll, DestroySlot, ForgetAll
  <1>2. \A n : n \in gone <=> \E s \in m_senders[p] : n \in To(s, p)
    OBVIOUS
  <1> HIDE DEF gone
  <1>3. \A n : n \in gone <=> \E s \in Signal : n \in To(s, p)
    BY SMTT(20), <1>1, <1>2 DEF ConnectionsMirrored, TypeOK
  <1>4. /\ \A t \in Signal : m_connected_slots'[t] = m_connected_slots[t] \ gone
        /\ \A t \in Signal, q \in Slot : To(t, q)' = To(t, q) \ gone
        /\ ListsDisjoint' /\ AtMostOne'
    BY <1>1, EraseMirror
  <1>5. \A t \in Signal, q \in Slot :
          To(t, q)' = IF q = p THEN {} ELSE To(t, q)
    BY <1>3, <1>4 DEF To
  <1>6. \A q \in Slot : m_senders'[q] = IF q = p THEN {} ELSE m_senders[q]
    BY <1>1 DEF TypeOK
  <1>7. ConnectionsMirrored'
    <2>1. \A q \in slots', t \in Signal : t \in m_senders'[q] <=> To(t, q)' # {}
      BY SMTT(20), <1>1, <1>5, <1>6 DEF ConnectionsMirrored, TypeOK
    <2>2. \A t \in Signal : \A n \in m_connected_slots'[t] : getdest'[n] \in slots'
      BY <1>1, <1>3, <1>4 DEF ConnectionsMirrored, To
    <2>3. \A t \in Signal : m_connected_slots'[t] # {} => t \in signals'
      BY <1>1, <1>4 DEF ConnectionsMirrored
    <2> QED
      BY SMTT(20), <2>1, <2>2, <2>3 DEF ConnectionsMirrored
  <1> QED
    BY <1>4, <1>7

LEMMA DropMirror ==
    ASSUME MirrorInv, TypeOK', NEW s \in Signal,
           SignalDisconnectAll(s) \/ DestroySignal(s)
    PROVE  MirrorInv'
  <1> USE DEF MirrorInv
  <1>1. /\ DropAll(s) /\ getdest' = getdest /\ slots' = slots
        /\ signals' = signals \/ signals' = signals \ {s}
    BY DEF SignalDisconnectAll, DestroySignal
  <1>2. \A t \in Signal :
          m_connected_slots'[t] = IF t = s THEN {} ELSE m_connected_slots[t]
    BY <1>1 DEF DropAll, TypeOK
  <1>3. \A t \in Signal, q \in Slot : To(t, q)' = IF t = s THEN {} ELSE To(t, q)
    BY <1>1, <1>2 DEF To
  <1>4. \A q \in Slot : m_senders'[q] =
          IF To(s, q) = {} THEN m_senders[q] ELSE m_senders[q] \ {s}
    BY SMTT(20), <1>1 DEF DropAll
  <1>5. ConnectionsMirrored'
    <2>1. \A q \in slots', t \in Signal : t \in m_senders'[q] <=> To(t, q)' # {}
      BY SMTT(20), <1>1, <1>3, <1>4 DEF ConnectionsMirrored, TypeOK
    <2> QED
      BY SMTT(20), <2>1, <1>1, <1>2 DEF ConnectionsMirrored
  <1>6. ListsDisjoint' /\ AtMostOne'
    BY SMTT(20), <1>1, <1>2 DEF ListsDisjoint, AtMostOne
  <1> QED
    BY <1>5, <1>6

(* What Copies(Old) gives: a new node for each original, and no two for    *)
(* one.                                                                    *)
LEMMA CopiesInjective ==
    ASSUME TypeOK, NEW Old, Old \subseteq Node, NEW f \in Copies(Old),
           pushed + Cardinality(Old) <= MaxConn
    PROVE  /\ DOMAIN f \subseteq Node
           /\ \A n \in DOMAIN f : f[n] \in Old
           /\ \A n, k \in DOMAIN f : f[n] = f[k] => n = k
           /\ \A n \in Old : \E i \in DOMAIN f : f[i] = n
           /\ \A s \in Signal : m_connected_slots[s] \intersect DOMAIN f = {}
  <1>1. /\ pushed \in Nat /\ MaxConn \in Nat /\ Cardinality(Old) \in Nat
    BY BoundsAssumption, CardinalityOfNodes DEF TypeOK
  <1>2. /\ DOMAIN f = (pushed + 1)..(pushed + Cardinality(Old))
        /\ \A n \in DOMAIN f : f[n] \in Old
        /\ \A i, j \in DOMAIN f : i < j => f[i] < f[j]
        /\ \A n \in Old : \E i \in DOMAIN f : f[i] = n
    BY DEF Copies
  <1>3. DOMAIN f \subseteq Node
    BY <1>1, <1>2 DEF Node
  <1>4. \A n, k \in DOMAIN f : f[n] = f[k] => n = k
    <2> SUFFICES ASSUME NEW n \in DOMAIN f, NEW k \in DOMAIN f, f[n] = f[k]
                 PROVE  n = k
      OBVIOUS
    <2>1. n \in Nat /\ k \in Nat /\ f[n] \in Nat /\ f[k] \in Nat
      BY <1>2, <1>3, EndIsLast
    <2>2. ~ (n < k) /\ ~ (k < n)
      BY <2>1, <1>2
    <2> QED
      BY <2>1, <2>2
  <1>5. \A s \in Signal : m_connected_slots[s] \intersect DOMAIN f = {}
    BY <1>1, <1>2 DEF TypeOK
  <1> QED
    BY <1>2, <1>3, <1>4, <1>5

LEMMA CopySignalMirror ==
    ASSUME MirrorInv, TypeOK', NEW o \in Signal, NEW s \in Signal, CopySignal(o, s)
    PROVE  MirrorInv'
  <1> USE DEF MirrorInv
  <1>1. PICK f \in Copies(m_connected_slots[o]) :
          /\ getdest' = [n \in Node |->
                            IF n \in DOMAIN f THEN getdest[f[n]] ELSE getdest[n]]
          /\ m_connected_slots' = [m_connected_slots EXCEPT ![s] = DOMAIN f]
    BY Zenon DEF CopySignal
  <1>2. \A t \in Signal : m_connected_slots[t] \subseteq Node
    BY SMTT(20), BoundsAssumption DEF TypeOK, Node
  <1>3. /\ DOMAIN f \subseteq Node
        /\ \A n \in DOMAIN f : f[n] \in m_connected_slots[o]
        /\ \A n, k \in DOMAIN f : f[n] = f[k] => n = k
        /\ \A n \in m_connected_slots[o] : \E i \in DOMAIN f : f[i] = n
        /\ \A t \in Signal : m_connected_slots[t] \intersect DOMAIN f = {}
    BY SMTT(20), <1>1, <1>2, CopiesInjective DEF CopySignal
  <1>4. \A t \in Signal :
          m_connected_slots'[t] = IF t = s THEN DOMAIN f ELSE m_connected_slots[t]
    BY SMTT(20), <1>1 DEF TypeOK
  <1>5. /\ \A n \in DOMAIN f : getdest'[n] = getdest[f[n]]
        /\ \A t \in Signal : \A n \in m_connected_slots[t] : getdest'[n] = getdest[n]
    BY SMTT(20), <1>1, <1>2, <1>3
  <1>6. /\ slots' = slots /\ signals' = signals \union {s} /\ o \in signals
        /\ s \notin signals /\ slots \subseteq Slot
        /\ \A q \in Slot : m_senders'[q] =
               IF To(o, q) = {} THEN m_senders[q] ELSE m_senders[q] \union {s}
    BY SMTT(20) DEF CopySignal, TypeOK
  <1>7. ListsDisjoint'
    BY SMTT(20), <1>3, <1>4 DEF ListsDisjoint
  <1>8. AtMostOne'
    <2>1. ASSUME NEW t \in Signal, NEW n \in m_connected_slots'[t],
                 NEW k \in m_connected_slots'[t], getdest'[n] = getdest'[k]
          PROVE  n = k
      <3>1. CASE t = s
        <4>1. n \in DOMAIN f /\ k \in DOMAIN f
          BY <3>1, <1>4
        <4>2. getdest[f[n]] = getdest[f[k]]
          BY <4>1, <2>1, <1>5
        <4>3. f[n] = f[k]
          BY <4>1, <4>2, <1>3 DEF AtMostOne
        <4> QED
          BY <4>1, <4>3, <1>3
      <3>2. CASE t # s
        BY SMTT(20), <3>2, <2>1, <1>4, <1>5 DEF AtMostOne
      <3> QED
        BY <3>1, <3>2
    <2> QED
      BY <2>1 DEF AtMostOne
  <1>9. ConnectionsMirrored'
    <2>1. \A t \in Signal : m_connected_slots'[t] # {} => t \in signals'
      BY SMTT(20), <1>4, <1>6 DEF ConnectionsMirrored
    <2>2. \A t \in Signal : \A n \in m_connected_slots'[t] : getdest'[n] \in slots'
      <3>1. \A t \in Signal : \A n \in m_connected_slots[t] : getdest[n] \in slots
        BY SMTT(20) DEF ConnectionsMirrored
      <3> QED
        BY SMTT(20), <3>1, <1>3, <1>4, <1>5, <1>6
    <2>3. ASSUME NEW q \in slots, NEW t \in Signal
          PROVE  t \in m_senders'[q] <=> To(t, q)' # {}
      <3>1. t \in m_senders[q] <=> To(t, q) # {}
        BY SMTT(20) DEF ConnectionsMirrored
      <3>2. CASE t # s
        <4>1. To(t, q)' = To(t, q)
          BY <3>2, <1>4, <1>5 DEF To
        <4>2. t \in m_senders'[q] <=> t \in m_senders[q]
          BY ZenonT(30), <3>2, <1>6
        <4> QED
          BY SMTT(20), <3>1, <4>1, <4>2
      <3>3. CASE t = s
        <4>1. s \notin m_senders[q]
          BY <3>1, <3>3, <1>6 DEF ConnectionsMirrored, To
        <4>2. s \in m_senders'[q] <=> To(o, q) # {}
          BY ZenonT(30), <4>1, <1>6
        <4>3. To(s, q)' = {n \in DOMAIN f : getdest[f[n]] = q}
          BY SMTT(20), <1>4, <1>5 DEF To
        <4>4. To(s, q)' # {} => To(o, q) # {}
          BY SMTT(20), <4>3, <1>3 DEF To
        <4>5. To(o, q) # {} => To(s, q)' # {}
          BY <4>3, <1>3 DEF To
        <4> QED
          BY SMTT(20), <3>3, <4>2, <4>4, <4>5
      <3> QED
        BY <3>2, <3>3
    <2> QED
      BY SMTT(20), <2>1, <2>2, <2>3, <1>6 DEF ConnectionsMirrored
  <1> QED
    BY <1>7, <1>8, <1>9

LEMMA CopySlotMirror ==
    ASSUME MirrorInv, TypeOK', NEW o \in Slot, NEW p \in Slot, CopySlot(o, p)
    PROVE  MirrorInv'
  <1> USE DEF MirrorInv
  <1> DEFINE Old == UNION {To(s, o) : s \in m_senders[o]}
  <1>1. PICK f \in Copies(Old) :
          /\ getdest' = [n \in Node |-> IF n \in DOMAIN f THEN p ELSE getdest[n]]
          /\ m_connected_slots' = [s \in Signal |->
                m_connected_slots[s] \union
                    {n \in DOMAIN f : f[n] \in m_connected_slots[s]}]
    BY Zenon DEF CopySlot
  <1>2. \A t \in Signal : m_connected_slots[t] \subseteq Node
    BY BoundsAssumption DEF TypeOK, Node
  <1>3. \A n : n \in Old <=> \E s \in m_senders[o] : n \in To(s, o)
    OBVIOUS
  <1>4. Old \subseteq Node
    BY SMTT(20), <1>2 DEF TypeOK, To
  <1>5. pushed + Cardinality(Old) <= MaxConn
    BY SMTT(20) DEF CopySlot
  <1> HIDE DEF Old
  <1>6. /\ DOMAIN f \subseteq Node
        /\ \A n \in DOMAIN f : f[n] \in Old
        /\ \A n, k \in DOMAIN f : f[n] = f[k] => n = k
        /\ \A n \in Old : \E i \in DOMAIN f : f[i] = n
        /\ \A t \in Signal : m_connected_slots[t] \intersect DOMAIN f = {}
    BY SMTT(20), <1>1, <1>4, <1>5, CopiesInjective
  <1>7. /\ o \in slots /\ p \notin slots /\ slots' = slots \union {p}
        /\ signals' = signals /\ slots \subseteq Slot
        /\ \A q \in Slot : m_senders'[q] = IF q = p THEN m_senders[o] ELSE m_senders[q]
    BY SMTT(20) DEF CopySlot, TypeOK
  <1>8. /\ \A s \in Signal : s \in m_senders[o] <=> To(s, o) # {}
        /\ \A s \in Signal, q \in Slot : q \notin slots => To(s, q) = {}
    BY <1>7 DEF ConnectionsMirrored, To
  <1>9. \A n \in DOMAIN f : getdest[f[n]] = o
    BY SMTT(20), <1>3, <1>6 DEF To
  <1>10. /\ \A n \in DOMAIN f : getdest'[n] = p
         /\ \A t \in Signal : \A n \in m_connected_slots[t] :
               getdest'[n] = getdest[n] /\ n \notin DOMAIN f /\ getdest[n] # p
    BY SMTT(20), <1>1, <1>2, <1>6, <1>7 DEF ConnectionsMirrored
  <1>11. \A t \in Signal : \A n : n \in m_connected_slots'[t] <=>
            \/ n \in m_connected_slots[t]
            \/ n \in DOMAIN f /\ f[n] \in m_connected_slots[t]
    BY SMTT(20), <1>1
  <1>12. ListsDisjoint'
    <2> SUFFICES ASSUME NEW s \in Signal, NEW t \in Signal, s # t,
                        NEW n, n \in m_connected_slots'[s], n \in m_connected_slots'[t]
                 PROVE  FALSE
      BY DEF ListsDisjoint
    <2> QED
      BY <1>10, <1>11 DEF ListsDisjoint
  <1>13. AtMostOne'
    <2>1. ASSUME NEW t \in Signal, NEW n \in m_connected_slots'[t],
                 NEW k \in m_connected_slots'[t], getdest'[n] = getdest'[k]
          PROVE  n = k
      <3>1. CASE n \in DOMAIN f
        <4>1. k \in DOMAIN f
          BY SMTT(20), <3>1, <2>1, <1>10, <1>11
        <4>2. f[n] \in m_connected_slots[t] /\ f[k] \in m_connected_slots[t]
          BY SMTT(20), <3>1, <4>1, <1>10, <1>11
        <4>3. f[n] = f[k]
          BY SMTT(20), <3>1, <4>1, <4>2, <1>9 DEF AtMostOne
        <4> QED
          BY SMTT(20), <3>1, <4>1, <4>3, <1>6
      <3>2. CASE n \notin DOMAIN f
        <4>1. n \in m_connected_slots[t]
          BY SMTT(20), <3>2, <1>11
        <4>2. k \in m_connected_slots[t]
          BY SMTT(20), <4>1, <2>1, <1>10, <1>11
        <4> QED
          BY SMTT(20), <4>1, <4>2, <2>1, <1>10 DEF AtMostOne
      <3> QED
        BY SMTT(20), <3>1, <3>2
    <2> QED
      BY <2>1 DEF AtMostOne
  <1>14. ConnectionsMirrored'
    <2>1. \A t \in Signal : m_connected_slots'[t] # {} => t \in signals'
      BY SMTT(20), <1>7, <1>11 DEF ConnectionsMirrored
    <2>2. \A t \in Signal : \A n \in m_connected_slots'[t] : getdest'[n] \in slots'
      BY SMTT(20), <1>7, <1>10, <1>11 DEF ConnectionsMirrored
    <2>3. ASSUME NEW q \in slots', NEW t \in Signal
          PROVE  t \in m_senders'[q] <=> To(t, q)' # {}
      <3>1. CASE q # p
        <4>1. To(t, q)' = To(t, q)
          BY SMTT(20), <3>1, <1>10, <1>11 DEF To
        <4>2. q \in slots /\ m_senders'[q] = m_senders[q]
          BY SMTT(20), <3>1, <1>7
        <4> QED
          BY <4>1, <4>2 DEF ConnectionsMirrored
      <3>2. CASE q = p
        <4>1. t \in m_senders'[p] <=> To(t, o) # {}
          BY SMTT(20), <1>7, <1>8
        <4>2. \A n : n \in To(t, p)' <=> n \in DOMAIN f /\ f[n] \in m_connected_slots[t]
          BY SMTT(20), <1>10, <1>11 DEF To
        <4>3. To(t, p)' # {} => To(t, o) # {}
          BY SMTT(20), <4>2, <1>9 DEF To
        <4>4. ASSUME NEW m \in To(t, o) PROVE To(t, p)' # {}
          <5>1. m \in Old
            BY <4>4, <1>3, <1>8
          <5>2. m \in m_connected_slots[t]
            BY <4>4 DEF To
          <5> QED
            BY SMTT(20), <5>1, <5>2, <4>2, <1>6
        <4> QED
          BY SMTT(20), <3>2, <4>1, <4>3, <4>4
      <3> QED
        BY SMTT(20), <3>1, <3>2
    <2> QED
      BY SMTT(20), <2>1, <2>2, <2>3 DEF ConnectionsMirrored
  <1> QED
    BY <1>12, <1>13, <1>14

LEMMA NextMirror ==
    ASSUME ~ Repeated, MirrorInv, TypeOK', [Next]_vars
    PROVE  MirrorInv'
  <1>1. CASE UNCHANGED vars
    BY SMTT(20), <1>1 DEF vars, MirrorInv, ConnectionsMirrored, ListsDisjoint, AtMostOne, To
  <1>2. ASSUME EmitCall \/ SlotReturn \/ EmitReturn \/ \E s \in Signal : EmitBegin(s)
        PROVE  MirrorInv'
    <2>1. UNCHANGED <<signals, slots, m_connected_slots, getdest, m_senders>>
      BY ZenonT(30), <1>2 DEF EmitCall, SlotReturn, EmitReturn, EmitBegin
    <2> QED
      BY <2>1 DEF MirrorInv, ConnectionsMirrored, ListsDisjoint, AtMostOne, To
  <1>3. CASE Next
    BY SMTT(20), <1>2, <1>3, CreateMirror, CopySignalMirror, CopySlotMirror, ConnectMirror,
       DisconnectMirror, ForgetMirror, DropMirror DEF Next
  <1> QED
    BY SMTT(20), <1>1, <1>3

LEMMA InitMirror == Init => MirrorInv
  <1> SUFFICES ASSUME Init PROVE MirrorInv
    OBVIOUS
  <1>1. TypeOK
    BY InitDispatch DEF DispatchInv
  <1> QED
    BY <1>1 DEF Init, MirrorInv, ConnectionsMirrored, ListsDisjoint, AtMostOne, To

(* The two ends of every connection agree when no object is connected      *)
(* twice to one signal.                                                    *)
THEOREM ConnectionsStayMirrored ==
    ASSUME ~ Repeated
    PROVE  Spec => []ConnectionsMirrored
  <1>1. DispatchInv /\ MirrorInv /\ [Next]_vars => DispatchInv' /\ MirrorInv'
    BY NextDispatch, NextMirror DEF DispatchInv
  <1>2. MirrorInv => ConnectionsMirrored
    BY DEF MirrorInv
  <1> QED
    BY <1>1, <1>2, InitDispatch, InitMirror, PTL DEF Spec

(* Then emit never calls a destroyed object. *)
THEOREM NoCallOfTheDead ==
    ASSUME ~ Repeated
    PROVE  Spec => []NextCallIsLive
  <1>1. DispatchInv /\ ConnectionsMirrored => NextCallIsLive
    <2> SUFFICES ASSUME DispatchInv, ConnectionsMirrored, stack # <<>>,
                        m_current_iterator[Top.signal] # End
                 PROVE  LET n == m_current_iterator[Top.signal] IN
                        n \in m_connected_slots[Top.signal] /\ getdest[n] \in slots
      BY DEF NextCallIsLive
    <2>1. TypeOK
      BY DEF DispatchInv
    <2>2. Top.signal \in Signal
      BY <2>1, TopFrame DEF Frame
    <2> QED
      BY <2>2 DEF DispatchInv, IteratorInv, ConnectionsMirrored
  <1> QED
    BY <1>1, DispatchInvariance, ConnectionsStayMirrored, PTL
=============================================================================
