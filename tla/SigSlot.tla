------------------------------- MODULE SigSlot -------------------------------
(***************************************************************************)
(* Signals and slots (rtc_base/third_party/sigslot/sigslot.h) used from    *)
(* one thread, the default policy of this copy of the library.             *)
(*                                                                         *)
(* What makes the code delicate is re-entrancy: emit walks the list of     *)
(* connections with an iterator kept in the signal (m_current_iterator),   *)
(* and the slot it calls may connect, disconnect, copy or destroy anything *)
(* and may emit the same signal again before it returns.                   *)
(*                                                                         *)
(* A connection is a list node.  Nodes are numbered in the order in which  *)
(* they are pushed, and every insertion is a push_back, so a list is a set *)
(* of nodes and list order is numeric order.  End stands for end().        *)
(***************************************************************************)
EXTENDS Naturals, Sequences, FiniteSets

CONSTANTS
    Signal,     \* addresses of signals
    Slot,       \* addresses of objects that inherit has_slots
    MaxConn,    \* bound: connections made in a behaviour
    MaxDepth,   \* bound: emissions in progress at once
    Repeated    \* may a client connect an object twice to one signal?

ASSUME BoundsAssumption == MaxConn \in Nat /\ MaxDepth \in Nat
ASSUME RepeatedAssumption == Repeated \in BOOLEAN

Node == 1..MaxConn
End == MaxConn + 1

VARIABLES
    signals,            \* the signals alive
    slots,              \* the has_slots objects alive
    m_connected_slots,  \* the nodes in each signal's list
    m_current_iterator, \* each signal's iterator
    getdest,            \* the object each node calls
    pushed,             \* nodes allocated so far
    m_senders,          \* the signals each has_slots object knows
    stack               \* the calls of emit in progress, outermost first

vars == <<signals, slots, m_connected_slots, m_current_iterator, getdest,
          pushed, m_senders, stack>>

(* inSlot: the frame is inside a slot it called.  done and due are history:*)
(* the nodes this call of emit has called, and the nodes that were in the  *)
(* list when it began, are still there, and have not been called since.    *)
Frame == [signal : Signal, inSlot : BOOLEAN, done : SUBSET Node, due : SUBSET Node]

TypeOK ==
    /\ signals \subseteq Signal
    /\ slots \subseteq Slot
    /\ m_connected_slots \in [Signal -> SUBSET (1..pushed)]
    /\ m_current_iterator \in [Signal -> Node \union {End}]
    /\ getdest \in [Node -> Slot]
    /\ pushed \in 0..MaxConn
    /\ m_senders \in [Slot -> SUBSET Signal]
    /\ stack \in Seq(Frame)

-----------------------------------------------------------------------------
(* The first position of list C at or after position n. *)
FirstFrom(C, n) ==
    CHOOSE m \in C \union {End} : m >= n /\ \A k \in C : k >= n => k >= m

Top == stack[Len(stack)]
Firing(s) == \E i \in 1..Len(stack) : stack[i].signal = s

(* Client code runs outside every emission, or in the slot last called. *)
ClientRuns == stack # <<>> => Top.inSlot

To(s, p) == {n \in m_connected_slots[s] : getdest[n] = p}

(* Erase gone from the lists: an iterator at an erased node moves to what  *)
(* list::erase returns; the history forgets the nodes that are gone.       *)
Erase(gone) ==
    /\ m_connected_slots' = [s \in Signal |-> m_connected_slots[s] \ gone]
    /\ m_current_iterator' = [s \in Signal |->
          IF m_current_iterator[s] \in gone
          THEN FirstFrom(m_connected_slots[s] \ gone, m_current_iterator[s])
          ELSE m_current_iterator[s]]
    /\ stack' = [i \in DOMAIN stack |->
                    [stack[i] EXCEPT !.due = @ \ gone]]

(* The nodes Old are copied, in order, to the back: f gives the original   *)
(* of each new node.                                                       *)
Copies(Old) ==
    {f \in [(pushed + 1)..(pushed + Cardinality(Old)) -> Old] :
        /\ \A i, j \in DOMAIN f : i < j => f[i] < f[j]
        /\ \A n \in Old : \E i \in DOMAIN f : f[i] = n}

-----------------------------------------------------------------------------
(* Constructors. *)
CreateSignal(s) ==
    /\ ClientRuns
    /\ s \notin signals
    /\ signals' = signals \union {s}
    /\ m_connected_slots' = [m_connected_slots EXCEPT ![s] = {}]
    /\ m_current_iterator' = [m_current_iterator EXCEPT ![s] = End]
    /\ UNCHANGED <<slots, getdest, pushed, m_senders, stack>>

CreateSlot(p) ==
    /\ ClientRuns
    /\ p \notin slots
    /\ slots' = slots \union {p}
    /\ m_senders' = [m_senders EXCEPT ![p] = {}]
    /\ UNCHANGED <<signals, m_connected_slots, m_current_iterator, getdest,
                   pushed, stack>>

(* A new signal with the connections of o.  Its destinations learn of it. *)
CopySignal(o, s) ==
    /\ ClientRuns
    /\ o \in signals /\ s \notin signals
    /\ pushed + Cardinality(m_connected_slots[o]) <= MaxConn
    /\ \E f \in Copies(m_connected_slots[o]) :
          /\ getdest' = [n \in Node |->
                            IF n \in DOMAIN f THEN getdest[f[n]] ELSE getdest[n]]
          /\ m_connected_slots' = [m_connected_slots EXCEPT ![s] = DOMAIN f]
    /\ signals' = signals \union {s}
    /\ m_current_iterator' = [m_current_iterator EXCEPT ![s] = End]
    /\ pushed' = pushed + Cardinality(m_connected_slots[o])
    /\ m_senders' = [p \in Slot |-> IF To(o, p) = {} THEN m_senders[p]
                                    ELSE m_senders[p] \union {s}]
    /\ UNCHANGED <<slots, stack>>

(* A new object connected wherever o is: each signal o knows duplicates    *)
(* its connections to o (do_slot_duplicate).                               *)
CopySlot(o, p) ==
    LET Old == UNION {To(s, o) : s \in m_senders[o]} IN
    /\ ClientRuns
    /\ o \in slots /\ p \notin slots
    /\ pushed + Cardinality(Old) <= MaxConn
    /\ \E f \in Copies(Old) :
          /\ getdest' = [n \in Node |-> IF n \in DOMAIN f THEN p ELSE getdest[n]]
          /\ m_connected_slots' = [s \in Signal |->
                m_connected_slots[s] \union
                    {n \in DOMAIN f : f[n] \in m_connected_slots[s]}]
    /\ slots' = slots \union {p}
    /\ pushed' = pushed + Cardinality(Old)
    /\ m_senders' = [m_senders EXCEPT ![p] = m_senders[o]]
    /\ UNCHANGED <<signals, m_current_iterator, stack>>

-----------------------------------------------------------------------------
Connect_NoSender(s, p) ==
    /\ ClientRuns
    /\ s \in signals /\ p \in slots
    /\ ~ Repeated => To(s, p) = {}
    /\ pushed < MaxConn
    /\ pushed' = pushed + 1
    /\ m_connected_slots' = [m_connected_slots EXCEPT ![s] = @ \union {pushed + 1}]
    /\ getdest' = [getdest EXCEPT ![pushed + 1] = p]
    /\ UNCHANGED <<signals, slots, m_senders, m_current_iterator, stack>>

(* signal_with_thread_policy::connect, with has_slots::do_signal_connect. *)
Connect(s, p) ==
    /\ ClientRuns
    /\ s \in signals /\ p \in slots
    /\ ~ Repeated => To(s, p) = {}
    /\ pushed < MaxConn
    /\ pushed' = pushed + 1
    /\ m_connected_slots' = [m_connected_slots EXCEPT ![s] = @ \union {pushed + 1}]
    /\ getdest' = [getdest EXCEPT ![pushed + 1] = p]
    /\ m_senders' = [m_senders EXCEPT ![p] = @ \union {s}]
    /\ UNCHANGED <<signals, slots, m_current_iterator, stack>>

(* _signal_base::disconnect: the first connection to p goes, and p forgets *)
(* the signal; nothing happens when there is none.                         *)
Disconnect(s, p) ==
    /\ ClientRuns
    /\ s \in signals /\ p \in slots
    /\ To(s, p) # {}
    /\ Erase({FirstFrom(To(s, p), 0)})
    /\ m_senders' = [m_senders EXCEPT ![p] = @ \ {s}]
    /\ UNCHANGED <<signals, slots, getdest, pushed>>

(* _signal_base::disconnect_all.  The iterator is set to end() whether or  *)
(* not the signal is firing.                                               *)
DropAll(s) ==
    /\ m_connected_slots' = [m_connected_slots EXCEPT ![s] = {}]
    /\ m_current_iterator' = [m_current_iterator EXCEPT ![s] = End]
    /\ m_senders' = [p \in Slot |-> IF To(s, p) = {} THEN m_senders[p]
                                    ELSE m_senders[p] \ {s}]
    /\ stack' = [i \in DOMAIN stack |->
                    [stack[i] EXCEPT !.due = @ \ m_connected_slots[s]]]

SignalDisconnectAll(s) ==
    /\ ClientRuns
    /\ s \in signals
    /\ DropAll(s)
    /\ UNCHANGED <<signals, slots, getdest, pushed>>

(* A signal is not destroyed by a slot it is calling: emit goes on to read *)
(* its iterator.                                                           *)
DestroySignal(s) ==
    /\ ClientRuns
    /\ s \in signals
    /\ ~ Firing(s)
    /\ DropAll(s)
    /\ signals' = signals \ {s}
    /\ UNCHANGED <<slots, getdest, pushed>>

ForgetAll_NoErase(p) ==
    /\ m_senders' = [m_senders EXCEPT ![p] = {}]
    /\ UNCHANGED <<m_connected_slots, m_current_iterator, stack>>

(* has_slots::do_disconnect_all: every signal the object knows erases all  *)
(* its connections to it (do_slot_disconnect).                             *)
ForgetAll(p) ==
    /\ Erase(UNION {To(s, p) : s \in m_senders[p]})
    /\ m_senders' = [m_senders EXCEPT ![p] = {}]

SlotDisconnectAll(p) ==
    /\ ClientRuns
    /\ p \in slots
    /\ ForgetAll(p)
    /\ UNCHANGED <<signals, slots, getdest, pushed>>

DestroySlot(p) ==
    /\ ClientRuns
    /\ p \in slots
    /\ ForgetAll(p)
    /\ slots' = slots \ {p}
    /\ UNCHANGED <<signals, getdest, pushed>>

-----------------------------------------------------------------------------
EmitBegin_Resume(s) ==
    /\ ClientRuns
    /\ s \in signals
    /\ Len(stack) < MaxDepth
    /\ m_current_iterator' = [m_current_iterator EXCEPT
          ![s] = IF Firing(s) THEN @ ELSE FirstFrom(m_connected_slots[s], 0)]
    /\ stack' = Append(stack, [signal |-> s, inSlot |-> FALSE, done |-> {},
                               due |-> m_connected_slots[s]])
    /\ UNCHANGED <<signals, slots, m_connected_slots, getdest, pushed, m_senders>>

(* emit: the iterator starts at begin(). *)
EmitBegin(s) ==
    /\ ClientRuns
    /\ s \in signals
    /\ Len(stack) < MaxDepth
    /\ m_current_iterator' = [m_current_iterator EXCEPT
                                 ![s] = FirstFrom(m_connected_slots[s], 0)]
    /\ stack' = Append(stack, [signal |-> s, inSlot |-> FALSE, done |-> {},
                               due |-> m_connected_slots[s]])
    /\ UNCHANGED <<signals, slots, m_connected_slots, getdest, pushed, m_senders>>

(* A frame when node n is called: the innermost emission (top) is inside   *)
(* the slot and has called n, and no emission owes n a call any more.      *)
Called(f, top, n) ==
    [f EXCEPT !.inSlot = top \/ @,
              !.done = IF top THEN @ \union {n} ELSE @,
              !.due = @ \ {n}]

EmitCall_NoAdvance ==
    /\ stack # <<>> /\ ~ Top.inSlot
    /\ LET s == Top.signal
           n == m_current_iterator[s] IN
       /\ n # End
       /\ m_current_iterator' = m_current_iterator
       /\ stack' = [i \in DOMAIN stack |-> Called(stack[i], i = Len(stack), n)]
    /\ UNCHANGED <<signals, slots, m_connected_slots, getdest, pushed, m_senders>>

(* The iterator is advanced past the node before the slot is called. *)
EmitCall ==
    /\ stack # <<>> /\ ~ Top.inSlot
    /\ LET s == Top.signal
           n == m_current_iterator[s] IN
       /\ n # End
       /\ m_current_iterator' = [m_current_iterator EXCEPT
                                    ![s] = FirstFrom(m_connected_slots[s], n + 1)]
       /\ stack' = [i \in DOMAIN stack |-> Called(stack[i], i = Len(stack), n)]
    /\ UNCHANGED <<signals, slots, m_connected_slots, getdest, pushed, m_senders>>

(* The slot last called returns to emit. *)
SlotReturn ==
    /\ stack # <<>> /\ Top.inSlot
    /\ stack' = [stack EXCEPT ![Len(stack)].inSlot = FALSE]
    /\ UNCHANGED <<signals, slots, m_connected_slots, m_current_iterator,
                   getdest, pushed, m_senders>>

EmitReturn ==
    /\ stack # <<>> /\ ~ Top.inSlot
    /\ m_current_iterator[Top.signal] = End
    /\ stack' = SubSeq(stack, 1, Len(stack) - 1)
    /\ UNCHANGED <<signals, slots, m_connected_slots, m_current_iterator,
                   getdest, pushed, m_senders>>

-----------------------------------------------------------------------------
Init ==
    /\ signals = {} /\ slots = {}
    /\ m_connected_slots = [s \in Signal |-> {}]
    /\ m_current_iterator = [s \in Signal |-> End]
    /\ getdest \in {[n \in Node |-> p] : p \in Slot}
    /\ pushed = 0
    /\ m_senders = [p \in Slot |-> {}]
    /\ stack = <<>>

Next ==
    \/ \E s \in Signal : CreateSignal(s)
    \/ \E p \in Slot : CreateSlot(p)
    \/ \E o, s \in Signal : CopySignal(o, s)
    \/ \E o, p \in Slot : CopySlot(o, p)
    \/ \E s \in Signal, p \in Slot : Connect(s, p)
    \/ \E s \in Signal, p \in Slot : Disconnect(s, p)
    \/ \E s \in Signal : SignalDisconnectAll(s)
    \/ \E s \in Signal : DestroySignal(s)
    \/ \E p \in Slot : SlotDisconnectAll(p)
    \/ \E p \in Slot : DestroySlot(p)
    \/ \E s \in Signal : EmitBegin(s)
    \/ EmitCall
    \/ SlotReturn
    \/ EmitReturn

Spec == Init /\ [][Next]_vars

(* Slots return, and a thread inside emit keeps running. *)
FairSpec ==
    /\ Spec
    /\ WF_vars(EmitCall) /\ WF_vars(EmitReturn)
    /\ \A d \in 1..MaxDepth : SF_vars(Len(stack) = d /\ SlotReturn)

-----------------------------------------------------------------------------
(* The two directions of every connection agree: a live signal's nodes     *)
(* lead to live objects, and an object's m_senders names exactly the       *)
(* signals that hold a connection to it, whatever slots did in between.    *)
(* ~has_slots relies on it: it only visits m_senders.                      *)
ConnectionsMirrored ==
    /\ \A s \in Signal : m_connected_slots[s] # {} => s \in signals
    /\ \A s \in Signal : \A n \in m_connected_slots[s] : getdest[n] \in slots
    /\ \A p \in slots, s \in Signal : s \in m_senders[p] <=> To(s, p) # {}

(* m_current_iterator is end() or a node still in the list, although slots *)
(* erase nodes while emit is using it ("to avoid it being invalidated").   *)
IteratorValid ==
    \A s \in signals :
        m_current_iterator[s] \in m_connected_slots[s] \union {End}

(* The node emit is about to call is in the list and belongs to an object  *)
(* that has not been destroyed.                                            *)
NextCallIsLive ==
    stack # <<>> /\ ~ Top.inSlot /\ m_current_iterator[Top.signal] # End
        => LET n == m_current_iterator[Top.signal] IN
           n \in m_connected_slots[Top.signal] /\ getdest[n] \in slots

(* When emit is about to return, every connection that was in the list     *)
(* when it began has been called since or has been disconnected, although  *)
(* an emission nested in a slot takes the iterator away from it.           *)
NoSlotMissed ==
    stack # <<>> /\ ~ Top.inSlot /\ m_current_iterator[Top.signal] = End
        => Top.due = {}

(* One call of emit never calls the same connection twice, not even after  *)
(* a nested emission of the same signal restarted the iterator.            *)
NoDoubleDelivery ==
    stack # <<>> /\ ~ Top.inSlot
        => m_current_iterator[Top.signal] \notin Top.done

(* If every slot returns and connections are made only finitely often      *)
(* (MaxConn), every emission ends.                                         *)
EmissionEnds == (stack # <<>>) ~> (stack = <<>>)
=============================================================================
