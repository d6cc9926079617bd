------------------------- MODULE SigSlotLocksProofs -------------------------
(***************************************************************************)
(* The multi_threaded_local policy of sigslot.h is enough for emissions:   *)
(* for any threads, signals and objects no emission calls an object that   *)
(* another thread has destroyed.                                           *)
(***************************************************************************)
EXTENDS SigSlotLocks, TLAPS

(* The stages of an operation. *)
Stage == {"begin", "slot", "locked", "end"}

(* The operations of a thread. *)
Operation ==
    {NoOperation} \cup [kind : OnSignal, at : Stage, signal : Signal, slot : Slot]
        \cup [kind : {"copy"}, at : Stage, signal : Signal, slot : Slot, source : Signal]
        \cup [kind : SlotFirst, at : Stage, slot : Slot]

(* The parts of the state. *)
LocksTypeOK ==
    /\ holder \in [Mutex -> SlotThread \cup {Free}]
    /\ m_connected_slots \in [Signal -> SUBSET Slot]
    /\ m_senders \in [Slot -> SUBSET Signal]
    /\ slotOp \in [SlotThread -> Operation]
    /\ todo \in [SlotThread -> SUBSET (Signal \cup Slot)]
    /\ whole \subseteq Slot

(* The operation o, with d left for its loop, has changed one end of the   *)
(* connection between s and p and will change the other.                   *)
Mends(o, d, s, p) ==
    \/ o.kind = "connect" /\ o.at = "slot" /\ o.signal = s /\ o.slot = p
    \/ o.kind \in SlotFirst /\ o.at = "locked" /\ o.slot = p /\ s \in d

(* What thread t knows that is in operation o, with d left for its loop:   *)
(* it holds the signal's mutex, so that nobody else changes the list.      *)
SoFar(t, o, d) ==
    /\ o.kind \in SignalFirst /\ o.at # "begin" => holder[o.signal] = t
    /\ o.kind = "emit" /\ o.at # "begin" => d \subseteq m_connected_slots[o.signal]
    /\ o.kind = "emit" /\ o.at = "slot" => o.slot \in m_connected_slots[o.signal]
    /\ o.kind \in {"disconnect", "disconnect_all"} /\ o.at = "slot" =>
          o.slot \notin m_connected_slots[o.signal]
    /\ o.kind \in Loops /\ o.at # "begin" => d \subseteq Slot
    /\ o.kind = "copy" /\ o.at # "begin" => \A p \in d : ~ Gone(p)
    /\ o.kind = "copy" /\ o.at = "slot" => ~ Gone(o.slot)
    /\ o.kind = "destroy" => o.slot \notin whole
    /\ o.kind = "destroy" /\ o.at = "locked" => m_senders[o.slot] = {}
    /\ o.kind \in {"connect", "disconnect", "forget_all"} => o.slot \in whole

(* A connection that the object does not know of is being made or removed. *)
Linked ==
    \A s \in Signal : \A p \in m_connected_slots[s] :
        s \in m_senders[p] \/ \E t \in SlotThread : Mends(slotOp[t], todo[t], s, p)

(* What is inductive. *)
LocksInv ==
    /\ LocksTypeOK /\ Linked
    /\ \A t \in SlotThread : SoFar(t, slotOp[t], todo[t])
    /\ \A p \in Slot : Gone(p) => m_senders[p] = {}
    /\ \A t \in SlotThread : \A u \in SlotThread \ {t} : ~ Clash(slotOp[u], slotOp[t])

-----------------------------------------------------------------------------
(* The parts of an operation, and of the same at another stage. *)
LEMMA OperationParts ==
  ASSUME NEW o \in Operation, o.kind \in SignalFirst \cup SlotFirst
  PROVE  /\ o.kind # "idle" /\ o.at \in Stage /\ o.slot \in Slot
         /\ o.kind \in SignalFirst => o.signal \in Signal
         /\ o.kind = "copy" => o.source \in Signal
         /\ \A a \in Stage : /\ [o EXCEPT !.at = a] \in Operation
                             /\ [o EXCEPT !.at = a].kind = o.kind /\ [o EXCEPT !.at = a].at = a
                             /\ [o EXCEPT !.at = a].slot = o.slot
                             /\ o.kind \in SignalFirst => [o EXCEPT !.at = a].signal = o.signal
<1>1. o.kind # "idle"
  BY DEF SignalFirst, SlotFirst, OnSignal
<1>2. CASE o \in [kind : OnSignal, at : Stage, signal : Signal, slot : Slot]
  BY <1>2 DEF Operation, OnSignal
<1>3. CASE o \in [kind : {"copy"}, at : Stage, signal : Signal, slot : Slot, source : Signal]
  BY <1>3 DEF Operation
<1>4. CASE o \in [kind : SlotFirst, at : Stage, slot : Slot]
  BY <1>4 DEF Operation, SlotFirst, SignalFirst, OnSignal
<1> QED BY <1>1, <1>2, <1>3, <1>4 DEF Operation, NoOperation

(* Thread t goes to operation n, with d left for its loop. *)
Goes(t, n, d) ==
    /\ n \in Operation /\ d \subseteq Signal \cup Slot
    /\ slotOp' = [slotOp EXCEPT ![t] = n] /\ todo' = [todo EXCEPT ![t] = d]

(* What it leaves alone: the mutexes of others and the lists they protect, *)
(* what objects being destroyed know, and the objects others name or copy. *)
LeavesAlone(t) ==
    /\ \A s \in Signal : holder[s] \in SlotThread \ {t} =>
          holder'[s] = holder[s] /\ m_connected_slots'[s] = m_connected_slots[s]
    /\ whole' \subseteq whole
    /\ \A p \in Slot \ whole : m_senders[p] = {} => m_senders'[p] = {}
    /\ \A p \in whole \ whole' : \A u \in SlotThread \ {t} : ~ Names(u, p)
    /\ \A p \in Slot : Gone(p)' => \/ Gone(p)
                                   \/ \A u \in SlotThread \ {t} : slotOp[u].kind # "copy"

(* A step of one thread keeps what the others know. *)
LEMMA OthersKnow ==
  ASSUME LocksInv, NEW t \in SlotThread, NEW n, NEW d, Goes(t, n, d), LeavesAlone(t),
         NEW u \in SlotThread \ {t}
  PROVE  SoFar(u, slotOp[u], todo[u])'
<1>1. slotOp'[u] = slotOp[u] /\ todo'[u] = todo[u]
  BY DEF Goes, LocksInv, LocksTypeOK
<1>2. PICK o \in Operation : o = slotOp[u]
  BY DEF LocksInv, LocksTypeOK
<1>3. SoFar(u, o, todo[u])
  BY <1>2 DEF LocksInv
<1>4. /\ o.kind \in SignalFirst => o.signal \in Signal
      /\ o.kind \in SignalFirst \cup SlotFirst => o.slot \in Slot
  BY OperationParts
<1>5. o.kind \in SignalFirst /\ o.at # "begin" =>
        holder'[o.signal] = u /\ m_connected_slots'[o.signal] = m_connected_slots[o.signal]
  BY <1>3, <1>4 DEF SoFar, LeavesAlone
<1>6. /\ o.kind = "emit" /\ o.at # "begin" => todo[u] \subseteq m_connected_slots'[o.signal]
      /\ o.kind = "emit" /\ o.at = "slot" => o.slot \in m_connected_slots'[o.signal]
      /\ o.kind \in {"disconnect", "disconnect_all"} /\ o.at = "slot" =>
            o.slot \notin m_connected_slots'[o.signal]
  BY <1>3, <1>5 DEF SoFar, SignalFirst, OnSignal
<1>7. /\ o.kind \in Loops /\ o.at # "begin" => todo[u] \subseteq Slot
      /\ o.kind = "copy" /\ o.at # "begin" => \A p \in todo[u] : ~ Gone(p)'
      /\ o.kind = "copy" /\ o.at = "slot" => ~ Gone(o.slot)'
  <2>1. o.kind \in Loops /\ o.at # "begin" => todo[u] \subseteq Slot
    BY <1>3 DEF SoFar
  <2>2. o.kind = "copy" => \A p \in Slot : Gone(p)' => Gone(p)
    BY <1>2 DEF LeavesAlone
  <2> QED BY <1>3, <1>4, <2>1, <2>2 DEF SoFar, Loops, SignalFirst
<1>8. /\ o.kind = "destroy" => o.slot \notin whole'
      /\ o.kind = "destroy" /\ o.at = "locked" => m_senders'[o.slot] = {}
  BY <1>3, <1>4 DEF SoFar, LeavesAlone, SlotFirst
<1>9. o.kind \in {"connect", "disconnect", "forget_all"} => o.slot \in whole'
  BY <1>2, <1>3 DEF SoFar, LeavesAlone, Names
<1> QED BY <1>1, <1>2, <1>5, <1>6, <1>7, <1>8, <1>9 DEF SoFar

(* The invariant holds after a step that leaves alone what others know, if *)
(* the thread knows what it should, connections that are not known to the  *)
(* object are being mended, and objects that are gone know no signals.     *)
LEMMA StepKeeps ==
  ASSUME LocksInv, NEW t \in SlotThread, NEW n, NEW d, Goes(t, n, d), LeavesAlone(t),
         holder' \in [Mutex -> SlotThread \cup {Free}],
         m_connected_slots' \in [Signal -> SUBSET Slot], m_senders' \in [Slot -> SUBSET Signal],
         SoFar(t, n, d)',
         \A s \in Signal : \A p \in m_connected_slots'[s] :
            \/ s \in m_senders'[p] \/ Mends(n, d, s, p)
            \/ \E u \in SlotThread \ {t} : Mends(slotOp[u], todo[u], s, p),
         \A p \in Slot : Gone(p)' => m_senders'[p] = {},
         \A u \in SlotThread \ {t} : ~ Clash(slotOp[u], n) /\ ~ Clash(n, slotOp[u])
  PROVE  LocksInv'
<1>1. /\ slotOp'[t] = n /\ todo'[t] = d
      /\ \A u \in SlotThread \ {t} : slotOp'[u] = slotOp[u] /\ todo'[u] = todo[u]
  BY DEF Goes, LocksInv, LocksTypeOK
<1>2. LocksTypeOK'
  BY DEF Goes, LeavesAlone, LocksInv, LocksTypeOK
<1>3. Linked'
  BY <1>1 DEF Linked, Mends
<1>4. \A u \in SlotThread : SoFar(u, slotOp[u], todo[u])'
  <2>1. SoFar(t, slotOp[t], todo[t])'
    BY <1>1 DEF SoFar
  <2>2. \A u \in SlotThread \ {t} : SoFar(u, slotOp[u], todo[u])'
    BY OthersKnow
  <2> QED BY <2>1, <2>2
<1>5. \A v \in SlotThread : \A u \in SlotThread \ {v} : ~ Clash(slotOp[u], slotOp[v])'
  BY <1>1 DEF LocksInv, Clash
<1> QED BY <1>2, <1>3, <1>4, <1>5 DEF LocksInv

(* An operation that goes on reaches the same objects. *)
LEMMA SameReach ==
  ASSUME LocksInv, NEW t \in SlotThread, NEW n, n.kind = slotOp[t].kind,
         n.slot = slotOp[t].slot \/ n.kind \in Loops
  PROVE  \A u \in SlotThread \ {t} : ~ Clash(slotOp[u], n) /\ ~ Clash(n, slotOp[u])
<1>1. Reaches(n) = Reaches(slotOp[t])
  BY DEF Reaches, Loops, SlotFirst
<1> QED BY <1>1 DEF Clash, LocksInv

(* No object is gone that was not, unless a destructor returns. *)
LEMMA NoneGoes ==
  ASSUME LocksInv, NEW t \in SlotThread, NEW n, NEW d, Goes(t, n, d), whole' = whole,
         slotOp[t].kind = "destroy" => n.kind = "destroy" /\ n.slot = slotOp[t].slot,
         NEW p, Gone(p)'
  PROVE  Gone(p)
<1>1. /\ slotOp'[t] = n
      /\ \A u \in SlotThread \ {t} : slotOp'[u] = slotOp[u]
  BY DEF Goes, LocksInv, LocksTypeOK
<1> QED BY <1>1 DEF Gone

(* A thread at the beginning of an operation keeps the invariant. *)
LEMMA BeginKeeps ==
  ASSUME LocksInv, NEW t \in SlotThread, NEW o \in Operation, Begin(t, o),
         o.kind \in SignalFirst \cup SlotFirst, o.at = "begin",
         o.kind \in {"connect", "disconnect", "forget_all"} => o.slot \in whole,
         o.kind # "destroy" => whole' = whole,
         o.kind = "destroy" => whole' = whole \ {o.slot} /\ \A u \in SlotThread : ~ Names(u, o.slot)
  PROVE  LocksInv'
<1>1. /\ holder' = holder /\ m_connected_slots' = m_connected_slots /\ m_senders' = m_senders
      /\ todo' = todo /\ slotOp' = [slotOp EXCEPT ![t] = o] /\ slotOp[t] = NoOperation
      /\ \A u \in SlotThread : ~ Clash(slotOp[u], o)
  BY DEF Begin
<1>2. PICK d : d = todo[t]
  OBVIOUS
<1>10. Goes(t, o, d)
  BY <1>1, <1>2 DEF Goes, LocksInv, LocksTypeOK
<1>3. \A p \in Slot : Gone(p)' => Gone(p)
  <2>1. /\ slotOp'[t] = o
        /\ \A u \in SlotThread \ {t} : slotOp'[u] = slotOp[u]
    BY <1>1 DEF LocksInv, LocksTypeOK
  <2>2. slotOp[t].kind # "destroy"
    BY <1>1 DEF NoOperation
  <2> QED BY <2>1, <2>2 DEF Gone
<1>4. LeavesAlone(t)
  BY <1>1, <1>3 DEF LeavesAlone
<1>5. SoFar(t, o, d)'
  <2>1. o.kind = "destroy" => o.slot \notin whole'
    OBVIOUS
  <2>2. o.kind \in {"connect", "disconnect", "forget_all"} => o.slot \in whole'
    OBVIOUS
  <2> QED BY <2>1, <2>2 DEF SoFar
<1>6. ASSUME NEW s \in Signal, NEW p \in m_connected_slots'[s]
      PROVE  s \in m_senders'[p] \/ \E u \in SlotThread \ {t} : Mends(slotOp[u], todo[u], s, p)
  <2>1. ~ Mends(slotOp[t], todo[t], s, p)
    BY <1>1 DEF Mends, NoOperation, SlotFirst
  <2> QED BY <1>1, <2>1 DEF LocksInv, Linked
<1>7. \A u \in SlotThread : ~ Clash(slotOp[u], o) /\ ~ Clash(o, slotOp[u])
  BY <1>1 DEF Clash
<1>8. \A p \in Slot : Gone(p)' => m_senders'[p] = {}
  BY <1>1, <1>3 DEF LocksInv
<1>9. /\ holder' \in [Mutex -> SlotThread \cup {Free}]
      /\ m_connected_slots' \in [Signal -> SUBSET Slot] /\ m_senders' \in [Slot -> SUBSET Signal]
  BY <1>1 DEF LocksInv, LocksTypeOK
<1> QED BY <1>4, <1>5, <1>6, <1>7, <1>8, <1>9, <1>10, StepKeeps

(* Nobody is connected to an object that is gone. *)
LEMMA ConnectedAreThere ==
  ASSUME LocksInv, NEW s \in Signal, NEW p \in m_connected_slots[s]
  PROVE  ~ Gone(p)
<1>1. SUFFICES ASSUME Gone(p) PROVE FALSE
  OBVIOUS
<1>2. p \in Slot /\ m_senders[p] = {}
  BY <1>1 DEF LocksInv, LocksTypeOK
<1>3. PICK t \in SlotThread : Mends(slotOp[t], todo[t], s, p)
  BY <1>2 DEF LocksInv, Linked
<1>4. SoFar(t, slotOp[t], todo[t])
  BY DEF LocksInv
<1> QED BY <1>1, <1>3, <1>4 DEF Mends, SoFar, Gone, SlotFirst

(* A step that changes the list and the mutex of one signal at most, which *)
(* the thread may lock or has locked, leaves alone what others know.       *)
LEMMA OneSignalChanges ==
  ASSUME LocksInv, NEW t \in SlotThread, NEW n, NEW d, Goes(t, n, d), whole' = whole,
         NEW s, s \in Signal => holder[s] \in {Free, t},
         \A x \in Signal \ {s} : holder'[x] = holder[x] /\ m_connected_slots'[x] = m_connected_slots[x],
         \A p \in Slot \ whole : m_senders[p] = {} => m_senders'[p] = {},
         slotOp[t].kind = "destroy" => n.kind = "destroy" /\ n.slot = slotOp[t].slot
  PROVE  LeavesAlone(t) /\ \A p \in Slot : Gone(p)' => Gone(p)
<1>1. \A p \in Slot : Gone(p)' => Gone(p)
  BY NoneGoes
<1>2. \A x \in Signal : holder[x] \in SlotThread \ {t} =>
         holder'[x] = holder[x] /\ m_connected_slots'[x] = m_connected_slots[x]
  BY LocksAssumption
<1> QED BY <1>1, <1>2 DEF LeavesAlone

(* The acquisition of the signal's mutex keeps the invariant. *)
LEMMA LockSignalKeeps ==
  ASSUME LocksInv, NEW t \in SlotThread, LockSignal(t)
  PROVE  LocksInv'
<1>1. PICK o \in Operation : o = slotOp[t]
  BY DEF LocksInv, LocksTypeOK
<1>2. /\ o.kind \in SignalFirst /\ o.at = "begin" /\ MayLock(o.signal) /\ Lock(t, o.signal)
      /\ m_senders' = m_senders /\ whole' = whole
  BY <1>1 DEF LockSignal
<1>3. /\ o.kind # "idle" /\ o.slot \in Slot /\ o.signal \in Signal
      /\ o.kind = "copy" => o.source \in Signal
      /\ \A a \in Stage : /\ [o EXCEPT !.at = a] \in Operation
                          /\ [o EXCEPT !.at = a].kind = o.kind /\ [o EXCEPT !.at = a].at = a
                          /\ [o EXCEPT !.at = a].slot = o.slot
                          /\ [o EXCEPT !.at = a].signal = o.signal
  BY <1>2, OperationParts
<1>4. /\ m_connected_slots \in [Signal -> SUBSET Slot] /\ m_senders' \in [Slot -> SUBSET Signal]
      /\ slotOp \in [SlotThread -> Operation] /\ todo \in [SlotThread -> SUBSET (Signal \cup Slot)]
      /\ holder \in [Mutex -> SlotThread \cup {Free}]
  BY <1>2 DEF LocksInv, LocksTypeOK
<1>5. /\ holder[o.signal] = Free /\ holder'[o.signal] = t
      /\ \A x \in Signal \ {o.signal} : holder'[x] = holder[x]
      /\ holder' \in [Mutex -> SlotThread \cup {Free}]
  BY <1>2, <1>3, <1>4 DEF MayLock, Lock, Mutex
<1>6. \A s \in Signal, p \in Slot : ~ Mends(o, todo[t], s, p)
  BY <1>2 DEF Mends, SignalFirst, OnSignal, SlotFirst
<1>7. SoFar(t, o, todo[t]) /\ o.kind # "destroy"
  BY <1>1, <1>2 DEF LocksInv, SignalFirst, OnSignal
<1>8. CASE o.kind = "connect"
  <2>1. PICK n : n = [o EXCEPT !.at = "slot"]
    BY Zenon
  <2>2. PICK d : d = todo[t]
    OBVIOUS
  <2>3. n \in Operation /\ n.kind = "connect" /\ n.at = "slot" /\ n.slot = o.slot /\ n.signal = o.signal
    BY <1>3, <1>8, <2>1 DEF Stage
  <2>4. /\ m_connected_slots' = [m_connected_slots EXCEPT ![o.signal] = m_connected_slots[o.signal] \cup {o.slot}]
        /\ slotOp' = [slotOp EXCEPT ![t] = n] /\ todo' = todo
    BY <1>1, <1>8, <2>1 DEF LockSignal
  <2>5. Goes(t, n, d)
    BY <1>4, <2>2, <2>3, <2>4 DEF Goes
  <2>6. /\ m_connected_slots' \in [Signal -> SUBSET Slot]
        /\ \A x \in Signal \ {o.signal} : m_connected_slots'[x] = m_connected_slots[x]
        /\ m_connected_slots'[o.signal] = m_connected_slots[o.signal] \cup {o.slot}
    BY <1>3, <1>4, <2>4
  <2>7. LeavesAlone(t) /\ \A p \in Slot : Gone(p)' => Gone(p)
    BY <1>1, <1>2, <1>5, <1>7, <2>5, <2>6, OneSignalChanges
  <2>8. SoFar(t, n, d)'
    BY <1>2, <1>5, <1>7, <1>8, <2>3 DEF SoFar, Loops
  <2>9. \A s \in Signal : \A p \in m_connected_slots'[s] :
            \/ s \in m_senders'[p] \/ Mends(n, d, s, p)
            \/ \E u \in SlotThread \ {t} : Mends(slotOp[u], todo[u], s, p)
    <3>1. Mends(n, d, o.signal, o.slot)
      BY <2>3 DEF Mends
    <3>2. ASSUME NEW s \in Signal, NEW p \in m_connected_slots[s]
          PROVE  \/ s \in m_senders'[p]
                 \/ \E u \in SlotThread \ {t} : Mends(slotOp[u], todo[u], s, p)
      BY <1>1, <1>2, <1>4, <1>6 DEF LocksInv, Linked
    <3> QED BY <2>6, <3>1, <3>2
  <2>10. \A p \in Slot : Gone(p)' => m_senders'[p] = {}
    BY <1>2, <2>7 DEF LocksInv
  <2>11. \A u \in SlotThread \ {t} : ~ Clash(slotOp[u], n) /\ ~ Clash(n, slotOp[u])
    BY <1>1, <1>8, <2>3, SameReach
  <2> QED BY <1>4, <1>5, <2>5, <2>6, <2>7, <2>8, <2>9, <2>10, <2>11, StepKeeps
<1>9. CASE o.kind = "disconnect"
  <2>1. PICK a \in Stage : a = IF o.slot \in m_connected_slots[o.signal] THEN "slot" ELSE "end"
    BY DEF Stage
  <2>2. PICK n : n = [o EXCEPT !.at = a]
    BY Zenon
  <2>12. PICK d : d = todo[t]
    OBVIOUS
  <2>3. n \in Operation /\ n.kind = "disconnect" /\ n.at = a /\ n.slot = o.slot /\ n.signal = o.signal
    BY <1>3, <1>9, <2>2
  <2>4. /\ m_connected_slots' = [m_connected_slots EXCEPT ![o.signal] = m_connected_slots[o.signal] \ {o.slot}]
        /\ slotOp' = [slotOp EXCEPT ![t] = n] /\ todo' = todo
    BY <1>1, <1>9, <2>1, <2>2 DEF LockSignal
  <2>5. Goes(t, n, d)
    BY <1>4, <2>12, <2>3, <2>4 DEF Goes
  <2>6. /\ m_connected_slots' \in [Signal -> SUBSET Slot]
        /\ \A x \in Signal \ {o.signal} : m_connected_slots'[x] = m_connected_slots[x]
        /\ m_connected_slots'[o.signal] = m_connected_slots[o.signal] \ {o.slot}
    BY <1>3, <1>4, <2>4
  <2>7. LeavesAlone(t) /\ \A p \in Slot : Gone(p)' => Gone(p)
    BY <1>1, <1>2, <1>5, <1>7, <2>5, <2>6, OneSignalChanges
  <2>8. SoFar(t, n, d)'
    BY <1>2, <1>5, <1>7, <1>9, <2>3, <2>6 DEF SoFar, Loops
  <2>9. ASSUME NEW s \in Signal, NEW p \in m_connected_slots'[s]
        PROVE  \/ s \in m_senders'[p] \/ Mends(n, d, s, p)
               \/ \E u \in SlotThread \ {t} : Mends(slotOp[u], todo[u], s, p)
    <3>1. p \in m_connected_slots[s] /\ p \in Slot
      BY <1>4, <2>6
    <3> QED BY <1>1, <1>2, <1>6, <3>1 DEF LocksInv, Linked
  <2>10. \A p \in Slot : Gone(p)' => m_senders'[p] = {}
    BY <1>2, <2>7 DEF LocksInv
  <2>11. \A u \in SlotThread \ {t} : ~ Clash(slotOp[u], n) /\ ~ Clash(n, slotOp[u])
    BY <1>1, <1>9, <2>3, SameReach
  <2> QED BY <1>4, <1>5, <2>5, <2>6, <2>7, <2>8, <2>9, <2>10, <2>11, StepKeeps
<1>10. CASE o.kind \in Loops
  <2>1. PICK n : n = [o EXCEPT !.at = "locked"]
    BY Zenon
  <2>2. PICK from \in Signal : from = IF o.kind = "copy" THEN o.source ELSE o.signal
    BY <1>3
  <2>12. PICK d : d = m_connected_slots[from]
    OBVIOUS
  <2>3. n \in Operation /\ n.kind = o.kind /\ n.at = "locked" /\ n.slot = o.slot /\ n.signal = o.signal
    BY <1>3, <2>1 DEF Stage
  <2>4. /\ m_connected_slots' = m_connected_slots /\ slotOp' = [slotOp EXCEPT ![t] = n]
        /\ todo' = [todo EXCEPT ![t] = d]
    BY <1>1, <1>10, <2>1, <2>2, <2>12 DEF LockSignal, Loops
  <2>6. d \subseteq Slot
    BY <1>4, <2>12
  <2>5. Goes(t, n, d)
    BY <2>3, <2>4, <2>6 DEF Goes
  <2>7. LeavesAlone(t) /\ \A p \in Slot : Gone(p)' => Gone(p)
    BY <1>1, <1>2, <1>5, <1>7, <2>4, <2>5, OneSignalChanges
  <2>8. SoFar(t, n, d)'
    <3>1. \A p \in d : ~ Gone(p)'
      BY <2>6, <2>7, <2>12, ConnectedAreThere
    <3>2. o.kind = "emit" => d = m_connected_slots'[o.signal]
      BY <2>2, <2>4, <2>12
    <3> QED BY <1>5, <1>10, <2>3, <2>6, <3>1, <3>2 DEF SoFar, Loops
  <2>9. ASSUME NEW s \in Signal, NEW p \in m_connected_slots'[s]
        PROVE  \/ s \in m_senders'[p] \/ Mends(n, d, s, p)
               \/ \E u \in SlotThread \ {t} : Mends(slotOp[u], todo[u], s, p)
    <3>1. p \in m_connected_slots[s] /\ p \in Slot
      BY <1>4, <2>4
    <3> QED BY <1>1, <1>2, <1>6, <3>1 DEF LocksInv, Linked
  <2>10. \A p \in Slot : Gone(p)' => m_senders'[p] = {}
    BY <1>2, <2>7 DEF LocksInv
  <2>11. \A u \in SlotThread \ {t} : ~ Clash(slotOp[u], n) /\ ~ Clash(n, slotOp[u])
    BY <1>1, <2>3, SameReach
  <2>13. m_connected_slots' \in [Signal -> SUBSET Slot]
    BY <1>4, <2>4
  <2> QED BY <1>4, <1>5, <2>5, <2>13, <2>7, <2>8, <2>9, <2>10, <2>11, StepKeeps
<1> QED BY <1>2, <1>8, <1>9, <1>10 DEF SignalFirst, OnSignal, Loops

(* The next round of a loop over a signal's list keeps the invariant. *)
LEMMA NextSlotKeeps ==
  ASSUME LocksInv, NEW t \in SlotThread, NextSlot(t)
  PROVE  LocksInv'
<1>1. PICK o \in Operation : o = slotOp[t]
  BY DEF LocksInv, LocksTypeOK
<1>2. /\ o.kind \in Loops /\ o.at = "locked" /\ holder' = holder /\ m_senders' = m_senders
      /\ whole' = whole
  BY <1>1 DEF NextSlot
<1>3. PICK p \in todo[t] :
         /\ slotOp' = [slotOp EXCEPT ![t].slot = p, ![t].at = "slot"]
         /\ todo' = [todo EXCEPT ![t] = @ \ {p}]
         /\ m_connected_slots' = [m_connected_slots EXCEPT
               ![slotOp[t].signal] = IF slotOp[t].kind = "disconnect_all" THEN @ \ {p} ELSE @]
  BY Zenon DEF NextSlot
<1>4. /\ o.kind \in SignalFirst /\ o.signal \in Signal /\ o.kind # "idle" /\ o.kind # "destroy"
      /\ o.kind # "connect" /\ o.kind \notin SlotFirst
  BY <1>2, OperationParts DEF Loops, SignalFirst, OnSignal, SlotFirst
<1>5. SoFar(t, o, todo[t]) /\ holder[o.signal] = t /\ todo[t] \subseteq Slot
  BY <1>1, <1>2, <1>4 DEF LocksInv, SoFar
<1>6. /\ m_connected_slots \in [Signal -> SUBSET Slot] /\ m_senders' \in [Slot -> SUBSET Signal]
      /\ slotOp \in [SlotThread -> Operation] /\ todo \in [SlotThread -> SUBSET (Signal \cup Slot)]
      /\ holder' \in [Mutex -> SlotThread \cup {Free}]
  BY <1>2 DEF LocksInv, LocksTypeOK
<1>7. PICK n : n = [o EXCEPT !.slot = p, !.at = "slot"]
  OBVIOUS
<1>8. PICK d : d = todo[t] \ {p}
  BY Zenon
<1>9. n \in Operation /\ n.kind = o.kind /\ n.at = "slot" /\ n.slot = p /\ n.signal = o.signal
  <2>1. CASE o \in [kind : OnSignal, at : Stage, signal : Signal, slot : Slot]
    BY Zenon, <1>3, <1>5, <1>7, <2>1 DEF Operation, Stage
  <2>2. CASE o \in [kind : {"copy"}, at : Stage, signal : Signal, slot : Slot, source : Signal]
    BY Zenon, <1>3, <1>5, <1>7, <2>2 DEF Operation, Stage
  <2> QED BY <1>4, <2>1, <2>2 DEF Operation, SlotFirst, NoOperation
<1>10. Goes(t, n, d)
  <2>1. slotOp' = [slotOp EXCEPT ![t] = n]
    BY Zenon, <1>1, <1>3, <1>7
  <2> QED BY Zenon, <1>3, <1>6, <1>8, <1>9, <2>1 DEF Goes
<1>11. /\ m_connected_slots' \in [Signal -> SUBSET Slot]
       /\ \A x \in Signal \ {o.signal} : m_connected_slots'[x] = m_connected_slots[x]
       /\ o.kind = "disconnect_all" => m_connected_slots'[o.signal] = m_connected_slots[o.signal] \ {p}
       /\ o.kind # "disconnect_all" => m_connected_slots'[o.signal] = m_connected_slots[o.signal]
  BY <1>1, <1>3, <1>4, <1>6
<1>12. LeavesAlone(t) /\ \A q \in Slot : Gone(q)' => Gone(q)
  BY <1>1, <1>2, <1>4, <1>5, <1>10, <1>11, OneSignalChanges
<1>13. SoFar(t, n, d)'
  <2>1. o.kind = "emit" => p \in m_connected_slots'[o.signal] /\ d \subseteq m_connected_slots'[o.signal]
    BY <1>2, <1>3, <1>5, <1>8, <1>11 DEF SoFar
  <2>2. o.kind = "disconnect_all" => p \notin m_connected_slots'[o.signal]
    BY <1>11
  <2>3. o.kind = "copy" => ~ Gone(p)' /\ \A q \in d : ~ Gone(q)'
    BY <1>2, <1>3, <1>5, <1>8, <1>12 DEF SoFar
  <2>4. d \subseteq Slot /\ holder'[o.signal] = t
    BY <1>2, <1>5, <1>8
  <2> QED BY <1>2, <1>9, <2>1, <2>2, <2>3, <2>4 DEF SoFar, Loops
<1>14. ASSUME NEW s \in Signal, NEW q \in m_connected_slots'[s]
       PROVE  \/ s \in m_senders'[q] \/ Mends(n, d, s, q)
              \/ \E u \in SlotThread \ {t} : Mends(slotOp[u], todo[u], s, q)
  <2>1. q \in m_connected_slots[s]
    BY <1>6, <1>11
  <2>2. ~ Mends(o, todo[t], s, q)
    BY <1>4 DEF Mends
  <2> QED BY <1>1, <1>2, <2>1, <2>2 DEF LocksInv, Linked
<1>15. \A q \in Slot : Gone(q)' => m_senders'[q] = {}
  BY <1>2, <1>12 DEF LocksInv
<1>16. \A u \in SlotThread \ {t} : ~ Clash(slotOp[u], n) /\ ~ Clash(n, slotOp[u])
  BY <1>1, <1>2, <1>9, SameReach
<1> QED BY <1>6, <1>10, <1>11, <1>12, <1>13, <1>14, <1>15, <1>16, StepKeeps

(* The object's part of an operation of a signal keeps the invariant. *)
LEMMA InSlotKeeps ==
  ASSUME LocksInv, NEW t \in SlotThread, InSlot(t)
  PROVE  LocksInv'
<1>1. PICK o \in Operation : o = slotOp[t]
  BY DEF LocksInv, LocksTypeOK
<1>2. PICK a \in Stage : a = IF o.kind \in Loops THEN "locked" ELSE "end"
  BY DEF Stage
<1>3. PICK n : n = [o EXCEPT !.at = a]
  BY Zenon
<1>4. /\ o.kind \in SignalFirst /\ o.at = "slot" /\ holder' = holder /\ todo' = todo
      /\ whole' = whole
      /\ m_senders' = [m_senders EXCEPT ![o.slot] =
            CASE o.kind \in {"connect", "copy"} -> m_senders[o.slot] \cup {o.signal}
              [] o.kind = "emit" -> m_senders[o.slot]
              [] OTHER -> m_senders[o.slot] \ {o.signal}]
      /\ m_connected_slots' = [m_connected_slots EXCEPT ![o.signal] =
            IF o.kind = "copy" THEN m_connected_slots[o.signal] \cup {o.slot}
            ELSE m_connected_slots[o.signal]]
      /\ slotOp' = [slotOp EXCEPT ![t] = n]
  BY <1>1, <1>2, <1>3 DEF InSlot
<1>5. PICK d : d = todo[t]
  OBVIOUS
<1>6. /\ o.kind # "idle" /\ o.slot \in Slot /\ o.signal \in Signal /\ n \in Operation
      /\ n.kind = o.kind /\ n.at = a /\ n.slot = o.slot /\ n.signal = o.signal
      /\ o.kind # "destroy" /\ o.kind \notin SlotFirst
  BY <1>2, <1>3, <1>4, OperationParts DEF SignalFirst, OnSignal, SlotFirst
<1>7. SoFar(t, o, d) /\ holder[o.signal] = t
  BY <1>1, <1>4, <1>5 DEF LocksInv, SoFar
<1>8. /\ m_connected_slots \in [Signal -> SUBSET Slot] /\ m_senders \in [Slot -> SUBSET Signal]
      /\ slotOp \in [SlotThread -> Operation] /\ todo \in [SlotThread -> SUBSET (Signal \cup Slot)]
      /\ holder' \in [Mutex -> SlotThread \cup {Free}] /\ whole \subseteq Slot
  BY <1>4 DEF LocksInv, LocksTypeOK
<1>9. Goes(t, n, d)
  BY <1>4, <1>5, <1>6, <1>8 DEF Goes
<1>10. /\ m_connected_slots' \in [Signal -> SUBSET Slot]
       /\ \A x \in Signal \ {o.signal} : m_connected_slots'[x] = m_connected_slots[x]
       /\ o.kind = "copy" => m_connected_slots'[o.signal] = m_connected_slots[o.signal] \cup {o.slot}
       /\ o.kind # "copy" => m_connected_slots'[o.signal] = m_connected_slots[o.signal]
  BY <1>4, <1>6, <1>8
<1>11. /\ m_senders' \in [Slot -> SUBSET Signal]
       /\ \A q \in Slot \ {o.slot} : m_senders'[q] = m_senders[q]
       /\ o.kind \in {"connect", "copy"} => m_senders'[o.slot] = m_senders[o.slot] \cup {o.signal}
       /\ o.kind \notin {"connect", "copy"} => m_senders'[o.slot] \subseteq m_senders[o.slot]
       /\ o.kind \in {"connect", "copy", "emit"} => m_senders[o.slot] \subseteq m_senders'[o.slot]
       /\ \A x \in m_senders[o.slot] \ {o.signal} : x \in m_senders'[o.slot]
  BY <1>4, <1>6, <1>8
<1>12. o.kind \in {"connect", "copy"} => o.slot \in whole
  <2>1. CASE o.kind = "connect"
    BY <1>7, <2>1 DEF SoFar
  <2>2. CASE o.kind = "copy"
    <3>1. ~ Gone(o.slot)
      BY <1>4, <1>7, <2>2 DEF SoFar
    <3>2. ASSUME NEW u \in SlotThread, slotOp[u].kind = "destroy", slotOp[u].slot = o.slot
          PROVE  FALSE
      <4>1. u # t
        BY <1>1, <2>2, <3>2
      <4>2. Clash(slotOp[u], o)
        BY <1>6, <2>2, <3>2 DEF Clash, Reaches, SlotFirst
      <4> QED BY <1>1, <4>1, <4>2 DEF LocksInv
    <3> QED BY <3>1, <3>2 DEF Gone
  <2> QED BY <2>1, <2>2
<1>13. \A q \in Slot \ whole : m_senders[q] = {} => m_senders'[q] = {}
  BY <1>6, <1>11, <1>12
<1>14. LeavesAlone(t) /\ \A q \in Slot : Gone(q)' => Gone(q)
  BY <1>1, <1>4, <1>6, <1>7, <1>9, <1>10, <1>13, OneSignalChanges
<1>15. SoFar(t, n, d)'
  <2>1. o.kind = "emit" => d \subseteq m_connected_slots'[o.signal]
    BY <1>4, <1>7, <1>10 DEF SoFar
  <2>2. o.kind = "copy" => \A q \in d : ~ Gone(q)'
    BY <1>4, <1>7, <1>14 DEF SoFar, Loops
  <2>3. o.kind \in Loops => d \subseteq Slot
    BY <1>4, <1>7 DEF SoFar
  <2>4. o.kind \in {"connect", "disconnect", "forget_all"} => o.slot \in whole'
    BY <1>4, <1>7 DEF SoFar
  <2> QED BY <1>2, <1>4, <1>6, <1>7, <2>1, <2>2, <2>3, <2>4 DEF SoFar
<1>16. ASSUME NEW s \in Signal, NEW q \in m_connected_slots'[s]
       PROVE  \/ s \in m_senders'[q]
              \/ \E u \in SlotThread \ {t} : Mends(slotOp[u], todo[u], s, q)
  <2>1. CASE s = o.signal /\ q = o.slot
    <3>1. o.kind \notin {"disconnect", "disconnect_all"}
      BY <1>4, <1>7, <1>10, <2>1 DEF SoFar
    <3>2. CASE o.kind = "emit"
      <4>1. q \in m_connected_slots[s] /\ ~ Mends(o, todo[t], s, q)
        BY <1>6, <1>10, <2>1, <3>2 DEF Mends
      <4> QED BY <1>1, <1>11, <2>1, <3>2, <4>1 DEF LocksInv, Linked
    <3> QED BY <1>4, <1>11, <2>1, <3>1, <3>2 DEF SignalFirst, OnSignal
  <2>2. CASE ~ (s = o.signal /\ q = o.slot)
    <3>1. q \in m_connected_slots[s] /\ q \in Slot
      BY <1>8, <1>10, <2>2
    <3>2. ~ Mends(o, todo[t], s, q)
      BY <1>6, <2>2 DEF Mends
    <3>3. s \in m_senders[q] => s \in m_senders'[q]
      BY <1>11, <2>2, <3>1
    <3> QED BY <1>1, <3>1, <3>2, <3>3 DEF LocksInv, Linked
  <2> QED BY <2>1, <2>2
<1>17. \A q \in Slot : Gone(q)' => m_senders'[q] = {}
  BY <1>13, <1>14 DEF LocksInv, Gone
<1>18. \A u \in SlotThread \ {t} : ~ Clash(slotOp[u], n) /\ ~ Clash(n, slotOp[u])
  BY <1>1, <1>6, SameReach
<1> QED BY <1>8, <1>9, <1>10, <1>11, <1>14, <1>15, <1>16, <1>17, <1>18, StepKeeps

(* The release of the signal's mutex keeps the invariant. *)
LEMMA UnlockSignalKeeps ==
  ASSUME LocksInv, NEW t \in SlotThread, UnlockSignal(t)
  PROVE  LocksInv'
<1>1. PICK o \in Operation : o = slotOp[t]
  BY DEF LocksInv, LocksTypeOK
<1>2. PICK d : d = todo[t]
  OBVIOUS
<1>3. /\ o.kind \in SignalFirst /\ o.at \in {"end", "locked"} /\ Unlock(o.signal)
      /\ slotOp' = [slotOp EXCEPT ![t] = NoOperation] /\ todo' = todo /\ whole' = whole
      /\ m_connected_slots' = m_connected_slots /\ m_senders' = m_senders
  BY <1>1 DEF UnlockSignal
<1>4. o.signal \in Signal /\ o.kind # "destroy" /\ o.kind \notin SlotFirst
  BY <1>3, OperationParts DEF SignalFirst, OnSignal, SlotFirst
<1>5. holder[o.signal] = t
  BY <1>1, <1>3 DEF LocksInv, SoFar
<1>6. /\ holder \in [Mutex -> SlotThread \cup {Free}] /\ todo \in [SlotThread -> SUBSET (Signal \cup Slot)]
      /\ m_connected_slots' \in [Signal -> SUBSET Slot] /\ m_senders' \in [Slot -> SUBSET Signal]
  BY <1>3 DEF LocksInv, LocksTypeOK
<1>7. /\ holder' \in [Mutex -> SlotThread \cup {Free}]
      /\ \A x \in Signal \ {o.signal} : holder'[x] = holder[x]
  BY <1>3, <1>6 DEF Unlock, Mutex
<1>8. Goes(t, NoOperation, d)
  BY <1>2, <1>3, <1>6 DEF Goes, Operation
<1>9. LeavesAlone(t) /\ \A q \in Slot : Gone(q)' => Gone(q)
  BY <1>1, <1>3, <1>4, <1>5, <1>7, <1>8, OneSignalChanges
<1>10. SoFar(t, NoOperation, d)'
  BY DEF SoFar, NoOperation, SignalFirst, OnSignal, Loops
<1>11. ASSUME NEW s \in Signal, NEW q \in m_connected_slots'[s]
       PROVE  \/ s \in m_senders'[q]
              \/ \E u \in SlotThread \ {t} : Mends(slotOp[u], todo[u], s, q)
  <2>1. ~ Mends(o, todo[t], s, q)
    BY <1>3, <1>4 DEF Mends
  <2> QED BY <1>1, <1>3, <2>1 DEF LocksInv, Linked
<1>12. \A q \in Slot : Gone(q)' => m_senders'[q] = {}
  BY <1>3, <1>9 DEF LocksInv
<1>13. \A u \in SlotThread \ {t} : ~ Clash(slotOp[u], NoOperation) /\ ~ Clash(NoOperation, slotOp[u])
  BY DEF Clash, Reaches, NoOperation, SlotFirst
<1> QED BY <1>6, <1>7, <1>8, <1>9, <1>10, <1>11, <1>12, <1>13, StepKeeps

(* The beginning of has_slots::do_disconnect_all keeps the invariant. *)
LEMMA LockSlotKeeps ==
  ASSUME LocksInv, NEW t \in SlotThread, LockSlot(t)
  PROVE  LocksInv'
<1>1. PICK o \in Operation : o = slotOp[t]
  BY DEF LocksInv, LocksTypeOK
<1>2. PICK n : n = [o EXCEPT !.at = "locked"]
  BY Zenon
<1>3. PICK d : d = m_senders[o.slot]
  OBVIOUS
<1>4. /\ o.kind \in SlotFirst /\ o.at = "begin" /\ Lock(t, o.slot)
      /\ slotOp' = [slotOp EXCEPT ![t] = n] /\ todo' = [todo EXCEPT ![t] = d]
      /\ m_senders' = [m_senders EXCEPT ![o.slot] = {}]
      /\ m_connected_slots' = m_connected_slots /\ whole' = whole
  BY <1>1, <1>2, <1>3 DEF LockSlot
<1>5. /\ o.slot \in Slot /\ n \in Operation /\ n.kind = o.kind /\ n.at = "locked" /\ n.slot = o.slot
      /\ o.kind \notin SignalFirst /\ o.kind \notin Loops
      /\ o.kind \notin {"connect", "emit", "copy", "disconnect", "disconnect_all"}
  BY Zenon, <1>2, <1>4, OperationParts DEF Stage, SignalFirst, OnSignal, SlotFirst, Loops
<1>6. /\ holder \in [Mutex -> SlotThread \cup {Free}] /\ m_senders \in [Slot -> SUBSET Signal]
      /\ m_connected_slots \in [Signal -> SUBSET Slot] /\ m_connected_slots' \in [Signal -> SUBSET Slot]
  BY <1>4 DEF LocksInv, LocksTypeOK
<1>7. /\ holder' \in [Mutex -> SlotThread \cup {Free}]
      /\ \A x \in Signal : holder'[x] = holder[x]
  BY <1>4, <1>5, <1>6, LocksAssumption DEF Lock, Mutex
<1>8. /\ m_senders' \in [Slot -> SUBSET Signal] /\ m_senders'[o.slot] = {}
      /\ \A q \in Slot \ {o.slot} : m_senders'[q] = m_senders[q]
  BY <1>4, <1>5, <1>6
<1>9. Goes(t, n, d)
  BY <1>3, <1>4, <1>5, <1>6 DEF Goes
<1>10. \A q \in Slot : m_senders[q] = {} => m_senders'[q] = {}
  BY <1>8
<1>11. LeavesAlone(t) /\ \A q \in Slot : Gone(q)' => Gone(q)
  <2>1. o.slot \notin Signal
    BY <1>5, LocksAssumption
  <2> QED BY <1>1, <1>4, <1>5, <1>7, <1>9, <1>10, <2>1, OneSignalChanges
<1>12. SoFar(t, n, d)'
  <2>1. /\ o.kind = "destroy" => o.slot \notin whole'
        /\ o.kind \in {"connect", "disconnect", "forget_all"} => o.slot \in whole'
    BY <1>1, <1>4 DEF LocksInv, SoFar
  <2> QED BY <1>5, <1>8, <2>1 DEF SoFar
<1>13. ASSUME NEW s \in Signal, NEW q \in m_connected_slots'[s]
       PROVE  \/ s \in m_senders'[q] \/ Mends(n, d, s, q)
              \/ \E u \in SlotThread \ {t} : Mends(slotOp[u], todo[u], s, q)
  <2>1. q \in m_connected_slots[s] /\ q \in Slot
    BY <1>4, <1>6
  <2>2. ~ Mends(o, todo[t], s, q)
    BY <1>4, <1>5 DEF Mends
  <2>3. s \in m_senders[q] => s \in m_senders'[q] \/ Mends(n, d, s, q)
    BY <1>3, <1>4, <1>5, <1>8, <2>1 DEF Mends
  <2> QED BY <1>1, <2>1, <2>2, <2>3 DEF LocksInv, Linked
<1>14. \A q \in Slot : Gone(q)' => m_senders'[q] = {}
  BY <1>10, <1>11 DEF LocksInv
<1>15. \A u \in SlotThread \ {t} : ~ Clash(slotOp[u], n) /\ ~ Clash(n, slotOp[u])
  BY <1>1, <1>5, SameReach
<1> QED BY <1>6, <1>7, <1>8, <1>9, <1>11, <1>12, <1>13, <1>14, <1>15, StepKeeps

(* The erasure of the object from one signal's list keeps the invariant. *)
LEMMA ForgetSignalKeeps ==
  ASSUME LocksInv, NEW t \in SlotThread, ForgetSignal(t)
  PROVE  LocksInv'
<1>1. PICK o \in Operation : o = slotOp[t]
  BY DEF LocksInv, LocksTypeOK
<1>2. PICK f \in todo[t] : f = NextSender(t)
  BY DEF ForgetSignal, NextSender
<1>3. PICK d : d = todo[t] \ {f}
  BY Zenon
<1>4. /\ o.kind \in SlotFirst /\ o.at = "locked" /\ MayLock(f)
      /\ m_connected_slots' = [m_connected_slots EXCEPT ![f] = m_connected_slots[f] \ {o.slot}]
      /\ todo' = [todo EXCEPT ![t] = d]
      /\ holder' = holder /\ m_senders' = m_senders /\ slotOp' = slotOp /\ whole' = whole
  BY <1>1, <1>2, <1>3 DEF ForgetSignal
<1>5. /\ o.slot \in Slot
      /\ o.kind \notin SignalFirst /\ o.kind \notin Loops
      /\ o.kind \notin {"connect", "emit", "copy", "disconnect", "disconnect_all"}
  BY <1>4, OperationParts DEF SignalFirst, OnSignal, SlotFirst, Loops
<1>6. /\ holder' \in [Mutex -> SlotThread \cup {Free}] /\ m_senders' \in [Slot -> SUBSET Signal]
      /\ m_connected_slots \in [Signal -> SUBSET Slot] /\ slotOp \in [SlotThread -> Operation]
      /\ todo \in [SlotThread -> SUBSET (Signal \cup Slot)]
  BY <1>4 DEF LocksInv, LocksTypeOK
<1>7. /\ m_connected_slots' \in [Signal -> SUBSET Slot]
      /\ \A x \in Signal \ {f} : m_connected_slots'[x] = m_connected_slots[x]
      /\ f \in Signal => m_connected_slots'[f] = m_connected_slots[f] \ {o.slot}
  BY Zenon, <1>4, <1>6
<1>8. f \in Signal => holder[f] = Free
  BY <1>4 DEF MayLock, Mutex
<1>9. Goes(t, o, d)
  BY <1>1, <1>3, <1>4, <1>6 DEF Goes
<1>10. LeavesAlone(t) /\ \A q \in Slot : Gone(q)' => Gone(q)
  BY <1>1, <1>4, <1>7, <1>8, <1>9, OneSignalChanges
<1>11. SoFar(t, o, d)'
  <2>1. /\ o.kind = "destroy" => o.slot \notin whole' /\ m_senders'[o.slot] = {}
        /\ o.kind \in {"connect", "disconnect", "forget_all"} => o.slot \in whole'
    BY <1>1, <1>4 DEF LocksInv, SoFar
  <2> QED BY <1>5, <2>1 DEF SoFar
<1>12. ASSUME NEW s \in Signal, NEW q \in m_connected_slots'[s]
       PROVE  \/ s \in m_senders'[q] \/ Mends(o, d, s, q)
              \/ \E u \in SlotThread \ {t} : Mends(slotOp[u], todo[u], s, q)
  <2>1. q \in m_connected_slots[s] /\ ~ (s = f /\ q = o.slot)
    BY <1>6, <1>7
  <2>2. Mends(o, todo[t], s, q) => Mends(o, d, s, q)
    BY <1>3, <1>5, <2>1 DEF Mends
  <2> QED BY <1>1, <1>4, <2>1, <2>2 DEF LocksInv, Linked
<1>13. \A q \in Slot : Gone(q)' => m_senders'[q] = {}
  BY <1>4, <1>10 DEF LocksInv
<1>14. \A u \in SlotThread \ {t} : ~ Clash(slotOp[u], o) /\ ~ Clash(o, slotOp[u])
  BY <1>1 DEF LocksInv
<1> QED BY <1>6, <1>7, <1>9, <1>10, <1>11, <1>12, <1>13, <1>14, StepKeeps

(* The end of has_slots::do_disconnect_all, and with it of the destructor, *)
(* keeps the invariant.                                                    *)
LEMMA UnlockSlotKeeps ==
  ASSUME LocksInv, NEW t \in SlotThread, UnlockSlot(t)
  PROVE  LocksInv'
<1>1. PICK o \in Operation : o = slotOp[t]
  BY DEF LocksInv, LocksTypeOK
<1>2. PICK d : d = todo[t]
  OBVIOUS
<1>3. /\ o.kind \in SlotFirst /\ o.at = "locked" /\ todo[t] = {} /\ Unlock(o.slot)
      /\ slotOp' = [slotOp EXCEPT ![t] = NoOperation] /\ todo' = todo /\ whole' = whole
      /\ m_connected_slots' = m_connected_slots /\ m_senders' = m_senders
  BY <1>1 DEF UnlockSlot
<1>4. o.slot \in Slot /\ o.slot \notin Signal /\ o.kind # "connect"
  BY <1>3, OperationParts, LocksAssumption DEF SlotFirst
<1>5. /\ holder \in [Mutex -> SlotThread \cup {Free}] /\ todo \in [SlotThread -> SUBSET (Signal \cup Slot)]
      /\ m_connected_slots' \in [Signal -> SUBSET Slot] /\ m_senders' \in [Slot -> SUBSET Signal]
      /\ slotOp \in [SlotThread -> Operation]
  BY <1>3 DEF LocksInv, LocksTypeOK
<1>6. /\ holder' \in [Mutex -> SlotThread \cup {Free}]
      /\ \A x \in Signal : holder'[x] = holder[x]
  BY <1>3, <1>4, <1>5 DEF Unlock, Mutex
<1>7. Goes(t, NoOperation, d)
  BY <1>2, <1>3, <1>5 DEF Goes, Operation
<1>8. \A q \in Slot : Gone(q)' => Gone(q) \/ (o.kind = "destroy" /\ q = o.slot)
  BY <1>1, <1>3, <1>5 DEF Gone
<1>9. LeavesAlone(t)
  <2>1. o.kind = "destroy" => \A u \in SlotThread \ {t} : slotOp[u].kind # "copy"
    <3>1. SUFFICES ASSUME o.kind = "destroy", NEW u \in SlotThread \ {t}, slotOp[u].kind = "copy"
                   PROVE  FALSE
      BY Zenon
    <3>2. Clash(slotOp[u], o)
      BY <1>4, <3>1 DEF Clash, Reaches, SlotFirst
    <3> QED BY <1>1, <3>2 DEF LocksInv
  <2> QED BY <1>3, <1>6, <1>8, <2>1 DEF LeavesAlone
<1>10. SoFar(t, NoOperation, d)'
  BY DEF SoFar, NoOperation, SignalFirst, OnSignal, Loops
<1>11. ASSUME NEW s \in Signal, NEW q \in m_connected_slots'[s]
       PROVE  \/ s \in m_senders'[q]
              \/ \E u \in SlotThread \ {t} : Mends(slotOp[u], todo[u], s, q)
  <2>1. ~ Mends(o, todo[t], s, q)
    BY <1>3, <1>4 DEF Mends
  <2> QED BY Zenon, <1>1, <1>3, <2>1 DEF LocksInv, Linked
<1>12. \A q \in Slot : Gone(q)' => m_senders'[q] = {}
  <2>1. o.kind = "destroy" => m_senders[o.slot] = {}
    BY <1>1, <1>3 DEF LocksInv, SoFar
  <2> QED BY <1>3, <1>8, <2>1 DEF LocksInv
<1>13. \A u \in SlotThread \ {t} : ~ Clash(slotOp[u], NoOperation) /\ ~ Clash(NoOperation, slotOp[u])
  BY DEF Clash, Reaches, NoOperation, SlotFirst
<1> QED BY <1>5, <1>6, <1>7, <1>9, <1>10, <1>11, <1>12, <1>13, StepKeeps

(* For any threads, signals and objects, whether objects have a mutex or   *)
(* not: emit of sigslot.h never calls an object whose destructor has       *)
(* returned on another thread, and no signal stays connected to one.       *)
THEOREM EmitNeverCallsTheGone == LocksSpec => []EmitFindsItsSlots
<1>1. LocksInit => LocksInv
  <2> SUFFICES ASSUME LocksInit PROVE LocksInv
    OBVIOUS
  <2>1. LocksTypeOK
    BY DEF LocksInit, LocksTypeOK, Operation
  <2>2. Linked /\ \A p \in Slot : Gone(p) => m_senders[p] = {}
    BY DEF LocksInit, Linked
  <2>3. \A t \in SlotThread : SoFar(t, slotOp[t], todo[t])
    BY Zenon DEF LocksInit, SoFar, NoOperation, SignalFirst, OnSignal, Loops
  <2>4. \A t \in SlotThread : \A u \in SlotThread \ {t} : ~ Clash(slotOp[u], slotOp[t])
    BY DEF LocksInit, Clash, Reaches, NoOperation, SlotFirst
  <2> QED BY <2>1, <2>2, <2>3, <2>4 DEF LocksInv
<1>2. LocksInv /\ [LocksNext]_lockVars => LocksInv'
  <2> SUFFICES ASSUME LocksInv, [LocksNext]_lockVars PROVE LocksInv'
    OBVIOUS
  <2>1. ASSUME NEW t \in SlotThread, NEW kind \in OnSignal, NEW s \in Signal, NEW p \in Slot,
               BeginOnSignal(t, kind, s, p)
        PROVE  LocksInv'
    <3>1. PICK o : o = [kind |-> kind, at |-> "begin", signal |-> s, slot |-> p]
      BY Zenon
    <3>2. o \in Operation /\ o.kind = kind /\ o.at = "begin" /\ o.slot = p
      BY <3>1 DEF Operation, Stage
    <3>3. kind \in SignalFirst \cup SlotFirst /\ kind \notin {"destroy", "forget_all"}
      BY DEF SignalFirst, OnSignal
    <3> QED BY <2>1, <3>1, <3>2, <3>3, BeginKeeps DEF BeginOnSignal
  <2>2. ASSUME NEW t \in SlotThread, NEW s \in Signal, NEW source \in Signal, BeginCopy(t, s, source)
        PROVE  LocksInv'
    <3>1. PICK p \in Slot :
             Begin(t, [kind |-> "copy", at |-> "begin", signal |-> s, slot |-> p, source |-> source])
      BY <2>2 DEF BeginCopy
    <3>2. PICK o : o = [kind |-> "copy", at |-> "begin", signal |-> s, slot |-> p, source |-> source]
      BY Zenon
    <3>3. o \in Operation /\ o.kind = "copy" /\ o.at = "begin" /\ o.kind \in SignalFirst
      BY <3>2 DEF Operation, Stage, SignalFirst
    <3>4. whole' = whole /\ Begin(t, o)
      BY <2>2, <3>1, <3>2 DEF BeginCopy
    <3> QED BY <3>3, <3>4, BeginKeeps
  <2>3. ASSUME NEW t \in SlotThread, NEW p \in Slot, BeginForget(t, p) PROVE LocksInv'
    <3>1. PICK o : o = [kind |-> "forget_all", at |-> "begin", slot |-> p]
      BY Zenon
    <3>2. /\ o \in Operation /\ o.kind = "forget_all" /\ o.at = "begin" /\ o.slot = p
          /\ o.kind \in SlotFirst
      BY <3>1 DEF Operation, Stage, SlotFirst
    <3>3. p \in whole /\ whole' = whole /\ Begin(t, o)
      BY <2>3, <3>1 DEF BeginForget
    <3> QED BY <3>2, <3>3, BeginKeeps
  <2>4. ASSUME NEW t \in SlotThread, NEW p \in Slot, BeginDestroy(t, p) PROVE LocksInv'
    <3>1. PICK o : o = [kind |-> "destroy", at |-> "begin", slot |-> p]
      BY Zenon
    <3>2. /\ o \in Operation /\ o.kind = "destroy" /\ o.at = "begin" /\ o.slot = p
          /\ o.kind \in SlotFirst
      BY <3>1 DEF Operation, Stage, SlotFirst
    <3>3. whole' = whole \ {p} /\ Begin(t, o) /\ \A u \in SlotThread : ~ Names(u, p)
      BY <2>4, <3>1 DEF BeginDestroy
    <3> QED BY <3>2, <3>3, BeginKeeps
  <2>5. CASE UNCHANGED lockVars
    <3>1. /\ holder' = holder /\ m_connected_slots' = m_connected_slots /\ m_senders' = m_senders
          /\ slotOp' = slotOp /\ todo' = todo /\ whole' = whole
      BY <2>5 DEF lockVars
    <3>2. LocksTypeOK' /\ Linked'
      BY <3>1 DEF LocksInv, LocksTypeOK, Linked
    <3>3. \A p \in Slot : Gone(p)' <=> Gone(p)
      BY <3>1 DEF Gone
    <3>4. ASSUME NEW t \in SlotThread PROVE SoFar(t, slotOp[t], todo[t])'
      <4>1. PICK o : o = slotOp[t]
        OBVIOUS
      <4>2. SoFar(t, o, todo[t]) /\ (o.kind = "copy" /\ o.at = "slot" => o.slot \in Slot)
        BY <4>1, OperationParts DEF LocksInv, LocksTypeOK, SignalFirst
      <4>3. SoFar(t, o, todo[t])'
        BY <3>1, <3>3, <4>2 DEF SoFar, Loops
      <4> QED BY <3>1, <4>1, <4>3
    <3> QED BY <3>1, <3>2, <3>3, <3>4 DEF LocksInv
  <2> QED
    BY <2>1, <2>2, <2>3, <2>4, <2>5, LockSignalKeeps, NextSlotKeeps, InSlotKeeps,
       UnlockSignalKeeps, LockSlotKeeps, ForgetSignalKeeps, UnlockSlotKeeps DEF LocksNext
<1>3. LocksInv => EmitFindsItsSlots
  <2> SUFFICES ASSUME LocksInv PROVE EmitFindsItsSlots
    OBVIOUS
  <2>1. \A s \in Signal : \A p \in m_connected_slots[s] : ~ Gone(p)
    BY ConnectedAreThere
  <2>2. ASSUME NEW t \in SlotThread, slotOp[t].kind = "emit", slotOp[t].at = "slot"
        PROVE  ~ Gone(slotOp[t].slot)
    <3>1. slotOp[t] \in Operation /\ SoFar(t, slotOp[t], todo[t])
      BY DEF LocksInv, LocksTypeOK
    <3>2. slotOp[t].signal \in Signal
      BY <2>2, <3>1, OperationParts DEF SignalFirst, OnSignal
    <3> QED BY <2>1, <2>2, <3>1, <3>2 DEF SoFar
  <2> QED BY <2>1, <2>2 DEF EmitFindsItsSlots
<1> QED BY <1>1, <1>2, <1>3, PTL DEF LocksSpec
=============================================================================
