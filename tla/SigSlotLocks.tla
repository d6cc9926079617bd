----------------------------- MODULE SigSlotLocks -----------------------------
(***************************************************************************)
(* Signals and slots (rtc_base/third_party/sigslot/sigslot.h) used from    *)
(* several threads.  A signal and an object that has slots choose their    *)
(* threading policies separately.  Signals are multi_threaded_local here:  *)
(* each has a mutex.  Objects have one each as well, or are                *)
(* single_threaded, the default.  AsyncSocket declares signals of the      *)
(* former and the objects connected to them are of the latter kind.        *)
(* On POSIX the mutex is a default pthread mutex, which blocks whoever     *)
(* locks it again.  (The kind of the mutex of multi_threaded_global is not *)
(* in the header.)                                                         *)
(*                                                                         *)
(* A step runs from one acquisition of a mutex to the next.  Operations on *)
(* a signal hold its mutex and then take the object's; operations on an    *)
(* object hold its mutex and then take each signal's.  An object is        *)
(* connected at most once to a signal here and list order is left out:     *)
(* module SigSlot has both, and slots that use the signal that calls them. *)
(***************************************************************************)
EXTENDS Naturals

CONSTANTS
    SlotThread, Signal, Slot,
    SlotsLock   \* objects are multi_threaded_local, otherwise single_threaded

Free == "free"

ASSUME LocksAssumption == Free \notin SlotThread /\ Signal \intersect Slot = {}

VARIABLES
    holder,            \* the thread that holds each mutex, or Free
    m_connected_slots, \* the objects connected to each signal
    m_senders,         \* the signals each object knows
    slotOp,            \* the operation each thread is in
    todo,              \* what the loop of that operation has left
    whole              \* the objects whose destructor has not begun

lockVars == <<holder, m_connected_slots, m_senders, slotOp, todo, whole>>

OnSignal == {"connect", "disconnect", "disconnect_all", "emit"}
SignalFirst == OnSignal \union {"copy"}
Loops == {"disconnect_all", "emit", "copy"}
SlotFirst == {"forget_all", "destroy"}
NoOperation == [kind |-> "idle"]

Mutex == Signal \union (IF SlotsLock THEN Slot ELSE {})

-----------------------------------------------------------------------------
(* lock() of single_threaded does nothing.                                 *)
(* MayLock_Always: signals are single_threaded too.                        *)
MayLock_Always(x) == TRUE
MayLock(x) == x \in Mutex => holder[x] = Free

Lock(t, x) == holder' = [m \in Mutex |-> IF m = x THEN t ELSE holder[m]]
Unlock(x) == holder' = [m \in Mutex |-> IF m = x THEN Free ELSE holder[m]]

Names(t, p) == slotOp[t].kind \in {"connect", "disconnect", "forget_all"} /\ slotOp[t].slot = p

Copies(t, s) == slotOp[t].kind = "copy" /\ slotOp[t].signal = s

(* The objects whose m_senders an operation may change. *)
Reaches(o) ==
    CASE o.kind \in {"connect", "disconnect"} \union SlotFirst -> {o.slot}
      [] o.kind \in {"disconnect_all", "copy"} -> Slot
      [] OTHER -> {}

(* "If has_slots is single threaded the user must ensure that it is not    *)
(* trying to connect or disconnect to signalx concurrently."  The copy     *)
(* constructor reads the list of the other signal without its mutex, and   *)
(* leaves it to the user that nobody changes it.                           *)
Clash(o, q) ==
    /\ ~ SlotsLock \/ "copy" \in {o.kind, q.kind}
    /\ Reaches(o) \intersect Reaches(q) # {}

Begin(t, o) ==
    /\ slotOp[t] = NoOperation
    /\ \A u \in SlotThread : ~ Clash(slotOp[u], o)
    /\ slotOp' = [slotOp EXCEPT ![t] = o]
    /\ UNCHANGED <<holder, m_connected_slots, m_senders, todo>>

(* A caller that names an object knows that it is not being destroyed, and *)
(* an object is destroyed when no caller names it; being connected to      *)
(* signals that other threads use does not stop its owner.                 *)
BeginOnSignal(t, kind, s, p) ==
    /\ kind \in {"connect", "disconnect"} => p \in whole
    /\ \A u \in SlotThread : ~ Copies(u, s)
    /\ Begin(t, [kind |-> kind, at |-> "begin", signal |-> s, slot |-> p])
    /\ whole' = whole

(* The copy constructor of a signal, at an address where none is. *)
BeginCopy(t, s, source) ==
    /\ s # source
    /\ m_connected_slots[s] = {} /\ \A p \in Slot : s \notin m_senders[p]
    /\ \A u \in SlotThread :
          /\ slotOp[u].kind \in SignalFirst => slotOp[u].signal # s
          /\ ~ Copies(u, source) /\ s \notin todo[u]
    /\ \E p \in Slot :
          Begin(t, [kind |-> "copy", at |-> "begin", signal |-> s, slot |-> p, source |-> source])
    /\ whole' = whole

BeginForget(t, p) ==
    /\ p \in whole
    /\ Begin(t, [kind |-> "forget_all", at |-> "begin", slot |-> p])
    /\ whole' = whole

(* The destructor of the class derived from has_slots runs first. *)
BeginDestroy(t, p) ==
    /\ p \in whole
    /\ \A u \in SlotThread : ~ Names(u, p)
    /\ Begin(t, [kind |-> "destroy", at |-> "begin", slot |-> p])
    /\ whole' = whole \ {p}

-----------------------------------------------------------------------------
(* connect, disconnect, disconnect_all and emit of a signal take its       *)
(* mutex; the first three change the list before they call the object.     *)
(* The copy constructor takes the mutex of the new signal.                 *)
LockSignal(t) ==
    /\ slotOp[t].kind \in SignalFirst /\ slotOp[t].at = "begin"
    /\ LET s == slotOp[t].signal
           p == slotOp[t].slot IN
       /\ MayLock(s)
       /\ Lock(t, s)
       /\ CASE slotOp[t].kind = "connect" ->
                 /\ m_connected_slots' = [m_connected_slots EXCEPT ![s] = @ \union {p}]
                 /\ slotOp' = [slotOp EXCEPT ![t].at = "slot"]
                 /\ todo' = todo
            [] slotOp[t].kind = "disconnect" ->
                 /\ m_connected_slots' = [m_connected_slots EXCEPT ![s] = @ \ {p}]
                 /\ slotOp' = [slotOp EXCEPT
                      ![t].at = IF p \in m_connected_slots[s] THEN "slot" ELSE "end"]
                 /\ todo' = todo
            [] OTHER ->
                 /\ slotOp' = [slotOp EXCEPT ![t].at = "locked"]
                 /\ todo' = [todo EXCEPT ![t] = m_connected_slots[
                       IF slotOp[t].kind = "copy" THEN slotOp[t].source ELSE s]]
                 /\ UNCHANGED m_connected_slots
    /\ UNCHANGED <<m_senders, whole>>

(* One round of the loops of disconnect_all, emit and the copy constructor. *)
NextSlot(t) ==
    /\ slotOp[t].kind \in Loops /\ slotOp[t].at = "locked"
    /\ \E p \in todo[t] :
          /\ slotOp' = [slotOp EXCEPT ![t].slot = p, ![t].at = "slot"]
          /\ todo' = [todo EXCEPT ![t] = @ \ {p}]
          /\ m_connected_slots' = [m_connected_slots EXCEPT
                ![slotOp[t].signal] = IF slotOp[t].kind = "disconnect_all" THEN @ \ {p} ELSE @]
    /\ UNCHANGED <<holder, m_senders, whole>>

(* The object's part: do_signal_connect or do_signal_disconnect, under its *)
(* own mutex, or, for emit, the slot, under no mutex but the signal's.     *)
(* The copy constructor adds to its list after it has called the object.   *)
InSlot(t) ==
    /\ slotOp[t].kind \in SignalFirst /\ slotOp[t].at = "slot"
    /\ LET s == slotOp[t].signal
           p == slotOp[t].slot IN
       /\ slotOp[t].kind # "emit" => MayLock(p)
       /\ m_senders' = [m_senders EXCEPT ![p] =
             CASE slotOp[t].kind \in {"connect", "copy"} -> @ \union {s}
               [] slotOp[t].kind = "emit" -> @
               [] OTHER -> @ \ {s}]
       /\ m_connected_slots' = [m_connected_slots EXCEPT ![s] =
             IF slotOp[t].kind = "copy" THEN @ \union {p} ELSE @]
    /\ slotOp' = [slotOp EXCEPT ![t].at = IF slotOp[t].kind \in Loops THEN "locked" ELSE "end"]
    /\ UNCHANGED <<holder, todo, whole>>

UnlockSignal(t) ==
    /\ slotOp[t].kind \in SignalFirst
    /\ slotOp[t].at = "end" \/ (slotOp[t].at = "locked" /\ todo[t] = {})
    /\ Unlock(slotOp[t].signal)
    /\ slotOp' = [slotOp EXCEPT ![t] = NoOperation]
    /\ UNCHANGED <<m_connected_slots, m_senders, todo, whole>>

(* has_slots::do_disconnect_all: take the mutex, swap m_senders out.  *)
LockSlot(t) ==
    /\ slotOp[t].kind \in SlotFirst /\ slotOp[t].at = "begin"
    /\ LET p == slotOp[t].slot IN
       /\ MayLock(p)
       /\ Lock(t, p)
       /\ todo' = [todo EXCEPT ![t] = m_senders[p]]
       /\ m_senders' = [m_senders EXCEPT ![p] = {}]
    /\ slotOp' = [slotOp EXCEPT ![t].at = "locked"]
    /\ UNCHANGED <<m_connected_slots, whole>>

(* m_senders is a std::set, visited in the order of addresses. *)
NextSender(t) == CHOOSE s \in todo[t] : TRUE

(* Each signal erases the object under the signal's mutex. *)
ForgetSignal(t) ==
    /\ slotOp[t].kind \in SlotFirst /\ slotOp[t].at = "locked"
    /\ todo[t] # {}
    /\ MayLock(NextSender(t))
    /\ m_connected_slots' = [m_connected_slots EXCEPT
                                ![NextSender(t)] = @ \ {slotOp[t].slot}]
    /\ todo' = [todo EXCEPT ![t] = @ \ {NextSender(t)}]
    /\ UNCHANGED <<holder, m_senders, slotOp, whole>>

UnlockSlot(t) ==
    /\ slotOp[t].kind \in SlotFirst /\ slotOp[t].at = "locked" /\ todo[t] = {}
    /\ Unlock(slotOp[t].slot)
    /\ slotOp' = [slotOp EXCEPT ![t] = NoOperation]
    /\ UNCHANGED <<m_connected_slots, m_senders, todo, whole>>

-----------------------------------------------------------------------------
LocksInit ==
    /\ holder = [m \in Mutex |-> Free]
    /\ m_connected_slots = [s \in Signal |-> {}]
    /\ m_senders = [p \in Slot |-> {}]
    /\ slotOp = [t \in SlotThread |-> NoOperation]
    /\ todo = [t \in SlotThread |-> {}]
    /\ whole = Slot

LocksNext ==
    \E t \in SlotThread :
        \/ \E kind \in OnSignal, s \in Signal, p \in Slot : BeginOnSignal(t, kind, s, p)
        \/ \E s, source \in Signal : BeginCopy(t, s, source)
        \/ \E p \in Slot : BeginForget(t, p)
        \/ \E p \in Slot : BeginDestroy(t, p)
        \/ LockSignal(t) \/ NextSlot(t) \/ InSlot(t) \/ UnlockSignal(t)
        \/ LockSlot(t) \/ ForgetSignal(t) \/ UnlockSlot(t)

LocksSpec == LocksInit /\ [][LocksNext]_lockVars

-----------------------------------------------------------------------------
(* The mutexes a thread holds, and the one it needs for its next step. *)
Holds(t) == {m \in Mutex : holder[m] = t}
Needs(t) ==
    Mutex \intersect
    CASE slotOp[t].kind \in SignalFirst /\ slotOp[t].at = "begin" -> {slotOp[t].signal}
      [] slotOp[t].kind \in SignalFirst \ {"emit"} /\ slotOp[t].at = "slot" -> {slotOp[t].slot}
      [] slotOp[t].kind \in SlotFirst /\ slotOp[t].at = "begin" -> {slotOp[t].slot}
      [] slotOp[t].kind \in SlotFirst /\ slotOp[t].at = "locked" /\ todo[t] # {} -> {NextSender(t)}
      [] OTHER -> {}

(* No two threads each hold the mutex the other one needs: signals and     *)
(* objects "can be safely created and destroyed from any thread, even when *)
(* connections exist".                                                     *)
NoLockCycle ==
    \A t, u \in SlotThread :
        t # u => Needs(t) \intersect Holds(u) = {} \/ Needs(u) \intersect Holds(t) = {}

(* The destructor of the object has returned. *)
Gone(p) ==
    p \notin whole /\ \A t \in SlotThread : ~ (slotOp[t].kind = "destroy" /\ slotOp[t].slot = p)

(* An object that has slots may be destroyed on one thread while another   *)
(* emits the signals it is connected to: emit never calls an object whose  *)
(* destructor has returned, and no signal stays connected to one.          *)
EmitFindsItsSlots ==
    /\ \A t \in SlotThread :
          slotOp[t].kind = "emit" /\ slotOp[t].at = "slot" => ~ Gone(slotOp[t].slot)
    /\ \A s \in Signal : \A p \in m_connected_slots[s] : ~ Gone(p)
=============================================================================
