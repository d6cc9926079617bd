---------------------------- MODULE ScopedRefptr ----------------------------
(***************************************************************************)
(* rtc::scoped_refptr: variables of this type that are assigned to one     *)
(* another, and to themselves, on any threads.  The reference counts are   *)
(* atomic and AddRef and Release of one object commute, so an operation    *)
(* changes them in its own order in one step.  An address may be used      *)
(* again once its object is deleted.                                       *)
(***************************************************************************)
EXTENDS Naturals, FiniteSets

CONSTANTS Refptr, Object, NoObject

ASSUME RefptrAssumption == NoObject \notin Object /\ IsFiniteSet(Refptr)

VARIABLES
    ptr_,    \* what each variable points to
    counted  \* the objects that are not deleted, and the objects' reference counts

refptrVars == <<ptr_, counted>>

-----------------------------------------------------------------------------
RefAdded(c, o) == IF o = NoObject THEN c ELSE [c EXCEPT !.refs[o] = @ + 1]

(* Release deletes the object with its last reference. *)
RefReleased(c, o) ==
    IF o = NoObject THEN c
    ELSE [refs |-> [c.refs EXCEPT ![o] = @ - 1],
          alive |-> IF c.refs[o] = 1 THEN c.alive \ {o} ELSE c.alive]

(* operator= from a pointer, if it released first. *)
Reassigned_ReleaseFirst(c, old, new) == RefAdded(RefReleased(c, old), new)
(* operator= from a pointer: "AddRef first so that self assignment should work". *)
Reassigned(c, old, new) == RefReleased(RefAdded(c, new), old)

(* An object is built with a count of zero and assigned. *)
AssignNew(p) == \E o \in Object \ counted.alive :
    /\ counted' = Reassigned([refs |-> [counted.refs EXCEPT ![o] = 0],
                              alive |-> counted.alive \cup {o}], ptr_[p], o)
    /\ ptr_' = [ptr_ EXCEPT ![p] = o]

AssignNull(p) ==
    /\ counted' = Reassigned(counted, ptr_[p], NoObject)
    /\ ptr_' = [ptr_ EXCEPT ![p] = NoObject]

(* operator=(const scoped_refptr&), and the copy constructor for a new p. *)
AssignCopy(p, r) ==
    /\ counted' = Reassigned(counted, ptr_[p], ptr_[r])
    /\ ptr_' = [ptr_ EXCEPT ![p] = ptr_[r]]

(* operator=(scoped_refptr&&): r moves to a temporary, which is swapped    *)
(* with p and destroyed; a pointer moved to itself is kept.                *)
AssignMoved(p, r) ==
    LET temporary == ptr_[r]
        emptied == [ptr_ EXCEPT ![r] = NoObject]
    IN  /\ ptr_' = [emptied EXCEPT ![p] = temporary]
        /\ counted' = RefReleased(counted, emptied[p])

SwapRefptrs(p, r) ==
    /\ ptr_' = [ptr_ EXCEPT ![p] = ptr_[r], ![r] = ptr_[p]]
    /\ UNCHANGED counted

RefptrInit ==
    /\ ptr_ = [p \in Refptr |-> NoObject]
    /\ counted = [refs |-> [o \in Object |-> 0], alive |-> {}]

RefptrNext ==
    \/ \E p \in Refptr : AssignNew(p) \/ AssignNull(p)
    \/ \E p, r \in Refptr : AssignCopy(p, r) \/ AssignMoved(p, r) \/ SwapRefptrs(p, r)

RefptrSpec == RefptrInit /\ [][RefptrNext]_refptrVars

-----------------------------------------------------------------------------
(* The objects that are not deleted are those that a variable points to,   *)
(* whatever was assigned to what: none dangles, also after an assignment   *)
(* to itself, and none is leaked.                                          *)
PointedToAreAlive == counted.alive = {ptr_[p] : p \in Refptr} \ {NoObject}
=============================================================================
