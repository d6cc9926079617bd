----------------------------- MODULE Containers -----------------------------
(***************************************************************************)
(* The containers of base together.  They do not interact, so one moves    *)
(* only while the others are as they were built.                           *)
(***************************************************************************)
EXTENDS CircularDeque, LazilyDeallocatedDeque, IntrusiveHeap, ObserverList, CallbackList

vars == <<dequeVars, lazyVars, heapVars, observerVars, callbackVars>>

ObserverFresh == ObserverInit /\ policy_ = "ALL"
CallbackFresh == CallbackInit /\ once = FALSE

Init ==
    /\ DequeInit /\ LazyInit /\ HeapInit
    /\ \/ ObserverInit /\ CallbackFresh
       \/ ObserverFresh /\ CallbackInit

Next ==
    \/ /\ LazyInit /\ HeapInit /\ ObserverFresh /\ CallbackFresh
       /\ DequeNext
       /\ UNCHANGED <<lazyVars, heapVars, observerVars, callbackVars>>
    \/ /\ DequeInit /\ HeapInit /\ ObserverFresh /\ CallbackFresh
       /\ LazyNext
       /\ UNCHANGED <<dequeVars, heapVars, observerVars, callbackVars>>
    \/ /\ DequeInit /\ LazyInit /\ ObserverFresh /\ CallbackFresh
       /\ HeapNext
       /\ UNCHANGED <<dequeVars, lazyVars, observerVars, callbackVars>>
    \/ /\ DequeInit /\ LazyInit /\ HeapInit /\ CallbackFresh
       /\ ObserverNext
       /\ UNCHANGED <<dequeVars, lazyVars, heapVars, callbackVars>>
    \/ /\ DequeInit /\ LazyInit /\ HeapInit /\ ObserverFresh
       /\ CallbackNext
       /\ UNCHANGED <<dequeVars, lazyVars, heapVars, observerVars>>

Spec == Init /\ [][Next]_vars
=============================================================================
