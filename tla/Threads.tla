------------------------------ MODULE Threads ------------------------------
(***************************************************************************)
(* The objects that several threads use, together.  They do not interact,  *)
(* so one is used only while the others are as they were built.            *)
(***************************************************************************)
EXTENDS CopyOnWriteBuffer, SpinningMutex, SwapQueueOrders, ScopedRefptr, MediaChannel,
        SigSlotLocks

ChannelFresh == ChannelInit /\ enable_dscp_ = TRUE

threadVars == <<vars, mutexVars, orderVars, refptrVars, lockVars, channelVars>>

-----------------------------------------------------------------------------
ThreadsInit ==
    Init /\ MutexInit /\ OrdersInit /\ RefptrInit /\ LocksInit /\ ChannelInit

(* A thread uses the mutex. *)
MutexTurn(step) ==
    /\ Init /\ OrdersInit /\ RefptrInit /\ LocksInit /\ ChannelFresh
    /\ step
    /\ UNCHANGED <<vars, orderVars, refptrVars, lockVars, channelVars>>

ThreadsNext ==
    \/ MutexTurn(MutexNext)
    \/ /\ MutexInit /\ OrdersInit /\ RefptrInit /\ LocksInit /\ ChannelFresh
       /\ Next
       /\ UNCHANGED <<mutexVars, orderVars, refptrVars, lockVars, channelVars>>
    \/ /\ Init /\ MutexInit /\ RefptrInit /\ LocksInit /\ ChannelFresh
       /\ OrdersNext
       /\ UNCHANGED <<vars, mutexVars, refptrVars, lockVars, channelVars>>
    \/ /\ Init /\ MutexInit /\ OrdersInit /\ LocksInit /\ ChannelFresh
       /\ RefptrNext
       /\ UNCHANGED <<vars, mutexVars, orderVars, lockVars, channelVars>>
    \/ /\ Init /\ MutexInit /\ OrdersInit /\ RefptrInit /\ ChannelFresh
       /\ LocksNext
       /\ UNCHANGED <<vars, mutexVars, orderVars, refptrVars, channelVars>>
    \/ /\ Init /\ MutexInit /\ OrdersInit /\ RefptrInit /\ LocksInit
       /\ ChannelNext
       /\ UNCHANGED <<vars, mutexVars, orderVars, refptrVars, lockVars>>

(* Threads are scheduled, and whoever holds the mutex releases it; nobody  *)
(* need lock it, and nobody wakes up from a sleep unless woken.            *)
ThreadsSpec ==
    /\ ThreadsInit /\ [][ThreadsNext]_threadVars
    /\ \A t \in LockThread : WF_threadVars(MutexTurn(MutexStep(t)))
=============================================================================
