------------------------------- MODULE Tasks -------------------------------
(***************************************************************************)
(* The two ways of having work done in order: calls through a proxy, and   *)
(* operations of an OperationsChain.  They do not interact, so one is used *)
(* only while the other is as it was built.                                *)
(***************************************************************************)
EXTENDS Proxy, OperationsChain

CONSTANTS signaling, worker, app

taskVars == <<vars, chainVars>>

(* Application code calls to both threads, the signaling thread calls to   *)
(* the worker thread, and the worker thread calls to nobody else.          *)
Downwards ==
    [t \in Thread |-> IF t = worker THEN {worker} ELSE {signaling, worker}]

-----------------------------------------------------------------------------
TasksInit == Init /\ ChainInit

OnProxy(step) == ChainInit /\ step /\ UNCHANGED chainVars
OnChain(step) == Init /\ step /\ UNCHANGED vars

TasksNext == OnProxy(Next) \/ OnChain(ChainNext)

(* Methods return, message loops come back to their queue, and a thread    *)
(* whose event is set wakes up.  The contract of an operation: its functor *)
(* returns, and it invokes its callback sooner or later.                   *)
TasksSpec ==
    /\ TasksInit /\ [][TasksNext]_taskVars
    /\ \A t \in Thread :
          /\ WF_taskVars(OnProxy(WaitReturns(t)))
          /\ SF_taskVars(OnProxy(RunTask(t)))
          /\ \A d \in 1..MaxDepth :
                SF_taskVars(OnProxy(Len(stack[t]) = d /\ (RunReturns(t) \/ DirectReturns(t))))
    /\ WF_taskVars(OnChain(FunctorReturns))
    /\ \A o \in Op : WF_taskVars(OnChain(OnOperationComplete(o)))
=============================================================================
