-------------------------------- MODULE Proxy --------------------------------
(***************************************************************************)
(* The proxies of api/proxy.h: an object whose methods must run on the     *)
(* signaling or the worker thread is reached from any thread through a     *)
(* proxy.  A method of the proxy builds a MethodCall on its own stack and  *)
(* marshals it: on the right thread it invokes the method at once,         *)
(* elsewhere it posts the call to the thread and blocks until Run has set  *)
(* the event.  The destructor of the proxy marshals DestroyInternal in the *)
(* same way.  Methods, and the destructor of the object, may call proxies. *)
(*                                                                         *)
(* A blocked thread waits for one call only, so a MethodCall that has been *)
(* posted is named after the thread whose stack it is on.                  *)
(***************************************************************************)
EXTENDS Naturals, Sequences, SequencesExt

CONSTANTS
    Thread,
    MayCall,    \* the threads that code running on each thread may call to
    Destructor, \* destructor_thread()
    MaxDepth    \* bound: calls in progress on one thread

ASSUME ThreadAssumption ==
    /\ MayCall \in [Thread -> SUBSET Thread]
    /\ Destructor \in Thread
    /\ MaxDepth \in Nat \ {0}

VARIABLES
    stack,   \* each thread's frames, innermost last
    queue,   \* each thread's posted tasks, oldest first
    event_,  \* is the event of the call each thread waits for set?
    runs,    \* history: how often that call has invoked its method
    c_,      \* does the proxy still point to the object?
    object   \* "alive", "released" (by the last client), "dying" (in its
             \* destructor) or "dead"

vars == <<stack, queue, event_, runs, c_, object>>

(* wait: blocked in Marshal, for a call posted to thread peer.             *)
(* run: in a method, for the call that thread peer posted.                 *)
(* direct: in a method that this thread invoked itself.                    *)
Frame == [kind : {"wait", "run", "direct"}, peer : Thread, destroy : BOOLEAN]

TypeOK ==
    /\ stack \in [Thread -> Seq(Frame)]
    /\ queue \in [Thread -> Seq(Thread)]
    /\ event_ \in [Thread -> BOOLEAN]
    /\ runs \in [Thread -> 0..1]
    /\ c_ \in BOOLEAN
    /\ object \in {"alive", "released", "dying", "dead"}

-----------------------------------------------------------------------------
Top(t) == Last(stack[t])
Push(t, kind, peer, destroy) ==
    stack' = [stack EXCEPT ![t] = Append(@, [kind |-> kind, peer |-> peer,
                                             destroy |-> destroy])]
Pop(t) == stack' = [stack EXCEPT ![t] = Front(@)]

(* A thread runs client code, or a method, unless it is blocked. *)
Running(t) == stack[t] # <<>> => Top(t).kind # "wait"

(* Marshal.  A call is posted with its event clear. *)
Marshal(t, u, destroy) ==
    IF t = u
    THEN /\ Push(t, "direct", t, destroy)
         /\ object' = IF destroy THEN "dying" ELSE object
         /\ UNCHANGED <<queue, event_, runs>>
    ELSE /\ Push(t, "wait", u, destroy)
         /\ queue' = [queue EXCEPT ![u] = Append(@, t)]
         /\ event_' = [event_ EXCEPT ![t] = FALSE]
         /\ runs' = [runs EXCEPT ![t] = 0]
         /\ object' = IF destroy THEN "released" ELSE object

(* A method of the proxy.  Clients call it while they hold the proxy, and  *)
(* the object's own destructor, or a method that it called, may call back. *)
CallMethod(t, u) ==
    /\ Running(t)
    /\ Len(stack[t]) < MaxDepth
    /\ u \in MayCall[t]
    /\ object = "alive" \/ (object = "dying" /\ stack[t] # <<>>)
    /\ Marshal(t, u, FALSE)
    /\ c_' = c_

(* The destructor if c_ were a unique_ptr that is reset: the pointer is    *)
(* cleared before the object is deleted.                                   *)
DestroyProxy_UniquePtr(t) ==
    /\ object = "alive"
    /\ Destructor \in MayCall[t]
    /\ \A u \in Thread : stack[u] = <<>>
    /\ Marshal(t, Destructor, TRUE)
    /\ c_' = FALSE

(* The destructor of the proxy: the last reference is gone, so no call is  *)
(* in progress.                                                            *)
DestroyProxy(t) ==
    /\ object = "alive"
    /\ Destructor \in MayCall[t]
    /\ \A u \in Thread : stack[u] = <<>>
    /\ Marshal(t, Destructor, TRUE)
    /\ c_' = c_

(* A message loop that takes the newest task. *)
RunTask_Newest(u) ==
    /\ stack[u] = <<>>
    /\ queue[u] # <<>>
    /\ LET t == Last(queue[u]) IN
       /\ Push(u, "run", t, Top(t).destroy)
       /\ runs' = [runs EXCEPT ![t] = @ + 1]
       /\ object' = IF Top(t).destroy THEN "dying" ELSE object
    /\ queue' = [queue EXCEPT ![u] = Front(@)]
    /\ UNCHANGED <<event_, c_>>

(* A thread's message loop takes the oldest task and calls Run. *)
RunTask(u) ==
    /\ stack[u] = <<>>
    /\ queue[u] # <<>>
    /\ LET t == Head(queue[u]) IN
       /\ Push(u, "run", t, Top(t).destroy)
       /\ runs' = [runs EXCEPT ![t] = @ + 1]
       /\ object' = IF Top(t).destroy THEN "dying" ELSE object
    /\ queue' = [queue EXCEPT ![u] = Tail(@)]
    /\ UNCHANGED <<event_, c_>>

(* DestroyInternal has deleted the object. *)
Deleted(t) == /\ object' = IF Top(t).destroy THEN "dead" ELSE object
              /\ c_' = IF Top(t).destroy THEN FALSE ELSE c_

(* The method returns, and Run sets the event of the call.  Run returns    *)
(* false, so the queue does not delete the call.                           *)
RunReturns(u) ==
    /\ stack[u] # <<>> /\ Top(u).kind = "run"
    /\ event_' = [event_ EXCEPT ![Top(u).peer] = TRUE]
    /\ Deleted(u)
    /\ Pop(u)
    /\ UNCHANGED <<queue, runs>>

DirectReturns(t) ==
    /\ stack[t] # <<>> /\ Top(t).kind = "direct"
    /\ Deleted(t)
    /\ Pop(t)
    /\ UNCHANGED <<queue, event_, runs>>

(* Marshal if its wait gave up after a time. *)
WaitReturns_Timeout(t) ==
    /\ stack[t] # <<>> /\ Top(t).kind = "wait"
    /\ Pop(t)
    /\ UNCHANGED <<queue, event_, runs, c_, object>>

(* Wait(kForever) returns; Marshal returns the result and the call's       *)
(* storage goes with the frame.                                            *)
WaitReturns(t) ==
    /\ stack[t] # <<>> /\ Top(t).kind = "wait"
    /\ event_[t]
    /\ Pop(t)
    /\ UNCHANGED <<queue, event_, runs, c_, object>>

(* Create: a proxy for a new object. *)
Create ==
    /\ object = "dead"
    /\ \A u \in Thread : stack[u] = <<>>
    /\ object' = "alive" /\ c_' = TRUE
    /\ UNCHANGED <<stack, queue, event_, runs>>

-----------------------------------------------------------------------------
Init ==
    /\ stack = [t \in Thread |-> <<>>]
    /\ queue = [t \in Thread |-> <<>>]
    /\ event_ = [t \in Thread |-> FALSE]
    /\ runs = [t \in Thread |-> 0]
    /\ c_ = FALSE
    /\ object = "dead"

Next ==
    \/ Create
    \/ \E t \in Thread :
          \/ \E u \in Thread : CallMethod(t, u)
          \/ DestroyProxy(t)
          \/ RunTask(t)
          \/ RunReturns(t) \/ DirectReturns(t) \/ WaitReturns(t)

Spec == Init /\ [][Next]_vars

(* Methods return, message loops come back to their queue, and a thread    *)
(* whose event is set wakes up.                                            *)
FairSpec ==
    /\ Spec
    /\ \A t \in Thread :
          /\ WF_vars(WaitReturns(t))
          /\ SF_vars(RunTask(t))
          /\ \A d \in 1..MaxDepth :
                SF_vars(Len(stack[t]) = d /\ (RunReturns(t) \/ DirectReturns(t)))

-----------------------------------------------------------------------------
AwaitedBy(t, u) == stack[t] # <<>> /\ Top(t).kind = "wait" /\ Top(t).peer = u /\ ~ event_[t]
Runs(u, t) == \E i \in DOMAIN stack[u] : stack[u][i].kind = "run" /\ stack[u][i].peer = t

(* A MethodCall that is in a queue, or whose Run has not set the event     *)
(* yet, is on the stack of a thread blocked in Marshal: the queue never    *)
(* holds, and Run never writes to, a call that has gone out of scope.  A   *)
(* caller that may go on has had its method invoked exactly once, and the  *)
(* method has returned: the result that Marshal moves out is there.        *)
CallsRunOnceWhileAwaited ==
    \A t, u \in Thread :
        /\ t \in ToSet(queue[u]) \/ Runs(u, t) => AwaitedBy(t, u)
        /\ stack[t] # <<>> /\ Top(t).kind = "wait" /\ event_[t] => runs[t] = 1

(* A method is invoked through a pointer that is set, on an object that    *)
(* exists, even when the object's destructor calls back into the proxy     *)
(* ("its inner pointer would be set to null before this reentrant callback *)
(* would have a chance to run" is what the code avoids).                   *)
MethodsFindTheirObject ==
    \A t \in Thread :
        stack[t] # <<>> /\ Top(t).kind # "wait" /\ ~ Top(t).destroy =>
            c_ /\ object # "dead"

(* If no cycle of threads call each other and methods return, every call   *)
(* through a proxy returns.                                                *)
CallsReturn == \A t \in Thread : (stack[t] # <<>>) ~> (stack[t] = <<>>)
=============================================================================
