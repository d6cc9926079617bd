--------------------------- MODULE OperationsChain ---------------------------
(***************************************************************************)
(* rtc::OperationsChain: asynchronous operations executed in order, at     *)
(* most one at a time.  Everything happens on one sequence, but a functor  *)
(* may invoke its completion callback before it returns, and may chain     *)
(* further operations, so Run, OnOperationComplete and ChainOperation nest *)
(* on the sequence's stack.  OnOperationComplete is compiled elsewhere:    *)
(* it is modelled from the class's declarations and the use Run and        *)
(* ChainOperation make of it.                                              *)
(***************************************************************************)
EXTENDS Naturals, Sequences

CONSTANTS Op

VARIABLES
    chained_operations_,  \* the operations, front first
    opRuns,               \* how often Run was called on each operation
    callback,             \* of each operation: "none", "pending" or "invoked"
    functor_,             \* of each operation: "none", the operation's "member",
                          \* a "local" variable of Run, or "destroyed"
    functors,             \* the operations whose functors execute on the sequence
    order                 \* history: the operations in the order they were chained

chainVars == <<chained_operations_, opRuns, callback, functor_, functors, order>>

-----------------------------------------------------------------------------
(* Run if it executed the functor where it is, in the operation. *)
Run_InPlace(o, held) ==
    /\ opRuns' = [opRuns EXCEPT ![o] = @ + 1]
    /\ functors' = Append(functors, o)
    /\ functor_' = held

(* OperationWithFunctor::Run, when the functors are where held says: the   *)
(* functor moves to a local variable and executes there.                   *)
Run(o, held) ==
    /\ opRuns' = [opRuns EXCEPT ![o] = @ + 1]
    /\ functors' = Append(functors, o)
    /\ functor_' = [held EXCEPT ![o] = "local"]

Wait(held) == functor_' = held /\ UNCHANGED <<opRuns, functors>>

(* ChainOperation if it started an operation whenever no functor is        *)
(* executing, instead of when the chain is empty.                          *)
ChainOperation_IdleStack(o) ==
    /\ callback[o] = "none"
    /\ callback' = [callback EXCEPT ![o] = "pending"]
    /\ chained_operations_' = Append(chained_operations_, o)
    /\ order' = Append(order, o)
    /\ LET held == [functor_ EXCEPT ![o] = "member"] IN
       IF functors = <<>> THEN Run(o, held) ELSE Wait(held)

(* ChainOperation if it read the chain's size before the push. *)
ChainOperation_SizeBeforePush(o) ==
    /\ callback[o] = "none"
    /\ callback' = [callback EXCEPT ![o] = "pending"]
    /\ chained_operations_' = Append(chained_operations_, o)
    /\ order' = Append(order, o)
    /\ LET held == [functor_ EXCEPT ![o] = "member"] IN
       IF Len(chained_operations_) = 1 THEN Run(o, held) ELSE Wait(held)

(* ChainOperation, from a task of the sequence or from within a functor:   *)
(* the functor is moved into a new operation.                              *)
ChainOperation(o) ==
    /\ callback[o] = "none"
    /\ callback' = [callback EXCEPT ![o] = "pending"]
    /\ chained_operations_' = Append(chained_operations_, o)
    /\ order' = Append(order, o)
    /\ LET held == [functor_ EXCEPT ![o] = "member"] IN
       IF Len(chained_operations_') = 1 THEN Run(o, held) ELSE Wait(held)

(* The callback of an operation that was started is invoked, by its        *)
(* functor or by a later task: the operation is deleted, with its members, *)
(* and the next one starts inside the callback.                            *)
OnOperationComplete(o) ==
    /\ callback[o] = "pending" /\ opRuns[o] > 0
    /\ callback' = [callback EXCEPT ![o] = "invoked"]
    /\ chained_operations_' = Tail(chained_operations_)
    /\ LET held == [functor_ EXCEPT ![o] = IF @ = "member" THEN "destroyed" ELSE @] IN
       IF chained_operations_' # <<>> THEN Run(Head(chained_operations_'), held) ELSE Wait(held)
    /\ UNCHANGED order

(* The innermost functor returns, Run's local variable goes with it, and   *)
(* what called Run goes on.                                                *)
FunctorReturns ==
    /\ functors # <<>>
    /\ functor_' = [functor_ EXCEPT ![functors[Len(functors)]] =
                        IF @ = "local" THEN "destroyed" ELSE @]
    /\ functors' = SubSeq(functors, 1, Len(functors) - 1)
    /\ UNCHANGED <<chained_operations_, opRuns, callback, order>>

ChainInit ==
    /\ chained_operations_ = <<>>
    /\ opRuns = [o \in Op |-> 0]
    /\ callback = [o \in Op |-> "none"]
    /\ functor_ = [o \in Op |-> "none"]
    /\ functors = <<>>
    /\ order = <<>>

ChainNext == FunctorReturns \/ \E o \in Op : ChainOperation(o) \/ OnOperationComplete(o)

ChainSpec == ChainInit /\ [][ChainNext]_chainVars

-----------------------------------------------------------------------------
Started == {o \in Op : opRuns[o] > 0 /\ callback[o] = "pending"}

(* However completions and chaining nest, the chain's front is started and *)
(* not complete, and nothing behind it is started: at most one operation   *)
(* runs at a time, once, an operation that finds the chain empty starts    *)
(* inside ChainOperation, and operations start in the order they were      *)
(* chained.                                                                *)
OnlyFrontRuns ==
    /\ Started = IF chained_operations_ = <<>> THEN {} ELSE {Head(chained_operations_)}
    /\ \A o \in Op : opRuns[o] <= 1
    /\ \A i, j \in DOMAIN order : i < j /\ opRuns[order[j]] > 0 => callback[order[i]] = "invoked"

Executing == {functors[i] : i \in DOMAIN functors}

(* A functor lives until it has returned, and no longer: Run's move to a   *)
(* local variable keeps it while it executes, though completing it         *)
(* synchronously deletes the operation, and an operation that completes    *)
(* later does not hold on to what the functor captured.                    *)
FunctorOutlivesRun ==
    {o \in Op : functor_[o] = "destroyed"} = {o \in Op : opRuns[o] > 0} \ Executing

(* Every operation that is chained is executed and completes. *)
EveryOperationCompletes ==
    \A o \in Op : callback[o] = "pending" ~> callback[o] = "invoked"
=============================================================================
