-------------------------- MODULE ReentrancyProofs --------------------------
(***************************************************************************)
(* Components whose callbacks may call back into them before they return:  *)
(* the callback lists of base, for any bound on callbacks and any depth of *)
(* nested notifications, and OperationsChain, for any set of operations.   *)
(***************************************************************************)
EXTENDS CallbackList, OperationsChain, WellFoundedInduction, TLAPS

(***************************************************************************)
(* CallbackList.                                                           *)
(***************************************************************************)

(* A call of Notify on the stack. *)
Frame == [it : Nat, todo : SUBSET Nat, was : BOOLEAN]

(* What a call of Notify on the stack, the i-th, knows of the list. *)
FrameOK(f, i) ==
    /\ f.it \in callbacks_ \cup {End}
    /\ f.todo \subseteq 1..lastAdded
    /\ \A c \in f.todo \cap nonNull : c >= f.it
    /\ f.was <=> i > 1

(* Callbacks are numbered in the order of their addition. *)
NumbersOK ==
    /\ lastAdded \in 0..MaxCallbacks
    /\ callbacks_ \subseteq 1..lastAdded /\ nonNull \subseteq callbacks_
    /\ subscriptions \subseteq 1..lastAdded

(* Every call of Notify on the stack. *)
FramesOK ==
    /\ notifications \in Seq(Frame)
    /\ \A i \in 1..Len(notifications) : FrameOK(notifications[i], i)
    /\ once => Len(notifications) <= 1

(* Null callbacks are left in the list only while it is iterated, and it   *)
(* is iterated only while it lives.                                        *)
StagesOK ==
    /\ once \in BOOLEAN /\ listAlive \in BOOLEAN /\ iterating_ \in BOOLEAN
    /\ iterating_ <=> notifications # <<>>
    /\ listAlive \/ (notifications = <<>> /\ callbacks_ = {})
    /\ notifications = <<>> => callbacks_ = nonNull

(* The callback of a subscription is in the list, and not null, unless it  *)
(* has been run as a OnceCallback.                                         *)
SubscriptionsOK ==
    /\ listAlive => subscriptions \subseteq callbacks_ \cup null_callbacks_
    /\ subscriptions \cap callbacks_ \subseteq nonNull

(* The inductive invariant. *)
CallbackInv == NumbersOK /\ FramesOK /\ StagesOK /\ SubscriptionsOK

-----------------------------------------------------------------------------
(* A nonempty set of natural numbers has a least one. *)
LEMMA LeastOfNaturals ==
  ASSUME NEW T \in SUBSET Nat, T # {}
  PROVE  Min(T) \in T /\ \A n \in T : Min(T) <= n
<1>1. \E m \in T : \A n \in T : m <= n
  <2>1. IsWellFoundedOn(OpToRel(<, Nat), Nat)
    BY Zenon, NatLessThanWellFounded
  <2>2. PICK x \in T : \A y \in T : <<y, x>> \notin OpToRel(<, Nat)
    BY Zenon, <2>1, WFMin
  <2>3. \A y \in T : <<y, x>> \in OpToRel(<, Nat) <=> y < x
    BY DEF OpToRel
  <2>4. \A y \in T : x \in Nat /\ y \in Nat /\ ~ (y < x)
    BY Zenon, <2>2, <2>3
  <2> QED BY <2>4
<1> QED BY Zenon, <1>1 DEF Min

(* The position that next_valid finds, and the one after a callback. *)
LEMMA Positions ==
  ASSUME CallbackInv, NEW it \in Nat
  PROVE  /\ next_valid(it) \in {c \in nonNull : c >= it} \cup {End}
         /\ \A c \in nonNull : c >= it => c >= next_valid(it)
         /\ Past(it) \in {c \in callbacks_ : c > it} \cup {End}
         /\ \A c \in callbacks_ : c > it => c >= Past(it)
<1>1. End \in Nat /\ callbacks_ \subseteq Nat /\ nonNull \subseteq callbacks_
  BY CallbackListAssumption DEF CallbackInv, NumbersOK, End
<1>2. PICK T : T = {c \in callbacks_ \cap nonNull : c >= it} \cup {End}
  BY Zenon
<1>3. T \in SUBSET Nat /\ T # {}
  BY Zenon, <1>1, <1>2
<1>4. Min(T) \in T /\ \A n \in T : Min(T) <= n
  BY <1>3, LeastOfNaturals
<1>5. next_valid(it) = Min(T)
  BY <1>2 DEF next_valid
<1>6. PICK U : U = {c \in callbacks_ : c > it} \cup {End}
  BY Zenon
<1>7. U \in SUBSET Nat /\ U # {}
  BY Zenon, <1>1, <1>6
<1>8. Min(U) \in U /\ \A n \in U : Min(U) <= n
  BY <1>7, LeastOfNaturals
<1>9. Past(it) = Min(U)
  BY <1>6 DEF Past
<1>10. \A c \in nonNull : c >= it => c >= next_valid(it)
  BY <1>1, <1>2, <1>3, <1>4, <1>5
<1>11. \A c \in callbacks_ : c > it => c >= Past(it)
  BY <1>1, <1>6, <1>7, <1>8, <1>9
<1> QED BY <1>1, <1>2, <1>4, <1>5, <1>6, <1>8, <1>9, <1>10, <1>11

(* The numbers up to n are natural numbers. *)
LEMMA UpToAreNaturals ==
  ASSUME NEW n \in Nat, NEW T, T \subseteq 1..n
  PROVE  T \in SUBSET Nat
  OBVIOUS

(* The loop of Notify, from the position of an iterator to the next        *)
(* callback or to the end, keeps the invariant.                            *)
LEMMA LoopKeeps ==
  ASSUME CallbackInv, listAlive,
         NEW it \in Nat, NEW outer \in Seq(Frame), NEW todo \in SUBSET (1..lastAdded),
         NEW was \in BOOLEAN,
         \A i \in 1..Len(outer) : FrameOK(outer[i], i),
         was <=> outer # <<>>, once => outer = <<>>,
         \A c \in todo \cap nonNull : c >= it,
         NotifyLoop(it, outer, todo, was)
  PROVE  CallbackInv'
<1> USE CallbackListAssumption
<1>1. UNCHANGED <<once, subscriptions, lastAdded>>
  BY DEF NotifyLoop
<1>2. PICK v : v = next_valid(it)
  OBVIOUS
<1>3. CASE v = End
  <2>1. NotifyEnd(outer, was)
    BY <1>2, <1>3 DEF NotifyLoop
  <2>2. CASE was \/ (callbacks_ = nonNull /\ ~ once)
    <3>1. UNCHANGED <<listAlive, callbacks_, nonNull, null_callbacks_>> /\ notifications' = outer /\ iterating_' = was
      BY Zenon, <2>1, <2>2 DEF NotifyEnd
    <3>2. \A i \in 1..Len(outer) : FrameOK(outer[i], i)'
      BY <1>1, <3>1 DEF FrameOK, End
    <3>3. once => Len(outer) <= 1
      OBVIOUS
    <3>4. NumbersOK' /\ SubscriptionsOK'
      BY <1>1, <3>1 DEF CallbackInv, NumbersOK, SubscriptionsOK
    <3>5. FramesOK'
      BY <1>1, <3>1, <3>2, <3>3 DEF FramesOK
    <3>6. StagesOK'
      BY <1>1, <2>2, <3>1 DEF CallbackInv, StagesOK
    <3> QED BY <3>4, <3>5, <3>6 DEF CallbackInv
  <2>3. CASE ~ (was \/ (callbacks_ = nonNull /\ ~ once))
    <3>1. notifications' = outer /\ outer = <<>> /\ iterating_' = FALSE /\ RemovedTo(callbacks_ \cap nonNull)
      BY <2>1, <2>3 DEF NotifyEnd
    <3>2. callbacks_' = nonNull' /\ nonNull' \subseteq nonNull /\ listAlive' \in BOOLEAN
      BY Zenon, <3>1 DEF RemovedTo, CallbackInv, NumbersOK, StagesOK
    <3>3. listAlive' => callbacks_' = nonNull /\ null_callbacks_' = null_callbacks_
      BY Zenon, <3>1 DEF RemovedTo, CallbackInv, NumbersOK
    <3>4. ~ listAlive' => callbacks_' = {}
      BY Zenon, <3>1 DEF RemovedTo
    <3>5. NumbersOK'
      BY <1>1, <3>2 DEF CallbackInv, NumbersOK
    <3>6. FramesOK'
      BY <3>1 DEF FramesOK
    <3>7. StagesOK'
      BY Zenon, <1>1, <3>1, <3>2, <3>4 DEF CallbackInv, StagesOK
    <3>8. SubscriptionsOK'
      BY <1>1, <3>2, <3>3 DEF CallbackInv, NumbersOK, SubscriptionsOK
    <3> QED BY <3>5, <3>6, <3>7, <3>8 DEF CallbackInv
  <2> QED BY <2>2, <2>3
<1>4. CASE v # End
  <2>1. RunCallback(v, outer, todo, was) /\ iterating_' = TRUE /\ listAlive' = listAlive
    BY <1>2, <1>4 DEF NotifyLoop
  <2>2. v \in nonNull /\ v >= it /\ v \in Nat /\ \A c \in nonNull : c >= it => c >= v
    <3>1. /\ v \in {c \in nonNull : c >= it} \cup {End}
          /\ \A c \in nonNull : c >= it => c >= v
      BY <1>2, Positions
    <3> QED BY <1>4, <3>1 DEF CallbackInv, NumbersOK
  <2>3. PICK w : w = Past(v)
    OBVIOUS
  <2>4. w \in {c \in callbacks_ : c > v} \cup {End} /\ \A c \in callbacks_ : c > v => c >= w
    BY <2>2, <2>3, Positions
  <2>5. w \in Nat
    BY <2>4 DEF CallbackInv, NumbersOK, End
  <2>6. PICK f : f = [it |-> w, todo |-> todo \ {v}, was |-> was]
    BY Zenon
  <2>7. f \in Frame /\ f.it = w /\ f.todo = todo \ {v} /\ f.was = was
    <3>1. lastAdded \in Nat
      BY DEF CallbackInv, NumbersOK
    <3>2. todo \ {v} \in SUBSET Nat
      BY <3>1, UpToAreNaturals, Zenon
    <3> QED BY <2>5, <2>6, <3>2 DEF Frame
  <2>8. notifications' = Append(outer, f) /\ Splice(v)
    BY <2>1, <2>3, <2>6 DEF RunCallback
  <2>9. /\ callbacks_' = IF once THEN callbacks_ \ {v} ELSE callbacks_
        /\ nonNull' = IF once THEN nonNull \ {v} ELSE nonNull
        /\ callbacks_ \cup null_callbacks_ = callbacks_' \cup null_callbacks_'
    BY <2>2, <2>8 DEF Splice, CallbackInv, NumbersOK
  <2>10. /\ notifications' \in Seq(Frame) /\ Len(notifications') = Len(outer) + 1
         /\ notifications' # <<>>
         /\ notifications'[Len(outer) + 1] = f
         /\ \A i \in 1..Len(outer) : notifications'[i] = outer[i]
    BY <2>7, <2>8
  <2>11. FrameOK(f, Len(outer) + 1)'
    <3>1. w \in callbacks_' \cup {End}
      BY <2>2, <2>4, <2>9 DEF CallbackInv, NumbersOK
    <3>2. \A c \in (todo \ {v}) \cap nonNull' : c >= w
      <4> SUFFICES ASSUME NEW c \in (todo \ {v}) \cap nonNull PROVE c >= w
        BY <2>9
      <4>1. c \in Nat /\ c >= v /\ c # v /\ c \in callbacks_
        BY <2>2 DEF CallbackInv, NumbersOK
      <4> QED BY <2>2, <2>4, <4>1
    <3>3. was <=> Len(outer) + 1 > 1
      OBVIOUS
    <3> QED BY Zenon, <1>1, <2>7, <3>1, <3>2, <3>3 DEF FrameOK, End
  <2>12. \A i \in 1..Len(outer) : FrameOK(outer[i], i)'
    <3>1. CASE once
      BY <3>1
    <3>2. CASE ~ once
      BY <1>1, <2>9, <3>2 DEF FrameOK, End
    <3> QED BY <3>1, <3>2
  <2>13. ASSUME NEW i \in 1..(Len(outer) + 1) PROVE FrameOK(notifications[i], i)'
    <3>1. CASE i = Len(outer) + 1
      <4>1. notifications'[i] = f
        BY <2>10, <3>1
      <4> QED BY <2>11, <3>1, <4>1 DEF FrameOK
    <3>2. CASE i \in 1..Len(outer)
      <4>1. notifications'[i] = outer[i]
        BY <2>10, <3>2
      <4>2. FrameOK(outer[i], i)'
        BY <2>12, <3>2
      <4> QED BY <4>1, <4>2 DEF FrameOK
    <3> QED BY <3>1, <3>2
  <2>14. once' => Len(notifications') <= 1
    BY <1>1, <2>10
  <2>15. callbacks_' \subseteq callbacks_ /\ nonNull' \subseteq callbacks_' /\ subscriptions \cap callbacks_' \subseteq nonNull'
    BY Zenon, <2>9 DEF CallbackInv, NumbersOK, SubscriptionsOK
  <2>16. NumbersOK'
    BY <1>1, <2>15 DEF CallbackInv, NumbersOK
  <2>17. FramesOK'
    BY <2>10, <2>13, <2>14 DEF FramesOK
  <2>18. StagesOK'
    BY <1>1, <2>1, <2>10 DEF CallbackInv, StagesOK
  <2>19. SubscriptionsOK'
    BY <1>1, <2>1, <2>9, <2>15 DEF CallbackInv, SubscriptionsOK
  <2> QED BY <2>16, <2>17, <2>18, <2>19 DEF CallbackInv
<1> QED BY <1>3, <1>4

(* Add keeps the invariant. *)
LEMMA AddCallbackKeeps ==
  ASSUME CallbackInv, NEW unsafe \in BOOLEAN, AddCallback(unsafe)
  PROVE  CallbackInv'
<1> USE CallbackListAssumption
<1>1. PICK n : n = lastAdded + 1
  OBVIOUS
<1>2. /\ listAlive /\ n \in 1..MaxCallbacks /\ lastAdded' = n /\ callbacks_' = callbacks_ \cup {n}
      /\ nonNull' = nonNull \cup {n} /\ subscriptions' \subseteq subscriptions \cup {n}
      /\ UNCHANGED <<once, listAlive, null_callbacks_, iterating_, notifications>>
  BY <1>1 DEF AddCallback, CallbackInv, NumbersOK
<1>3. lastAdded \in Nat /\ 1..lastAdded \subseteq 1..n /\ n \in 1..n /\ n \notin 1..lastAdded
  BY <1>1, <1>2 DEF CallbackInv, NumbersOK
<1>4. NumbersOK'
  BY <1>2, <1>3 DEF CallbackInv, NumbersOK
<1>5. FramesOK'
  BY <1>2, <1>3 DEF CallbackInv, FramesOK, FrameOK, End
<1>6. StagesOK'
  BY <1>2 DEF CallbackInv, StagesOK
<1>7. SubscriptionsOK'
  BY <1>2, <1>3 DEF CallbackInv, SubscriptionsOK
<1> QED BY <1>4, <1>5, <1>6, <1>7 DEF CallbackInv

(* Notify keeps the invariant. *)
LEMMA NotifyKeeps ==
  ASSUME CallbackInv, ~ OnceReentrant, Notify
  PROVE  CallbackInv'
<1> USE CallbackListAssumption
<1>1. /\ listAlive /\ nonNull # {} /\ NotifyLoop(Min(callbacks_), notifications, nonNull, iterating_)
  BY DEF Notify
<1>2. once => notifications = <<>>
  BY DEF Notify, CallbackInv, FramesOK
<1>3. callbacks_ \in SUBSET Nat /\ callbacks_ # {} /\ nonNull \subseteq callbacks_
  <2>1. /\ lastAdded \in Nat /\ callbacks_ \subseteq 1..lastAdded
        /\ nonNull \subseteq callbacks_
    BY DEF CallbackInv, NumbersOK
  <2>2. callbacks_ \in SUBSET Nat
    BY <2>1, UpToAreNaturals, Zenon
  <2> QED BY <1>1, <2>1, <2>2, Zenon
<1>4. Min(callbacks_) \in Nat /\ \A c \in nonNull : c >= Min(callbacks_)
  BY Zenon, <1>3, LeastOfNaturals
<1>5. nonNull \in SUBSET (1..lastAdded)
  BY DEF CallbackInv, NumbersOK
<1>6. /\ notifications \in Seq(Frame) /\ \A i \in 1..Len(notifications) : FrameOK(notifications[i], i)
      /\ iterating_ \in BOOLEAN /\ (iterating_ <=> notifications # <<>>)
  BY DEF CallbackInv, FramesOK, StagesOK
<1> QED BY <1>1, <1>2, <1>4, <1>5, <1>6, LoopKeeps

(* A callback that returns keeps the invariant. *)
LEMMA CallbackReturnsKeeps ==
  ASSUME CallbackInv, CallbackReturns
  PROVE  CallbackInv'
<1>1. PICK n : n = Len(notifications)
  BY Zenon
<1>2. notifications \in Seq(Frame) /\ notifications # <<>> /\ n \in Nat \ {0} /\ listAlive
  BY <1>1 DEF CallbackInv, FramesOK, StagesOK, CallbackReturns
<1>3. PICK top : top = notifications[n]
  OBVIOUS
<1>4. PICK outer : outer = SubSeq(notifications, 1, Len(notifications) - 1)
  BY Zenon
<1>5. /\ outer \in Seq(Frame) /\ Len(outer) = n - 1
      /\ \A i \in 1..(n - 1) : outer[i] = notifications[i]
  BY <1>1, <1>2, <1>4
<1>6. NotifyLoop(top.it, outer, top.todo, top.was)
  BY <1>1, <1>3, <1>4 DEF CallbackReturns
<1>7. top \in Frame /\ FrameOK(top, n)
  BY <1>1, <1>2, <1>3 DEF CallbackInv, FramesOK
<1>8. top.it \in Nat /\ top.was \in BOOLEAN /\ top.todo \in SUBSET (1..lastAdded)
  BY <1>7 DEF Frame, FrameOK
<1>9. \A i \in 1..Len(outer) : FrameOK(outer[i], i)
  BY <1>1, <1>2, <1>5 DEF CallbackInv, FramesOK
<1>10. top.was <=> outer # <<>>
  BY <1>2, <1>5, <1>7 DEF FrameOK
<1>11. once => outer = <<>>
  BY <1>1, <1>2, <1>5 DEF CallbackInv, FramesOK
<1>12. \A c \in top.todo \cap nonNull : c >= top.it
  BY <1>7 DEF FrameOK
<1> QED BY <1>2, <1>5, <1>6, <1>8, <1>9, <1>10, <1>11, <1>12, LoopKeeps

(* CancelCallback, which resets a callback in place while the list is      *)
(* iterated, keeps the invariant.                                          *)
LEMMA CancelCallbackKeeps ==
  ASSUME CallbackInv, NEW c \in subscriptions, CancelCallback(c)
  PROVE  CallbackInv'
<1>1. subscriptions' = subscriptions \ {c} /\ UNCHANGED <<once, iterating_, notifications, lastAdded>>
  BY DEF CancelCallback
<1>2. CASE iterating_ \/ ~ listAlive \/ (once /\ c \notin nonNull)
  <2>1. /\ listAlive' = listAlive /\ callbacks_' = callbacks_
        /\ nonNull' \in {nonNull, nonNull \ {c}} /\ null_callbacks_' \in {null_callbacks_, null_callbacks_ \ {c}}
        /\ nonNull' = nonNull \/ iterating_
    BY <1>2 DEF CancelCallback
  <2>2. NumbersOK' /\ SubscriptionsOK'
    BY <1>1, <2>1 DEF CallbackInv, NumbersOK, SubscriptionsOK
  <2>3. FramesOK'
    BY <1>1, <2>1 DEF CallbackInv, FramesOK, FrameOK, End
  <2>4. StagesOK'
    BY <1>1, <2>1 DEF CallbackInv, StagesOK
  <2> QED BY <2>2, <2>3, <2>4 DEF CallbackInv
<1>3. CASE ~ (iterating_ \/ ~ listAlive \/ (once /\ c \notin nonNull))
  <2>1. RemovedTo(callbacks_ \ {c}) /\ notifications = <<>> /\ callbacks_ = nonNull
    BY <1>3 DEF CancelCallback, CallbackInv, StagesOK
  <2>2. callbacks_' = nonNull' /\ nonNull' \subseteq nonNull /\ listAlive' \in BOOLEAN
    BY Zenon, <1>3, <2>1 DEF RemovedTo, CallbackInv, StagesOK
  <2>3. listAlive' => callbacks_' = callbacks_ \ {c} /\ null_callbacks_' = null_callbacks_
    BY <1>3, <2>1 DEF RemovedTo
  <2>4. ~ listAlive' => callbacks_' = {}
    BY <1>3, <2>1 DEF RemovedTo
  <2>5. NumbersOK'
    BY <1>1, <2>2 DEF CallbackInv, NumbersOK
  <2>6. FramesOK'
    BY <1>1, <2>1 DEF FramesOK
  <2>7. StagesOK'
    BY <1>1, <2>1, <2>2, <2>4 DEF CallbackInv, StagesOK
  <2>8. SubscriptionsOK'
    BY <1>1, <1>3, <2>2, <2>3 DEF CallbackInv, SubscriptionsOK
  <2> QED BY <2>5, <2>6, <2>7, <2>8 DEF CallbackInv
<1> QED BY <1>2, <1>3

(* Every step keeps the invariant, *)
LEMMA CallbackInvKept ==
  ASSUME ~ OnceReentrant, CallbackInv, [CallbackNext]_callbackVars
  PROVE  CallbackInv'
<1>1. CASE UNCHANGED callbackVars
  <2>1. NumbersOK' /\ SubscriptionsOK' /\ StagesOK'
    BY <1>1 DEF callbackVars, CallbackInv, NumbersOK, SubscriptionsOK, StagesOK
  <2>2. FramesOK'
    BY <1>1 DEF callbackVars, CallbackInv, FramesOK, FrameOK, End
  <2> QED BY <2>1, <2>2 DEF CallbackInv
<1>2. CASE DestroyCallbackList
  <2>1. NumbersOK' /\ SubscriptionsOK'
    BY <1>2 DEF DestroyCallbackList, CallbackInv, NumbersOK, SubscriptionsOK
  <2>2. StagesOK' /\ notifications' = <<>>
    BY Zenon, <1>2 DEF DestroyCallbackList, CallbackInv, StagesOK
  <2>3. FramesOK'
    BY <2>2 DEF FramesOK
  <2> QED BY <2>1, <2>2, <2>3 DEF CallbackInv
<1> QED BY <1>1, <1>2, AddCallbackKeeps, NotifyKeeps, CallbackReturnsKeeps, CancelCallbackKeeps
        DEF CallbackNext

(* which holds initially. *)
LEMMA CallbackInvStarts == ASSUME CallbackInit PROVE CallbackInv
<1>1. MaxCallbacks \in Nat
  BY CallbackListAssumption
<1>2. /\ once \in BOOLEAN /\ listAlive = TRUE /\ iterating_ = FALSE
      /\ callbacks_ = {} /\ nonNull = {} /\ notifications = <<>> /\ subscriptions = {}
      /\ lastAdded = 0
  BY DEF CallbackInit
<1>3. NumbersOK
  <2>1. lastAdded \in 0..MaxCallbacks
    BY <1>1, <1>2
  <2> QED BY <1>2, <2>1, Zenon DEF NumbersOK
<1>4. SubscriptionsOK
  BY <1>2, Zenon DEF SubscriptionsOK
<1>5. FramesOK
  <2>1. <<>> \in Seq(Frame) /\ Len(<<>>) = 0 /\ 1..0 = {} /\ 0 <= 1
    OBVIOUS
  <2> QED BY <1>2, <2>1, Zenon DEF FramesOK
<1>6. StagesOK
  BY <1>2, Zenon DEF StagesOK
<1> QED BY <1>3, <1>4, <1>5, <1>6 DEF CallbackInv

(* No iterator of a running Notify is invalidated, and CancelCallback      *)
(* finds what it cancels, however callbacks add, cancel and notify again;  *)
(* a list of OnceCallbacks must not be notified from its callbacks.        *)
THEOREM CallbackIteratorsStayValid ==
  ASSUME ~ OnceReentrant
  PROVE  CallbackSpec => []IteratorsNeverInvalidated
<1>1. CallbackInv => IteratorsNeverInvalidated
  BY DEF CallbackInv, FramesOK, FrameOK, SubscriptionsOK, IteratorsNeverInvalidated
<1>2. CallbackInv /\ [CallbackNext]_callbackVars => CallbackInv'
  BY CallbackInvKept
<1> QED BY <1>1, <1>2, CallbackInvStarts, PTL DEF CallbackSpec

(* Notify runs every callback that was there when it began and was not     *)
(* cancelled, under the same condition.                                    *)
THEOREM EveryCallbackNotified ==
  ASSUME ~ OnceReentrant
  PROVE  CallbackSpec => []NoCallbackMissed
<1>1. CallbackInv => NoCallbackMissed
  BY DEF CallbackInv, NumbersOK, FramesOK, FrameOK, StagesOK, NoCallbackMissed
<1>2. CallbackInv /\ [CallbackNext]_callbackVars => CallbackInv'
  BY CallbackInvKept
<1> QED BY <1>1, <1>2, CallbackInvStarts, PTL DEF CallbackSpec

-----------------------------------------------------------------------------
(***************************************************************************)
(* OperationsChain.                                                        *)
(***************************************************************************)

(* How many operations have completed. *)
Completed == Len(order) - Len(chained_operations_)

(* The chain is the end of the order in which operations were chained.     *)
(* What is before it has completed; its front, and nothing else of it, has *)
(* been started.                                                           *)
ChainTypeOK ==
    /\ chained_operations_ \in Seq(Op) /\ order \in Seq(Op)
    /\ opRuns \in [Op -> Nat]
    /\ callback \in [Op -> {"none", "pending", "invoked"}]
    /\ Len(chained_operations_) <= Len(order)

(* The chain is what is left of the order. *)
ChainIsRest ==
    \A i \in 1..Len(chained_operations_) : chained_operations_[i] = order[Completed + i]

(* How far each operation is. *)
ProgressInOrder ==
    /\ \A i \in 1..Len(order) :
          /\ callback[order[i]] = IF i <= Completed THEN "invoked" ELSE "pending"
          /\ opRuns[order[i]] = IF i <= Completed + 1 THEN 1 ELSE 0
    /\ \A i, j \in 1..Len(order) : order[i] = order[j] => i = j
    /\ \A o \in Op : \/ callback[o] = "none" /\ opRuns[o] = 0
                     \/ \E i \in 1..Len(order) : o = order[i]

(* The inductive invariant. *)
ChainInv == ChainTypeOK /\ ChainIsRest /\ ProgressInOrder

(* ChainOperation keeps the invariant. *)
LEMMA ChainOperationKeeps ==
  ASSUME ChainInv, NEW o \in Op, ChainOperation(o)
  PROVE  ChainInv'
<1> DEFINE n == Len(order)
           m == Len(chained_operations_)
<1>1. /\ order \in Seq(Op) /\ chained_operations_ \in Seq(Op) /\ n \in Nat /\ m \in Nat /\ m <= n
      /\ opRuns \in [Op -> Nat] /\ callback \in [Op -> {"none", "pending", "invoked"}]
  BY DEF ChainInv, ChainTypeOK
<1>2. \A i \in 1..n : order[i] # o /\ order[i] \in Op
  <2> SUFFICES ASSUME NEW i \in 1..n PROVE order[i] # o /\ order[i] \in Op
    OBVIOUS
  <2>1. callback[order[i]] = IF i <= Completed THEN "invoked" ELSE "pending"
    BY DEF ChainInv, ProgressInOrder
  <2>2. callback[o] = "none"
    BY DEF ChainOperation
  <2> QED BY <1>1, <2>1, <2>2
<1>3. opRuns[o] = 0
  BY <1>2 DEF ChainInv, ProgressInOrder
<1>4. /\ order' \in Seq(Op) /\ Len(order') = n + 1 /\ order'[n + 1] = o
      /\ \A i \in 1..n : order'[i] = order[i]
  BY <1>1 DEF ChainOperation
<1>5. /\ chained_operations_' \in Seq(Op) /\ Len(chained_operations_') = m + 1
      /\ chained_operations_'[m + 1] = o
      /\ \A i \in 1..m : chained_operations_'[i] = chained_operations_[i]
  BY <1>1 DEF ChainOperation
<1>6. Completed = n - m /\ Completed' = n - m /\ n - m \in Nat
  BY <1>1, <1>4, <1>5 DEF Completed
<1>7. callback' = [callback EXCEPT ![o] = "pending"]
  BY DEF ChainOperation
<1>8. opRuns' = [opRuns EXCEPT ![o] = IF m = 0 THEN 1 ELSE 0]
  <2>1. m + 1 = 1 <=> m = 0
    BY <1>1
  <2>2. IF m + 1 = 1 THEN opRuns' = [opRuns EXCEPT ![o] = @ + 1] ELSE opRuns' = opRuns
    BY <1>5 DEF ChainOperation, Run, Wait
  <2> QED BY <1>1, <1>3, <2>1, <2>2
<1>9. ChainTypeOK'
  <2>1. m + 1 <= n + 1
    BY <1>1
  <2> QED BY <1>1, <1>4, <1>5, <1>7, <1>8, <2>1 DEF ChainTypeOK
<1>10. ChainIsRest'
  <2> SUFFICES ASSUME NEW i \in 1..(m + 1)
               PROVE  chained_operations_'[i] = order'[(n - m) + i]
    BY <1>5, <1>6 DEF ChainIsRest
  <2>1. CASE i = m + 1
    <3>1. (n - m) + i = n + 1
      BY <1>1, <2>1
    <3> QED BY <1>4, <1>5, <2>1, <3>1
  <2>2. CASE i # m + 1
    <3>1. i \in 1..m /\ (n - m) + i \in 1..n
      BY <1>1, <2>2
    <3> QED BY <1>4, <1>5, <1>6, <3>1 DEF ChainInv, ChainIsRest
  <2> QED BY <2>1, <2>2
<1>11. ProgressInOrder'
  <2>1. ASSUME NEW i \in 1..(n + 1)
        PROVE  /\ callback'[order'[i]] = IF i <= n - m THEN "invoked" ELSE "pending"
               /\ opRuns'[order'[i]] = IF i <= (n - m) + 1 THEN 1 ELSE 0
    <3>1. CASE i = n + 1
      <4>1. ~ (i <= n - m) /\ (i <= (n - m) + 1 <=> m = 0)
        BY <1>1, <3>1
      <4> QED BY <1>1, <1>4, <1>7, <1>8, <3>1, <4>1
    <3>2. CASE i # n + 1
      <4>1. i \in 1..n
        BY <1>1, <3>2
      <4>2. callback'[order'[i]] = callback[order[i]] /\ opRuns'[order'[i]] = opRuns[order[i]]
        BY Zenon, <1>1, <1>2, <1>4, <1>7, <1>8, <4>1
      <4> QED BY <1>6, <4>1, <4>2 DEF ChainInv, ProgressInOrder
    <3> QED BY <3>1, <3>2
  <2>2. ASSUME NEW i \in 1..(n + 1), NEW j \in 1..(n + 1), order'[i] = order'[j]
        PROVE  i = j
    <3>1. i \in 1..n \/ i = n + 1
      BY <1>1
    <3>2. j \in 1..n \/ j = n + 1
      BY <1>1
    <3> QED BY <1>2, <1>4, <2>2, <3>1, <3>2 DEF ChainInv, ProgressInOrder
  <2>3. ASSUME NEW p \in Op
        PROVE  \/ callback'[p] = "none" /\ opRuns'[p] = 0
               \/ \E i \in 1..(n + 1) : p = order'[i]
    <3>1. CASE p = o
      <4>1. n + 1 \in 1..(n + 1)
        BY <1>1
      <4> QED BY <1>4, <3>1, <4>1
    <3>2. CASE p # o
      <4>1. callback'[p] = callback[p] /\ opRuns'[p] = opRuns[p]
        BY <1>1, <1>7, <1>8, <3>2
      <4>2. 1..n \subseteq 1..(n + 1)
        BY <1>1
      <4> QED BY <1>4, <4>1, <4>2 DEF ChainInv, ProgressInOrder
    <3> QED BY <3>1, <3>2
  <2> QED BY <1>4, <1>6, <2>1, <2>2, <2>3 DEF ProgressInOrder
<1> QED BY <1>9, <1>10, <1>11 DEF ChainInv

(* Only the front of the chain can complete. *)
LEMMA FrontCompletes ==
  ASSUME ChainInv, NEW o \in Op, callback[o] = "pending", opRuns[o] > 0
  PROVE  /\ Len(chained_operations_) > 0 /\ o = Head(chained_operations_)
         /\ Completed + 1 \in 1..Len(order) /\ o = order[Completed + 1]
<1> DEFINE n == Len(order)
           m == Len(chained_operations_)
<1>1. /\ order \in Seq(Op) /\ chained_operations_ \in Seq(Op) /\ n \in Nat /\ m \in Nat /\ m <= n
      /\ Completed = n - m
  BY DEF ChainInv, ChainTypeOK, Completed
<1>2. PICK i \in 1..n : o = order[i]
  BY DEF ChainInv, ProgressInOrder
<1>3. ~ (i <= Completed) /\ i <= Completed + 1
  BY <1>2 DEF ChainInv, ProgressInOrder
<1>4. i = Completed + 1 /\ m > 0 /\ 1 \in 1..m
  BY <1>1, <1>3
<1>5. chained_operations_[1] = order[Completed + 1]
  BY <1>4 DEF ChainInv, ChainIsRest
<1> QED BY <1>1, <1>2, <1>4, <1>5

(* OnOperationComplete, which starts the next operation, keeps the         *)
(* invariant.                                                              *)
LEMMA OnOperationCompleteKeeps ==
  ASSUME ChainInv, NEW o \in Op, OnOperationComplete(o)
  PROVE  ChainInv'
<1> DEFINE n == Len(order)
           m == Len(chained_operations_)
           c == Completed
<1>1. /\ order \in Seq(Op) /\ chained_operations_ \in Seq(Op) /\ n \in Nat /\ m \in Nat /\ m <= n
      /\ opRuns \in [Op -> Nat] /\ callback \in [Op -> {"none", "pending", "invoked"}]
      /\ c = n - m
  BY DEF ChainInv, ChainTypeOK, Completed
<1>2. m > 0 /\ c + 1 \in 1..n /\ o = order[c + 1]
  BY FrontCompletes DEF OnOperationComplete
<1>3. /\ chained_operations_' \in Seq(Op) /\ Len(chained_operations_') = m - 1
      /\ \A i \in 1..(m - 1) : chained_operations_'[i] = chained_operations_[i + 1]
  <2>1. chained_operations_ # <<>>
    BY <1>1, <1>2
  <2>2. chained_operations_' = Tail(chained_operations_)
    BY DEF OnOperationComplete
  <2> QED BY <1>1, <2>1, <2>2
<1>4. order' = order /\ callback' = [callback EXCEPT ![o] = "invoked"]
  BY DEF OnOperationComplete
<1>5. Completed' = c + 1 /\ c \in Nat
  BY <1>1, <1>2, <1>3, <1>4 DEF Completed
<1>6. IF m > 1 THEN /\ c + 2 \in 1..n
                    /\ opRuns' = [opRuns EXCEPT ![order[c + 2]] = 1]
      ELSE opRuns' = opRuns
  <2>1. CASE m > 1
    <3>1. 1 \in 1..(m - 1) /\ 2 \in 1..m /\ c + 2 \in 1..n /\ chained_operations_' # <<>>
      BY <1>1, <1>3, <2>1
    <3>2. chained_operations_'[1] = chained_operations_[2] /\ chained_operations_[2] = order[c + 2]
      BY <1>3, <3>1 DEF ChainInv, ChainIsRest
    <3>3. opRuns' = [opRuns EXCEPT ![Head(chained_operations_')] = @ + 1]
      BY <3>1 DEF OnOperationComplete, Run
    <3>4. Head(chained_operations_') = order[c + 2]
      BY <1>3, <3>1, <3>2
    <3>5. opRuns[order[c + 2]] = 0
      <4>1. ~ (c + 2 <= c + 1)
        BY <1>5
      <4> QED BY <3>1, <4>1 DEF ChainInv, ProgressInOrder
    <3>6. opRuns' = [opRuns EXCEPT ![order[c + 2]] = opRuns[order[c + 2]] + 1]
      BY Zenon, <3>3, <3>4
    <3>7. opRuns[order[c + 2]] + 1 = 1
      BY <3>5
    <3> QED BY Zenon, <2>1, <3>1, <3>6, <3>7
  <2>2. CASE ~ (m > 1)
    <3>1. chained_operations_' = <<>>
      BY <1>1, <1>2, <1>3, <2>2
    <3>2. UNCHANGED opRuns
      BY <3>1 DEF OnOperationComplete, Wait
    <3> QED BY <2>2, <3>2
  <2> QED BY <2>1, <2>2
<1>7. \A i, j \in 1..n : order[i] \in Op /\ (order[i] = order[j] <=> i = j)
  BY <1>1 DEF ChainInv, ProgressInOrder
<1>8. ChainTypeOK'
  <2>1. m - 1 <= n
    BY <1>1
  <2>2. opRuns' \in [Op -> Nat]
    <3>1. CASE m > 1
      <4>1. order[c + 2] \in Op
        BY <1>6, <1>7, <3>1
      <4>2. opRuns' = [opRuns EXCEPT ![order[c + 2]] = 1]
        BY <1>6, <3>1
      <4> QED BY <1>1, <4>1, <4>2
    <3>2. CASE ~ (m > 1)
      BY <1>1, <1>6, <3>2
    <3> QED BY <3>1, <3>2
  <2> QED BY Zenon, <1>1, <1>3, <1>4, <2>1, <2>2 DEF ChainTypeOK
<1>9. ChainIsRest'
  <2> SUFFICES ASSUME NEW i \in 1..(m - 1)
               PROVE  chained_operations_'[i] = order[(c + 1) + i]
    BY <1>3, <1>4, <1>5 DEF ChainIsRest
  <2>1. i + 1 \in 1..m /\ (c + 1) + i = c + (i + 1)
    BY <1>1, <1>5
  <2> QED BY <1>3, <2>1 DEF ChainInv, ChainIsRest
<1>10. ProgressInOrder'
  <2>1. ASSUME NEW i \in 1..n
        PROVE  /\ callback'[order[i]] = IF i <= c + 1 THEN "invoked" ELSE "pending"
               /\ opRuns'[order[i]] = IF i <= (c + 1) + 1 THEN 1 ELSE 0
    <3>1. /\ callback[order[i]] = IF i <= c THEN "invoked" ELSE "pending"
          /\ opRuns[order[i]] = IF i <= c + 1 THEN 1 ELSE 0
      BY DEF ChainInv, ProgressInOrder
    <3>2. callback'[order[i]] = IF i = c + 1 THEN "invoked" ELSE callback[order[i]]
      BY Zenon, <1>1, <1>2, <1>4, <1>7
    <3>3. callback'[order[i]] = IF i <= c + 1 THEN "invoked" ELSE "pending"
      BY <1>5, <3>1, <3>2
    <3>4. opRuns'[order[i]] = IF i <= (c + 1) + 1 THEN 1 ELSE 0
      <4>1. CASE m > 1
        <5>1. opRuns'[order[i]] = IF i = c + 2 THEN 1 ELSE opRuns[order[i]]
          BY Zenon, <1>1, <1>6, <1>7, <4>1
        <5> QED BY <1>5, <3>1, <5>1
      <4>2. CASE ~ (m > 1)
        <5>1. i <= c + 1
          BY <1>1, <1>2, <4>2
        <5> QED BY <1>5, <1>6, <3>1, <4>2, <5>1
      <4> QED BY <4>1, <4>2
    <3> QED BY <3>3, <3>4
  <2>2. ASSUME NEW p \in Op
        PROVE  \/ callback'[p] = "none" /\ opRuns'[p] = 0
               \/ \E i \in 1..n : p = order[i]
    <3>1. CASE \E i \in 1..n : p = order[i]
      BY <3>1
    <3>2. CASE ~ \E i \in 1..n : p = order[i]
      <4>1. callback[p] = "none" /\ opRuns[p] = 0
        BY <3>2 DEF ChainInv, ProgressInOrder
      <4>2. callback'[p] = callback[p] /\ opRuns'[p] = opRuns[p]
        BY Zenon, <1>1, <1>2, <1>4, <1>6, <3>2
      <4> QED BY <4>1, <4>2
    <3> QED BY <3>1, <3>2
  <2> QED BY <1>4, <1>5, <1>7, <2>1, <2>2 DEF ProgressInOrder
<1> QED BY <1>8, <1>9, <1>10 DEF ChainInv

(* The invariant holds always. *)
LEMMA ChainInvHolds == ChainSpec => []ChainInv
<1>1. ChainInit => ChainInv
  <2> SUFFICES ASSUME ChainInit PROVE ChainInv
    OBVIOUS
  <2>1. ChainTypeOK
    BY DEF ChainInit, ChainTypeOK
  <2>2. Len(order) = 0 /\ Len(chained_operations_) = 0 /\ 1..0 = {}
    BY DEF ChainInit
  <2>3. ChainIsRest /\ ProgressInOrder
    BY <2>2 DEF ChainInit, ChainIsRest, ProgressInOrder
  <2> QED BY <2>1, <2>3 DEF ChainInv
<1>2. ChainInv /\ [ChainNext]_chainVars => ChainInv'
  <2> SUFFICES ASSUME ChainInv, [ChainNext]_chainVars PROVE ChainInv'
    OBVIOUS
  <2>1. CASE UNCHANGED <<chained_operations_, opRuns, callback, order>>
    BY <2>1 DEF ChainInv, ChainTypeOK, ChainIsRest, ProgressInOrder, Completed
  <2>2. CASE FunctorReturns \/ UNCHANGED chainVars
    BY <2>1, <2>2 DEF FunctorReturns, chainVars
  <2>3. CASE \E o \in Op : ChainOperation(o) \/ OnOperationComplete(o)
    BY <2>3, ChainOperationKeeps, OnOperationCompleteKeeps
  <2> QED BY <2>2, <2>3 DEF ChainNext
<1> QED BY <1>1, <1>2, PTL DEF ChainSpec

(* The operations of an OperationsChain run one at a time, in the order in *)
(* which they were chained, however often a functor completes or chains    *)
(* operations before it returns, and whatever operations there are.        *)
THEOREM OperationsRunInOrder == ChainSpec => []OnlyFrontRuns
<1>1. ChainInv => OnlyFrontRuns
  <2> SUFFICES ASSUME ChainInv PROVE OnlyFrontRuns
    OBVIOUS
  <2> DEFINE n == Len(order)
             m == Len(chained_operations_)
  <2>1. /\ order \in Seq(Op) /\ chained_operations_ \in Seq(Op) /\ n \in Nat /\ m \in Nat /\ m <= n
        /\ Completed = n - m /\ opRuns \in [Op -> Nat]
    BY DEF ChainInv, ChainTypeOK, Completed
  <2>2. Started = IF chained_operations_ = <<>> THEN {} ELSE {Head(chained_operations_)}
    <3>1. CASE chained_operations_ = <<>>
      BY <3>1, FrontCompletes DEF Started
    <3>2. CASE chained_operations_ # <<>>
      <4>1. Completed + 1 \in 1..n /\ Head(chained_operations_) = order[Completed + 1]
        <5>1. 1 \in 1..m /\ Completed + 1 \in 1..n
          BY <2>1, <3>2
        <5> QED BY <2>1, <5>1 DEF ChainInv, ChainIsRest
      <4>2. ~ (Completed + 1 <= Completed) /\ Completed + 1 <= Completed + 1
        BY <2>1
      <4>3. Head(chained_operations_) \in Started
        <5>1. order[Completed + 1] \in Op
          BY <2>1, <4>1
        <5>2. callback[order[Completed + 1]] = "pending" /\ opRuns[order[Completed + 1]] = 1
          BY <4>1, <4>2 DEF ChainInv, ProgressInOrder
        <5> QED BY <4>1, <5>1, <5>2 DEF Started
      <4>4. \A o \in Started : o = Head(chained_operations_)
        BY FrontCompletes DEF Started
      <4> QED BY <3>2, <4>3, <4>4
    <3> QED BY <3>1, <3>2
  <2>3. \A o \in Op : opRuns[o] <= 1
    <3>1. \A i \in 1..n : opRuns[order[i]] \in {0, 1}
      BY DEF ChainInv, ProgressInOrder
    <3>2. \A o \in Op : opRuns[o] \in {0, 1}
      BY <3>1 DEF ChainInv, ProgressInOrder
    <3>3. ASSUME NEW o \in Op PROVE opRuns[o] <= 1
      <4>1. PICK r \in {0, 1} : r = opRuns[o]
        BY <3>2, Zenon
      <4>2. r <= 1
        OBVIOUS
      <4> QED BY <4>1, <4>2, Zenon
    <3> QED BY <3>3
  <2>4. ASSUME NEW i \in DOMAIN order, NEW j \in DOMAIN order, i < j, opRuns[order[j]] > 0
        PROVE  callback[order[i]] = "invoked"
    <3>1. i \in 1..n /\ j \in 1..n
      BY <2>1
    <3>2. j <= Completed + 1
      BY <2>4, <3>1 DEF ChainInv, ProgressInOrder
    <3>3. i <= Completed
      BY <2>1, <2>4, <3>1, <3>2
    <3> QED BY <3>1, <3>3 DEF ChainInv, ProgressInOrder
  <2> QED BY <2>2, <2>3, <2>4 DEF OnlyFrontRuns
<1> QED BY <1>1, ChainInvHolds, PTL

(* Where functors are: on the stack once each, in a local variable while   *)
(* they execute, and in the operation only until it has been run.          *)
WhereFunctorsAre(held) ==
    /\ held \in [Op -> {"none", "member", "local", "destroyed"}]
    /\ \A o \in Op : held[o] = "local" <=> o \in Executing
    /\ \A o \in Op : held[o] \in {"none", "member"} <=> opRuns[o] = 0

(* The invariant of the functors. *)
FunctorInv ==
    /\ functors \in Seq(Op)
    /\ \A i, j \in 1..Len(functors) : functors[i] = functors[j] => i = j
    /\ WhereFunctorsAre(functor_)

(* Run of an operation that has not been run keeps the invariant. *)
LEMMA RunKeepsFunctors ==
  ASSUME ChainInv, FunctorInv, NEW o \in Op, NEW held, WhereFunctorsAre(held), opRuns[o] = 0, Run(o, held)
  PROVE  FunctorInv'
<1> DEFINE k == Len(functors)
<1>1. functors \in Seq(Op) /\ k \in Nat /\ opRuns \in [Op -> Nat]
  BY DEF FunctorInv, ChainInv, ChainTypeOK
<1>2. /\ functors' \in Seq(Op) /\ Len(functors') = k + 1 /\ functors'[k + 1] = o
      /\ \A i \in 1..k : functors'[i] = functors[i]
  BY <1>1 DEF Run
<1>3. Executing = {functors[i] : i \in 1..k} /\ Executing' = {functors'[i] : i \in 1..(k + 1)}
  <2>1. DOMAIN functors = 1..k /\ DOMAIN functors' = 1..(k + 1)
    BY <1>1, <1>2
  <2> QED BY <2>1, Zenon DEF Executing
<1>4. o \notin Executing
  BY DEF WhereFunctorsAre
<1>5. 1..(k + 1) = 1..k \cup {k + 1}
  BY <1>1
<1>6. Executing' = Executing \cup {o}
  BY <1>2, <1>3, <1>5
<1>7. \A i, j \in 1..(k + 1) : functors'[i] = functors'[j] => i = j
  <2>1. \A i \in 1..k : functors'[i] # o
    BY <1>2, <1>3, <1>4
  <2>2. \A i, j \in 1..k : functors'[i] = functors'[j] => i = j
    BY <1>2 DEF FunctorInv
  <2> QED BY <1>2, <1>5, <2>1, <2>2
<1>8. functor_' = [held EXCEPT ![o] = "local"] /\ opRuns' = [opRuns EXCEPT ![o] = @ + 1]
  BY DEF Run
<1>9. WhereFunctorsAre(functor_)'
  <2>1. functor_' \in [Op -> {"none", "member", "local", "destroyed"}]
    BY <1>8 DEF WhereFunctorsAre
  <2>2. ASSUME NEW p \in Op
        PROVE  /\ functor_'[p] = "local" <=> p \in Executing'
               /\ functor_'[p] \in {"none", "member"} <=> opRuns'[p] = 0
    <3>1. CASE p = o
      <4>1. opRuns'[o] # 0 /\ functor_'[o] = "local"
        BY <1>1, <1>8 DEF WhereFunctorsAre
      <4> QED BY <1>6, <3>1, <4>1
    <3>2. CASE p # o
      <4>1. opRuns'[p] = opRuns[p] /\ functor_'[p] = held[p]
        BY <1>1, <1>8, <3>2 DEF WhereFunctorsAre
      <4> QED BY <1>6, <3>2, <4>1 DEF WhereFunctorsAre
    <3> QED BY <3>1, <3>2
  <2> QED BY <2>1, <2>2 DEF WhereFunctorsAre
<1> QED BY <1>2, <1>7, <1>9 DEF FunctorInv

(* So does not running one. *)
LEMMA WaitKeepsFunctors ==
  ASSUME FunctorInv, NEW held, WhereFunctorsAre(held), Wait(held)
  PROVE  FunctorInv'
BY DEF FunctorInv, WhereFunctorsAre, Wait, Executing

(* ChainOperation keeps the invariant of the functors. *)
LEMMA ChainOperationKeepsFunctors ==
  ASSUME ChainInv, FunctorInv, NEW o \in Op, ChainOperation(o)
  PROVE  FunctorInv'
<1>1. opRuns[o] = 0
  <2>1. callback[o] = "none"
    BY DEF ChainOperation
  <2>2. \A i \in 1..Len(order) : callback[order[i]] # "none"
    BY DEF ChainInv, ProgressInOrder
  <2> QED BY <2>1, <2>2 DEF ChainInv, ProgressInOrder
<1>2. PICK held : held = [functor_ EXCEPT ![o] = "member"]
  BY Zenon
<1>3. WhereFunctorsAre(held)
  <2>1. functor_ \in [Op -> {"none", "member", "local", "destroyed"}]
    BY DEF FunctorInv, WhereFunctorsAre
  <2>2. functor_[o] \in {"none", "member"} /\ o \notin Executing
    BY <1>1 DEF FunctorInv, WhereFunctorsAre
  <2> QED BY <1>1, <1>2, <2>1, <2>2 DEF FunctorInv, WhereFunctorsAre
<1>4. Run(o, held) \/ Wait(held)
  BY <1>2 DEF ChainOperation
<1> QED BY <1>1, <1>3, <1>4, RunKeepsFunctors, WaitKeepsFunctors

(* So does OnOperationComplete. *)
LEMMA OnOperationCompleteKeepsFunctors ==
  ASSUME ChainInv, FunctorInv, NEW o \in Op, OnOperationComplete(o)
  PROVE  FunctorInv'
<1>1. PICK held : held = [functor_ EXCEPT ![o] = IF @ = "member" THEN "destroyed" ELSE @]
  BY Zenon
<1>2. WhereFunctorsAre(held)
  <2>1. functor_ \in [Op -> {"none", "member", "local", "destroyed"}] /\ functor_[o] # "member"
    BY DEF FunctorInv, WhereFunctorsAre, OnOperationComplete
  <2>2. held = functor_
    BY <1>1, <2>1
  <2> QED BY <2>2 DEF FunctorInv
<1>3. CASE chained_operations_' # <<>>
  <2>1. PICK p : p = Head(chained_operations_')
    OBVIOUS
  <2>2. Run(p, held)
    BY <1>1, <1>3, <2>1 DEF OnOperationComplete
  <2>3. p \in Op /\ opRuns[p] = 0
    <3> DEFINE n == Len(order)
               m == Len(chained_operations_)
               c == Completed
    <3>1. /\ order \in Seq(Op) /\ chained_operations_ \in Seq(Op) /\ n \in Nat /\ m \in Nat /\ m <= n
          /\ c = n - m
      BY DEF ChainInv, ChainTypeOK, Completed
    <3>2. m > 0
      BY FrontCompletes DEF OnOperationComplete
    <3>3. chained_operations_' = Tail(chained_operations_)
      BY DEF OnOperationComplete
    <3>4. m > 1 /\ p = chained_operations_[2]
      BY <1>3, <2>1, <3>1, <3>2, <3>3
    <3>5. 2 \in 1..m /\ c + 2 \in 1..n /\ ~ (c + 2 <= c + 1)
      BY <3>1, <3>4
    <3>6. p = order[c + 2]
      BY <3>4, <3>5 DEF ChainInv, ChainIsRest
    <3>7. opRuns[order[c + 2]] = 0
      BY <3>5 DEF ChainInv, ProgressInOrder
    <3> QED BY <3>1, <3>5, <3>6, <3>7
  <2> QED BY <1>2, <2>2, <2>3, RunKeepsFunctors
<1>4. CASE chained_operations_' = <<>>
  <2>1. Wait(held)
    BY <1>1, <1>4 DEF OnOperationComplete
  <2> QED BY <1>2, <2>1, WaitKeepsFunctors
<1> QED BY <1>3, <1>4

(* So does the return of a functor. *)
LEMMA FunctorReturnsKeepsFunctors ==
  ASSUME FunctorInv, FunctorReturns
  PROVE  FunctorInv'
<1>0. PICK k, f : k = Len(functors) /\ f = functors[Len(functors)]
  BY Zenon
<1>1. functors \in Seq(Op) /\ functors # <<>> /\ k \in Nat \ {0} /\ f = functors[k] /\ f \in Op
  BY <1>0 DEF FunctorInv, FunctorReturns
<1>2. /\ functors' \in Seq(Op) /\ Len(functors') = k - 1
      /\ \A i \in 1..(k - 1) : functors'[i] = functors[i]
  <2>1. PICK outer : outer = SubSeq(functors, 1, Len(functors) - 1)
    BY Zenon
  <2>2. outer \in Seq(Op) /\ Len(outer) = k - 1 /\ \A i \in 1..(k - 1) : outer[i] = functors[i]
    BY <1>0, <1>1, <2>1
  <2>3. functors' = outer
    BY <2>1 DEF FunctorReturns
  <2> QED BY <2>2, <2>3
<1>3. Executing = {functors[i] : i \in 1..k} /\ Executing' = {functors'[i] : i \in 1..(k - 1)}
  <2>1. DOMAIN functors = 1..k /\ DOMAIN functors' = 1..(k - 1)
    BY <1>0, <1>1, <1>2
  <2> QED BY <2>1, Zenon DEF Executing
<1>4. 1..k = 1..(k - 1) \cup {k} /\ k \notin 1..(k - 1)
  BY <1>1
<1>5. \A i, j \in 1..k : functors[i] = functors[j] => i = j
  BY <1>0 DEF FunctorInv
<1>6. Executing' = Executing \ {f}
  BY <1>1, <1>2, <1>3, <1>4, <1>5
<1>7. f \in Executing
  BY <1>1, <1>3, <1>4
<1>8. /\ functor_' = [functor_ EXCEPT ![f] = IF @ = "local" THEN "destroyed" ELSE @]
      /\ opRuns' = opRuns
  BY <1>0 DEF FunctorReturns
<1>9. \A i, j \in 1..(k - 1) : functors'[i] = functors'[j] => i = j
  BY <1>2, <1>4, <1>5
<1>10. WhereFunctorsAre(functor_)'
  <2>1. functor_ \in [Op -> {"none", "member", "local", "destroyed"}] /\ functor_[f] = "local"
    BY <1>1, <1>7 DEF FunctorInv, WhereFunctorsAre
  <2>2. functor_' = [functor_ EXCEPT ![f] = "destroyed"]
    BY <1>1, <1>8, <2>1
  <2>3. opRuns[f] # 0
    BY <1>1, <2>1 DEF FunctorInv, WhereFunctorsAre
  <2> QED BY <1>1, <1>6, <1>8, <2>1, <2>2, <2>3 DEF FunctorInv, WhereFunctorsAre
<1> QED BY <1>2, <1>9, <1>10 DEF FunctorInv

(* Every functor of an OperationsChain is destroyed when it has returned,  *)
(* and not before, however its completion and others nest.                 *)
THEOREM FunctorsLiveUntilTheyReturn == ChainSpec => []FunctorOutlivesRun
<1>1. ChainInit => FunctorInv
  <2> SUFFICES ASSUME ChainInit PROVE FunctorInv
    OBVIOUS
  <2>1. functors = <<>> /\ Executing = {}
    BY DEF ChainInit, Executing
  <2> QED BY <2>1 DEF ChainInit, FunctorInv, WhereFunctorsAre
<1>2. ChainInv /\ FunctorInv /\ [ChainNext]_chainVars => FunctorInv'
  <2> SUFFICES ASSUME ChainInv, FunctorInv, [ChainNext]_chainVars PROVE FunctorInv'
    OBVIOUS
  <2>1. CASE UNCHANGED chainVars
    BY <2>1 DEF chainVars, FunctorInv, WhereFunctorsAre, Executing
  <2> QED
    BY <2>1, ChainOperationKeepsFunctors, OnOperationCompleteKeepsFunctors,
       FunctorReturnsKeepsFunctors DEF ChainNext
<1>3. ChainInv /\ FunctorInv => FunctorOutlivesRun
  <2> SUFFICES ASSUME ChainInv, FunctorInv PROVE FunctorOutlivesRun
    OBVIOUS
  <2>1. \A o \in Op : opRuns[o] > 0 <=> opRuns[o] # 0
    BY DEF ChainInv, ChainTypeOK
  <2>2. \A o \in Op : functor_[o] = "destroyed" <=> opRuns[o] > 0 /\ o \notin Executing
    BY <2>1 DEF FunctorInv, WhereFunctorsAre
  <2> QED BY <2>2 DEF FunctorOutlivesRun
<1> QED BY <1>1, <1>2, <1>3, ChainInvHolds, PTL DEF ChainSpec
=============================================================================
