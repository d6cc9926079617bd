---------------------------- MODULE CallbackList ----------------------------
(***************************************************************************)
(* base::RepeatingCallbackList and base::OnceCallbackList: a list of       *)
(* callbacks that may add and cancel callbacks, and notify the list again, *)
(* while they are being notified.                                          *)
(*                                                                         *)
(* Callbacks are only ever added at the end of the std::list, so they are  *)
(* numbered in the order in which they are added and the list is the set   *)
(* of the numbers in it; End is the list's past-the-end position.          *)
(***************************************************************************)
EXTENDS Naturals, Sequences, FiniteSets, FiniteSetsExt

CONSTANTS
    MaxCallbacks,  \* bound: how many callbacks are added in all
    MaxNesting,    \* bound: how deep calls of Notify nest
    OnceReentrant  \* whether a OnceCallbackList is notified by its callbacks

ASSUME CallbackListAssumption ==
    MaxCallbacks \in Nat /\ MaxNesting \in Nat /\ OnceReentrant \in BOOLEAN

VARIABLES
    once,             \* whether the list is a OnceCallbackList
    listAlive,        \* whether the list was not destroyed yet
    callbacks_,
    nonNull,          \* the callbacks of callbacks_ that are not null
    null_callbacks_,
    iterating_,
    notifications,    \* the calls of Notify on the stack, the innermost last
    subscriptions,    \* the callbacks whose CallbackListSubscription lives
    lastAdded         \* the number of the last callback added

callbackVars == <<once, listAlive, callbacks_, nonNull, null_callbacks_, iterating_,
                  notifications, subscriptions, lastAdded>>

End == MaxCallbacks + 1

-----------------------------------------------------------------------------
(* Add returns a subscription, AddUnsafe does not. *)
AddCallback(unsafe) ==
    /\ listAlive /\ lastAdded < MaxCallbacks
    /\ lastAdded' = lastAdded + 1
    /\ callbacks_' = callbacks_ \cup {lastAdded'}
    /\ nonNull' = nonNull \cup {lastAdded'}
    /\ subscriptions' = IF unsafe THEN subscriptions ELSE subscriptions \cup {lastAdded'}
    /\ UNCHANGED <<once, listAlive, null_callbacks_, iterating_, notifications>>

(* The first position from it on that is not null. *)
next_valid(it) == Min({c \in callbacks_ \cap nonNull : c >= it} \cup {End})

(* it++, past the callback c. *)
Past(c) == Min({d \in callbacks_ : d > c} \cup {End})

(* A once callback that runs is moved to null_callbacks_, and is null then. *)
Splice(c) ==
    IF once
    THEN /\ callbacks_' = callbacks_ \ {c}
         /\ nonNull' = nonNull \ {c}
         /\ null_callbacks_' = null_callbacks_ \cup {c}
    ELSE UNCHANGED <<callbacks_, nonNull, null_callbacks_>>

(* RunCallback if the loop advanced once more after it. *)
RunCallback_Skips(c, outer, todo, was) ==
    /\ notifications' = Append(outer, [it |-> Past(Past(c)), todo |-> todo \ {c}, was |-> was])
    /\ Splice(c)

(* RunCallback on it++: the loop's iterator is past c before c runs. *)
RunCallback(c, outer, todo, was) ==
    /\ notifications' = Append(outer, [it |-> Past(c), todo |-> todo \ {c}, was |-> was])
    /\ Splice(c)

(* The list as it is after callbacks were removed: the removal callback,   *)
(* if it is set, may delete the list.                                      *)
RemovedTo(remaining) ==
    \/ /\ callbacks_' = remaining
       /\ nonNull' = nonNull \cap remaining
       /\ UNCHANGED <<listAlive, null_callbacks_>>
    \/ /\ listAlive' = FALSE
       /\ callbacks_' = {} /\ nonNull' = {} /\ null_callbacks_' = {}

(* The end of Notify if iterating_ were cleared rather than restored. *)
NotifyEnd_Clears(outer, was) ==
    /\ notifications' = outer
    /\ iterating_' = FALSE
    /\ RemovedTo(callbacks_ \cap nonNull)

(* The end of Notify: only the outermost call prunes null callbacks. *)
NotifyEnd(outer, was) ==
    /\ notifications' = outer
    /\ iterating_' = was
    /\ IF was \/ (callbacks_ = nonNull /\ ~once)
       THEN UNCHANGED <<listAlive, callbacks_, nonNull, null_callbacks_>>
       ELSE RemovedTo(callbacks_ \cap nonNull)

(* The loop of Notify from position it on, up to the next callback it runs. *)
NotifyLoop(it, outer, todo, was) ==
    /\ IF next_valid(it) = End
       THEN NotifyEnd(outer, was)
       ELSE /\ RunCallback(next_valid(it), outer, todo, was)
            /\ iterating_' = TRUE
            /\ UNCHANGED listAlive
    /\ UNCHANGED <<once, subscriptions, lastAdded>>

(* Notify: it does nothing if no callback is left. *)
Notify ==
    /\ listAlive /\ nonNull # {}
    /\ Len(notifications) < IF once /\ ~OnceReentrant THEN 1 ELSE MaxNesting
    /\ NotifyLoop(Min(callbacks_), notifications, nonNull, iterating_)

(* The callback that the innermost Notify runs returns. *)
CallbackReturns ==
    LET top == notifications[Len(notifications)]
        outer == SubSeq(notifications, 1, Len(notifications) - 1)
    IN  /\ notifications # <<>>
        /\ top.it \in callbacks_ \cup {End}
        /\ NotifyLoop(top.it, outer, top.todo, top.was)

(* The subscription of c is destroyed.  CancelCallback is bound to a weak  *)
(* pointer to the list.                                                    *)
CancelCallback(c) ==
    /\ c \in subscriptions
    /\ subscriptions' = subscriptions \ {c}
    /\ IF ~listAlive
       THEN UNCHANGED <<listAlive, callbacks_, nonNull, null_callbacks_>>
       ELSE IF once /\ c \notin nonNull
       THEN /\ null_callbacks_' = null_callbacks_ \ {c}
            /\ UNCHANGED <<listAlive, callbacks_, nonNull>>
       ELSE IF iterating_
       THEN /\ nonNull' = nonNull \ {c}
            /\ UNCHANGED <<listAlive, callbacks_, null_callbacks_>>
       ELSE RemovedTo(callbacks_ \ {c})
    /\ UNCHANGED <<once, iterating_, notifications, lastAdded>>

(* The list is destroyed; doing so during a notification is unsupported. *)
DestroyCallbackList ==
    /\ listAlive /\ ~iterating_
    /\ listAlive' = FALSE
    /\ callbacks_' = {} /\ nonNull' = {} /\ null_callbacks_' = {}
    /\ UNCHANGED <<once, iterating_, notifications, subscriptions, lastAdded>>

CallbackInit ==
    /\ once \in BOOLEAN /\ listAlive = TRUE /\ iterating_ = FALSE
    /\ callbacks_ = {} /\ nonNull = {} /\ null_callbacks_ = {}
    /\ notifications = <<>> /\ subscriptions = {} /\ lastAdded = 0

CallbackNext ==
    \/ \E unsafe \in BOOLEAN : AddCallback(unsafe)
    \/ Notify
    \/ CallbackReturns
    \/ \E c \in subscriptions : CancelCallback(c)
    \/ DestroyCallbackList

CallbackSpec == CallbackInit /\ [][CallbackNext]_callbackVars

-----------------------------------------------------------------------------
(* "existing iterators should never be invalidated": however callbacks     *)
(* add, cancel and notify, the position at which each call of Notify on    *)
(* the stack goes on, and the one each live subscription holds, is in the  *)
(* list it was taken from or, for a once callback that ran, in             *)
(* null_callbacks_.                                                        *)
IteratorsNeverInvalidated ==
    /\ \A i \in DOMAIN notifications : notifications[i].it \in callbacks_ \cup {End}
    /\ listAlive => subscriptions \subseteq callbacks_ \cup null_callbacks_

(* "Calls all registered callbacks that are not canceled beforehand": a    *)
(* callback that was registered when a Notify began, which that Notify has *)
(* not run and nobody canceled, still lies ahead of its iterator; and once *)
(* no Notify is left, no null callback is either.                          *)
NoCallbackMissed ==
    /\ \A i \in DOMAIN notifications :
          \A c \in notifications[i].todo \cap nonNull :
              c \in callbacks_ /\ c >= notifications[i].it
    /\ notifications = <<>> => callbacks_ = nonNull /\ ~iterating_
=============================================================================
