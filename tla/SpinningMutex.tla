---------------------------- MODULE SpinningMutex ----------------------------
(***************************************************************************)
(* base::internal::SpinningMutex on Linux: a futex that is tried for a     *)
(* while before the thread sleeps.  LockSlow, FutexWait and FutexWake are  *)
(* not in the headers; they are modelled from what Release relies on: a    *)
(* waiter marks the mutex contended, sleeps only while it is so marked,    *)
(* and "will check that the lock is still free" when it wakes up.          *)
(***************************************************************************)
EXTENDS Naturals

CONSTANTS
    LockThread,
    kSpinCount,   \* 1000 in the code
    kMaxBackoff   \* 64 in the code

ASSUME SpinAssumption == kSpinCount \in Nat \ {0} /\ kMaxBackoff \in Nat \ {0}

kUnlocked == 0
kLockedUncontended == 1
kLockedContended == 2

VARIABLES
    state_,
    lockPc,     \* where each thread is
    acquiring,  \* whether it is in Acquire, rather than in a Try of its own
    tries,
    backoff

mutexVars == <<state_, lockPc, acquiring, tries, backoff>>

At(t, here) == lockPc[t] = here
Goes(t, there) == lockPc' = [lockPc EXCEPT ![t] = there]

-----------------------------------------------------------------------------
(* Acquire, and Try. *)
CallLock(t, acquire) ==
    /\ At(t, "idle")
    /\ acquiring' = [acquiring EXCEPT ![t] = acquire]
    /\ tries' = [tries EXCEPT ![t] = 0] /\ backoff' = [backoff EXCEPT ![t] = 1]
    /\ Goes(t, "load")
    /\ UNCHANGED state_

(* The load of Try. *)
TryLoad(t) ==
    /\ At(t, "load")
    /\ Goes(t, IF state_ = kUnlocked THEN "exchange" ELSE "failed")
    /\ UNCHANGED <<state_, acquiring, tries, backoff>>

(* Try if it stored without comparing again. *)
TryExchange_Stores(t) ==
    /\ At(t, "exchange")
    /\ state_' = kLockedUncontended /\ Goes(t, "locked")
    /\ UNCHANGED <<acquiring, tries, backoff>>

(* The compare_exchange_strong of Try. *)
TryExchange(t) ==
    /\ At(t, "exchange")
    /\ IF state_ = kUnlocked
       THEN state_' = kLockedUncontended /\ Goes(t, "locked")
       ELSE UNCHANGED state_ /\ Goes(t, "failed")
    /\ UNCHANGED <<acquiring, tries, backoff>>

(* A Try fails: Acquire yields for a while and tries again, or gives up. *)
TryFailed(t) ==
    /\ At(t, "failed")
    /\ IF ~acquiring[t]
       THEN Goes(t, "idle") /\ UNCHANGED <<tries, backoff>>
       ELSE /\ tries' = [tries EXCEPT ![t] = @ + backoff[t]]
            /\ backoff' = [backoff EXCEPT ![t] = IF 2 * @ < kMaxBackoff THEN 2 * @ ELSE kMaxBackoff]
            /\ Goes(t, IF tries'[t] < kSpinCount THEN "load" ELSE "slow")
    /\ UNCHANGED <<state_, acquiring>>

(* The exchange of LockSlow, which takes the mutex if it was free. *)
LockSlow(t) ==
    /\ At(t, "slow")
    /\ state_' = kLockedContended
    /\ Goes(t, IF state_ = kUnlocked THEN "locked" ELSE "wait")
    /\ UNCHANGED <<acquiring, tries, backoff>>

(* FutexWait: the kernel lets the thread sleep if the value is still there. *)
FutexWait(t) ==
    /\ At(t, "wait")
    /\ Goes(t, IF state_ = kLockedContended THEN "asleep" ELSE "slow")
    /\ UNCHANGED <<state_, acquiring, tries, backoff>>

(* A futex may also wake up for no reason. *)
WakesUp(t) ==
    /\ At(t, "asleep")
    /\ Goes(t, "slow")
    /\ UNCHANGED <<state_, acquiring, tries, backoff>>

(* Release if it only stored; only the waiter's mark asks for a wake-up. *)
ReleaseMutex_Forgets(t) ==
    /\ At(t, "locked")
    /\ state_' = kUnlocked
    /\ Goes(t, "idle")
    /\ UNCHANGED <<acquiring, tries, backoff>>

(* The exchange of Release. *)
ReleaseMutex(t) ==
    /\ At(t, "locked")
    /\ state_' = kUnlocked
    /\ Goes(t, IF state_ = kLockedContended THEN "wake" ELSE "idle")
    /\ UNCHANGED <<acquiring, tries, backoff>>

(* FutexWake wakes one sleeper, if there is one. *)
FutexWake(t) ==
    /\ At(t, "wake")
    /\ \/ /\ \A s \in LockThread : ~At(s, "asleep")
          /\ Goes(t, "idle")
       \/ \E s \in LockThread :
             /\ At(s, "asleep")
             /\ lockPc' = [lockPc EXCEPT ![t] = "idle", ![s] = "slow"]
    /\ UNCHANGED <<state_, acquiring, tries, backoff>>

-----------------------------------------------------------------------------
MutexInit ==
    /\ state_ = kUnlocked
    /\ lockPc = [t \in LockThread |-> "idle"]
    /\ acquiring = [t \in LockThread |-> FALSE]
    /\ tries = [t \in LockThread |-> 0] /\ backoff = [t \in LockThread |-> 1]

(* The steps of a thread once it has called. *)
MutexStep(t) ==
    \/ TryLoad(t) \/ TryExchange(t) \/ TryFailed(t)
    \/ LockSlow(t) \/ FutexWait(t)
    \/ ReleaseMutex(t) \/ FutexWake(t)

MutexNext ==
    \E t \in LockThread :
        \/ CallLock(t, TRUE) \/ CallLock(t, FALSE)
        \/ MutexStep(t)
        \/ WakesUp(t)

MutexSpec == MutexInit /\ [][MutexNext]_mutexVars

-----------------------------------------------------------------------------
(* Type correctness. *)
MutexTypeOK ==
    /\ state_ \in {kUnlocked, kLockedUncontended, kLockedContended}
    /\ lockPc \in [LockThread -> {"idle", "load", "exchange", "failed", "slow", "wait", "asleep",
                                  "locked", "wake"}]
    /\ acquiring \in [LockThread -> BOOLEAN]
    /\ tries \in [LockThread -> Nat] /\ backoff \in [LockThread -> Nat]

(* The mutex excludes: at most one thread is between its Acquire or Try    *)
(* and its Release, and state_ says whether one is, although a Try loads   *)
(* and exchanges in two steps and a waiter's exchange marks a mutex that   *)
(* another thread holds.                                                   *)
MutexExcludes ==
    /\ \A s, t \in LockThread : At(s, "locked") /\ At(t, "locked") => s = t
    /\ (state_ # kUnlocked) <=> \E t \in LockThread : At(t, "locked")

(* No wake-up is lost: while a thread sleeps, the holder will be told to   *)
(* wake one, or a thread is on its way to do so, or one that is awake will *)
(* mark the mutex contended again.  A newcomer that takes the mutex in the *)
(* window that Release leaves, and sets it to kLockedUncontended, must not *)
(* break this chain.                                                       *)
NoLostWakeup ==
    (\E t \in LockThread : At(t, "asleep")) =>
        \/ state_ = kLockedContended
        \/ \E t \in LockThread : At(t, "wake") \/ At(t, "slow")

(* The mutex does not get stuck: while threads wait in Acquire, one of the *)
(* threads gets the mutex.                                                 *)
SomeoneLocks ==
    (\E t \in LockThread : acquiring[t] /\ lockPc[t] \in {"load", "slow", "wait", "asleep"})
        ~> (\E t \in LockThread : At(t, "locked"))
=============================================================================
