-------------------------- MODULE SeqNumUnwrapper --------------------------
(***************************************************************************)
(* SeqNumUnwrapper<T, M> (rtc_base/numerics/sequence_number_util.h) fed    *)
(* with the sequence numbers of a stream.  The stream has a true position, *)
(* an integer that never wraps; its sequence number is kept with Add<M>    *)
(* and Subtract<M>.  Numbers arrive out of order, gaps and repetitions     *)
(* included.                                                               *)
(***************************************************************************)
EXTENDS ModOps

VARIABLES
    position,       \* the true position of the number received last
    number,         \* its sequence number
    origin,         \* the position whose unwrapped value is zero
    last_value_,
    last_unwrapped_,
    started         \* does last_value_ hold a value?

seqVars == <<position, number, origin, last_value_, last_unwrapped_, started>>

SeqTypeOK ==
    /\ position \in Int /\ origin \in Int /\ last_unwrapped_ \in Int
    /\ number \in SeqNum /\ last_value_ \in SeqNum
    /\ started \in BOOLEAN

(* Advances are made with Add, and steps back with Subtract. *)
Moved(n, step) == IF step >= 0 THEN Add(n, step) ELSE Subtract(n, - step)

(* Unwrap without the backward adjustment. *)
Unwrap_ForwardOnly(value) ==
    /\ last_unwrapped_' = IF started
                          THEN last_unwrapped_ + ForwardDiff(last_value_, value)
                          ELSE value
    /\ last_value_' = value
    /\ started' = TRUE
Unwrap(value) ==
    /\ last_unwrapped_' =
          IF ~ started THEN value
          ELSE last_unwrapped_ + ForwardDiff(last_value_, value)
                 - (IF AheadOrAt(value, last_value_) THEN 0 ELSE Modulus)
    /\ last_value_' = value
    /\ started' = TRUE

(* A number is received and unwrapped. *)
Receive(step) ==
    /\ Near(step)
    /\ position + step \in -MaxPosition..MaxPosition
    /\ position' = position + step
    /\ number' = Moved(number, step)
    /\ Unwrap(number')
    /\ origin' = IF started THEN origin ELSE position' - number'

(* The stream jumps by any distance, and a new unwrapper is built. *)
Restart(step) ==
    /\ position + step \in -MaxPosition..MaxPosition
    /\ position' = position + step
    /\ number' = Moved(number, step)
    /\ last_value_' = 0 /\ last_unwrapped_' = 0 /\ started' = FALSE
    /\ origin' = origin

SeqInit ==
    /\ position \in SeqNum
    /\ number = position
    /\ origin = 0
    /\ last_value_ = 0 /\ last_unwrapped_ = 0 /\ started = FALSE

SeqNext == \E step \in -(2 * MaxPosition)..(2 * MaxPosition) : Receive(step) \/ Restart(step)

SeqSpec == SeqInit /\ [][SeqNext]_seqVars

-----------------------------------------------------------------------------
(* Add and Subtract keep the number equal to the position modulo M, for    *)
(* steps of any size and in spite of the unsigned underflow inside Add.    *)
NumberIsModular == number = position % Modulus

(* As long as consecutive numbers are less than half of the modulus apart, *)
(* the unwrapped value differs from the true position by a constant, fixed *)
(* by the first number ("the first unwrapped value equals the first value  *)
(* being unwrapped"), over any number of wraps in both directions.         *)
UnwrapFollowsPosition == started => last_unwrapped_ = position - origin

(* Of two different numbers exactly one is ahead of the other, those that  *)
(* are as far apart as possible included: there the higher one is ahead.   *)
ExactlyOneAhead ==
    \A n \in SeqNum : n # number =>
        /\ AheadOf(n, number) # AheadOf(number, n)
        /\ 2 * MinDiff(n, number) = Modulus => (AheadOf(n, number) <=> n > number)
=============================================================================
