------------------------------ MODULE Unwrapper ------------------------------
(***************************************************************************)
(* Unwrapper<U> (modules/include/module_common_types_public.h), which      *)
(* unwraps RTP sequence numbers (uint16_t, promoted to int in subtractions)*)
(* and timestamps (uint32_t, not promoted), fed with the numbers of a      *)
(* stream that arrive out of order.  Unlike SeqNumUnwrapper it never       *)
(* returns a negative value.                                               *)
(***************************************************************************)
EXTENDS ModOps

VARIABLES
    received,     \* the true position of the number received last
    lowest,       \* the lowest position received by this unwrapper
    base,         \* the position whose unwrapped value is zero, to begin with
    last_unwrap_, \* last_value_ of the unwrapper
    begun         \* does last_unwrap_ hold a value?

unwrapperVars == <<received, lowest, base, last_unwrap_, begun>>

UnwrapperTypeOK ==
    /\ received \in Int /\ lowest \in Int /\ base \in Int
    /\ last_unwrap_ \in Int
    /\ begun \in BOOLEAN

kMaxPlusOne == Modulus
CroppedLast == last_unwrap_ % Modulus

(* UnwrapWithoutUpdate if it did not wrap backwards at all. *)
UnwrapWithoutUpdate_NoBackward(value) ==
    LET delta == Sub(value, CroppedLast) IN
    IF ~ begun THEN value
    ELSE last_unwrap_ + (IF IsNewer(value, CroppedLast) /\ delta < 0
                        THEN delta + kMaxPlusOne ELSE delta)

UnwrapWithoutUpdate(value) ==
    LET delta == Sub(value, CroppedLast) IN
    IF ~ begun THEN value
    ELSE last_unwrap_ + (IF IsNewer(value, CroppedLast)
                        THEN IF delta < 0 THEN delta + kMaxPlusOne ELSE delta
                        ELSE IF delta > 0 /\ last_unwrap_ + delta - kMaxPlusOne >= 0
                             THEN delta - kMaxPlusOne ELSE delta)

(* Unwrap the number of the new position, and update the internal state. *)
UnwrapReceived(step) ==
    /\ Near(step)
    /\ received + step \in -MaxPosition..MaxPosition
    /\ received' = received + step
    /\ last_unwrap_' = UnwrapWithoutUpdate(received' % Modulus)
    /\ begun' = TRUE
    /\ IF begun
       THEN /\ lowest' = IF received' < lowest THEN received' ELSE lowest
            /\ base' = base
       ELSE /\ lowest' = received'
            /\ base' = received' - (received' % Modulus)

(* The client says where the stream is. *)
UpdateLast(last_value) ==
    /\ last_unwrap_' = last_value /\ begun' = TRUE
    /\ received' = last_value /\ lowest' = last_value /\ base' = 0

UnwrapperInit ==
    /\ received \in SeqNum
    /\ lowest = received
    /\ base = 0
    /\ last_unwrap_ = 0 /\ begun = FALSE

UnwrapperNext ==
    \/ \E step \in (-Modulus)..Modulus : UnwrapReceived(step)
    \/ \E last_value \in 0..MaxPosition : UpdateLast(last_value)

UnwrapperSpec == UnwrapperInit /\ [][UnwrapperNext]_unwrapperVars

-----------------------------------------------------------------------------
(* "The numbers will never be unwrapped to a negative value." *)
NeverNegative == last_unwrap_ >= 0

(* The number of times a stream that went depth below the lowest value    *)
(* that can be represented has been corrected by one modulus.             *)
Floors(depth) == IF depth <= 0 THEN 0 ELSE (depth + Modulus - 1) \div Modulus

(* The unwrapped value follows the true position of the stream over any    *)
(* number of wraps in both directions; each time it would become negative, *)
(* and only then, it is one modulus too high from there on.                *)
UnwrapperFollowsPosition ==
    begun => last_unwrap_ = received - base + Modulus * Floors(base - lowest)
=============================================================================
