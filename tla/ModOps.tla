------------------------------- MODULE ModOps -------------------------------
(***************************************************************************)
(* Arithmetic on numbers that wrap: rtc_base/numerics/mod_ops.h and the    *)
(* comparisons of sequence_number_util.h and                               *)
(* module_common_types_public.h.  Modulus is M, or 2^w for a type of w     *)
(* bits when the template argument M is 0.  Word is 2^w for unsigned long. *)
(***************************************************************************)
EXTENDS Integers

CONSTANTS
    Modulus,
    Explicit,  \* is the modulus the template argument M (M > 0)?
    Promoted,  \* is the type narrower than int?
    Word,
    MaxPosition  \* bound: distance of a stream's position from zero

ASSUME ModulusAssumption ==
    /\ Modulus \in Nat /\ Modulus >= 2
    /\ Explicit \in BOOLEAN /\ Promoted \in BOOLEAN
    /\ ~ Explicit => Modulus = 2 * (Modulus \div 2)
    /\ Word \in Nat /\ Word >= Modulus

ASSUME PositionAssumption == MaxPosition \in Nat

SeqNum == 0..(Modulus - 1)

(* Consecutive numbers of a stream are less than half of the modulus       *)
(* apart, as the unwrappers require.                                       *)
Near(step) == 2 * step < Modulus /\ - 2 * step < Modulus

(* Unsigned subtraction of numbers below Modulus, and of words. *)
WrapSub(a, b) == IF b <= a THEN a - b ELSE a - b + Modulus
WordSub(a, b) == IF b <= a THEN a - b ELSE a - b + Word
WordAdd(a, b) == IF a + b < Word THEN a + b ELSE a + b - Word

(* Subtraction where the operands are promoted to int if they are narrower *)
Sub(a, b) == IF Promoted THEN a - b ELSE WrapSub(a, b)

Add(a, b) == LET t == Modulus - (b % Modulus)
                 res == WordSub(a, t)
             IN  IF t > a THEN WordAdd(res, Modulus) ELSE res

Subtract(a, b) == LET sub == b % Modulus
                  IN  IF a < sub THEN Modulus - (sub - a) ELSE a - sub

ForwardDiff(a, b) ==
    IF Explicit THEN IF a <= b THEN b - a ELSE Modulus - (a - b)
                ELSE WrapSub(b, a)

ReverseDiff(a, b) ==
    IF Explicit THEN IF b <= a THEN a - b ELSE Modulus - (b - a)
                ELSE WrapSub(a, b)

MinDiff(a, b) == IF ForwardDiff(a, b) <= ReverseDiff(a, b)
                 THEN ForwardDiff(a, b) ELSE ReverseDiff(a, b)

maxDist == Modulus \div 2

AheadOrAt(a, b) ==
    IF Explicit
    THEN IF Modulus % 2 = 0 /\ MinDiff(a, b) = maxDist
         THEN b < a
         ELSE ForwardDiff(b, a) <= maxDist
    ELSE IF Sub(a, b) = maxDist THEN b < a ELSE ForwardDiff(b, a) < maxDist

AheadOf(a, b) == a # b /\ AheadOrAt(a, b)

(* kBreakpoint is half of the type's range. *)
IsNewer(value, prev_value) ==
    IF Sub(value, prev_value) = Modulus \div 2
    THEN value > prev_value
    ELSE value # prev_value /\ WrapSub(value, prev_value) < Modulus \div 2
=============================================================================
