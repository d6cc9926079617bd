--------------------------- MODULE NumericProofs ----------------------------
(***************************************************************************)
(* What the operators on wrapping numbers compute, for every modulus, and  *)
(* the properties of the two unwrappers: SeqNumUnwrapper for every         *)
(* modulus, word size and bound, Unwrapper for every even modulus, for     *)
(* types narrower than int and for others.                                 *)
(***************************************************************************)
EXTENDS SeqNumUnwrapper, Unwrapper, TLAPS

(***************************************************************************)
(* ModOps.                                                                 *)
(***************************************************************************)

(* A number below the modulus that differs from x by a multiple of the     *)
(* modulus is the remainder of x, and the factor is the quotient.          *)
LEMMA ModUnique ==
    ASSUME NEW x \in Int, NEW q \in Int, NEW r \in SeqNum, x = Modulus * q + r
    PROVE  x % Modulus = r /\ x \div Modulus = q
<1> DEFINE q2 == x \div Modulus
           r2 == x % Modulus
<1>1. q2 \in Int /\ r2 \in Int /\ 0 <= r2 /\ r2 < Modulus /\ x = Modulus * q2 + r2
  BY ModulusAssumption
<1>2. 0 <= r /\ r < Modulus /\ r \in Int
  BY ModulusAssumption DEF SeqNum
<1> HIDE DEF q2, r2
<1>3. CASE q > q2
  <2>1. Modulus * q >= Modulus * q2 + Modulus
    BY <1>1, <1>3, ModulusAssumption
  <2> QED BY <2>1, <1>1, <1>2, ModulusAssumption
<1>4. CASE q < q2
  <2>1. Modulus * q2 >= Modulus * q + Modulus
    BY <1>1, <1>4, ModulusAssumption
  <2> QED BY <2>1, <1>1, <1>2, ModulusAssumption
<1>5. CASE q = q2
  BY <1>1, <1>2, <1>5, ModulusAssumption DEF q2, r2
<1> QED BY <1>1, <1>3, <1>4, <1>5

(* The quotient and the remainder of an integer. *)
LEMMA ModParts ==
    ASSUME NEW x \in Int
    PROVE  /\ x % Modulus \in SeqNum
           /\ \E q \in Int : x = Modulus * q + (x % Modulus)
<1>1. x \div Modulus \in Int /\ x = Modulus * (x \div Modulus) + (x % Modulus)
  BY ModulusAssumption
<1>2. x % Modulus \in SeqNum
  BY ModulusAssumption DEF SeqNum
<1> QED BY <1>1, <1>2

(* Add and Subtract reduce the sum and the difference of numbers: the      *)
(* unsigned underflow in Add is undone by the unsigned overflow of its     *)
(* correction.                                                             *)
LEMMA AddIsModular ==
    ASSUME NEW a \in SeqNum, NEW b \in Nat
    PROVE  /\ Add(a, b) = IF a + (b % Modulus) < Modulus THEN a + (b % Modulus)
                          ELSE a + (b % Modulus) - Modulus
           /\ Subtract(a, b) = IF a < b % Modulus THEN a - (b % Modulus) + Modulus
                               ELSE a - (b % Modulus)
<1> DEFINE r == b % Modulus
<1>1. r \in Int /\ 0 <= r /\ r < Modulus
  BY ModulusAssumption
<1>2. /\ Add(a, b) = LET t == Modulus - r
                         res == WordSub(a, t)
                     IN  IF t > a THEN WordAdd(res, Modulus) ELSE res
      /\ Subtract(a, b) = IF a < r THEN Modulus - (r - a) ELSE a - r
  BY DEF Add, Subtract
<1> HIDE DEF r
<1>3. Add(a, b) = IF a + r < Modulus THEN a + r ELSE a + r - Modulus
  BY <1>1, <1>2, ModulusAssumption DEF SeqNum, WordSub, WordAdd
<1>4. Subtract(a, b) = IF a < r THEN a - r + Modulus ELSE a - r
  BY <1>1, <1>2, ModulusAssumption DEF SeqNum
<1> QED BY <1>3, <1>4 DEF r

(* Of two different numbers exactly one is ahead, and at the maximum       *)
(* distance it is the higher one.                                          *)
LEMMA AheadIsDecided ==
    ASSUME NEW a \in SeqNum, NEW b \in SeqNum, a # b
    PROVE  /\ AheadOf(a, b) # AheadOf(b, a)
           /\ 2 * MinDiff(a, b) = Modulus => (AheadOf(a, b) <=> a > b)
<1> USE ModulusAssumption DEF SeqNum
<1>1. CASE Explicit
  BY <1>1 DEF AheadOf, AheadOrAt, MinDiff, ForwardDiff, ReverseDiff, maxDist
<1>2. CASE ~ Explicit
  BY <1>2 DEF AheadOf, AheadOrAt, MinDiff, ForwardDiff, ReverseDiff, WrapSub, Sub, maxDist
<1> QED BY <1>1, <1>2

-----------------------------------------------------------------------------
(***************************************************************************)
(* SeqNumUnwrapper.                                                        *)
(***************************************************************************)

(* A move by any step keeps the number equal to the position modulo M. *)
LEMMA MovedIsModular ==
    ASSUME NEW p \in Int, NEW step \in Int
    PROVE  Moved(p % Modulus, step) = (p + step) % Modulus
<1> DEFINE n == p % Modulus
<1>1. n \in SeqNum
  BY ModParts
<1>2. PICK q \in Int : p = Modulus * q + n
  BY ModParts
<1> HIDE DEF n
<1>3. CASE step >= 0
  <2> DEFINE r == step % Modulus
  <2>1. r \in SeqNum
    BY ModParts
  <2>2. PICK k \in Int : step = Modulus * k + r
    BY ModParts
  <2>3. Moved(n, step) = IF n + r < Modulus THEN n + r ELSE n + r - Modulus
    BY <1>1, <1>3, AddIsModular DEF Moved
  <2> HIDE DEF r
  <2>4. CASE n + r < Modulus
    <3>1. p + step = Modulus * (q + k) + (n + r) /\ n + r \in SeqNum
      BY <1>1, <1>2, <2>1, <2>2, <2>4, ModulusAssumption DEF SeqNum
    <3> QED BY <3>1, <2>3, <2>4, ModUnique DEF n
  <2>5. CASE n + r >= Modulus
    <3>1. p + step = Modulus * (q + k + 1) + (n + r - Modulus) /\ n + r - Modulus \in SeqNum
      BY <1>1, <1>2, <2>1, <2>2, <2>5, ModulusAssumption DEF SeqNum
    <3>2. Moved(n, step) = n + r - Modulus
      BY <1>1, <2>1, <2>3, <2>5, ModulusAssumption DEF SeqNum
    <3> QED BY <3>1, <3>2, <2>3, <2>5, ModUnique DEF n
  <2> QED BY <1>1, <2>1, <2>4, <2>5, ModulusAssumption DEF SeqNum, n
<1>4. CASE step < 0
  <2> DEFINE r == (- step) % Modulus
  <2>0. - step \in Nat
    BY <1>4
  <2>1. r \in SeqNum
    BY ModParts, <2>0
  <2>2. PICK k \in Int : - step = Modulus * k + r
    BY ModParts, <2>0
  <2>3. Moved(n, step) = IF n < r THEN n - r + Modulus ELSE n - r
    BY <1>1, <1>4, <2>0, AddIsModular DEF Moved
  <2> HIDE DEF r
  <2>4. CASE n < r
    <3>1. p + step = Modulus * (q - k - 1) + (n - r + Modulus) /\ n - r + Modulus \in SeqNum
      BY <1>1, <1>2, <2>1, <2>2, <2>4, ModulusAssumption DEF SeqNum
    <3> QED BY <3>1, <2>3, <2>4, ModUnique DEF n
  <2>5. CASE n >= r
    <3>1. p + step = Modulus * (q - k) + (n - r) /\ n - r \in SeqNum
      BY <1>1, <1>2, <2>1, <2>2, <2>5, ModulusAssumption DEF SeqNum
    <3>2. Moved(n, step) = n - r
      BY <1>1, <2>1, <2>3, <2>5, ModulusAssumption DEF SeqNum
    <3> QED BY <3>1, <3>2, <2>3, <2>5, ModUnique DEF n
  <2> QED BY <1>1, <2>1, <2>4, <2>5, ModulusAssumption DEF SeqNum, n
<1> QED BY <1>3, <1>4

(* A step of less than half of the modulus wraps at most once. *)
LEMMA MovedNear ==
    ASSUME NEW n \in SeqNum, NEW step \in Int, Near(step)
    PROVE  /\ Moved(n, step) \in SeqNum
           /\ Moved(n, step) \in {n + step, n + step - Modulus, n + step + Modulus}
<1>1. CASE step >= 0
  <2>1. step % Modulus = step
    <3>1. step = Modulus * 0 + step /\ step \in SeqNum
      BY <1>1, ModulusAssumption DEF Near, SeqNum
    <3> QED BY <3>1, ModUnique
  <2>2. Moved(n, step) = IF n + step < Modulus THEN n + step ELSE n + step - Modulus
    BY <1>1, <2>1, AddIsModular DEF Moved
  <2> QED BY <1>1, <2>2, ModulusAssumption DEF Near, SeqNum
<1>2. CASE step < 0
  <2>1. (- step) % Modulus = - step
    <3>1. - step = Modulus * 0 + (- step) /\ - step \in SeqNum
      BY <1>2, ModulusAssumption DEF Near, SeqNum
    <3> QED BY <3>1, ModUnique
  <2>2. Moved(n, step) = IF n < - step THEN n - (- step) + Modulus ELSE n - (- step)
    BY <1>2, <2>1, AddIsModular DEF Moved
  <2> QED BY <1>2, <2>2, ModulusAssumption DEF Near, SeqNum
<1> QED BY <1>1, <1>2

(* The increment Unwrap computes for such a step is the step itself. *)
LEMMA UnwrapIncrement ==
    ASSUME NEW a \in SeqNum, NEW b \in SeqNum, NEW step \in Int, Near(step),
           b \in {a + step, a + step - Modulus, a + step + Modulus}
    PROVE  ForwardDiff(a, b) - (IF AheadOrAt(b, a) THEN 0 ELSE Modulus) = step
<1> USE ModulusAssumption DEF SeqNum, Near
<1>1. ForwardDiff(a, b) = IF a <= b THEN b - a ELSE b - a + Modulus
  BY DEF ForwardDiff, WrapSub
<1>2. AheadOrAt(b, a) <=> step >= 0
  <2>1. CASE Explicit
    BY <2>1 DEF AheadOrAt, MinDiff, ForwardDiff, ReverseDiff, maxDist
  <2>2. CASE ~ Explicit
    BY <2>2 DEF AheadOrAt, ForwardDiff, WrapSub, Sub, maxDist
  <2> QED BY <2>1, <2>2
<1> QED BY <1>1, <1>2

-----------------------------------------------------------------------------
(* The unwrapper remembers the number received last: with this the other   *)
(* properties are inductive.                                               *)
UnwrapInv ==
    /\ SeqTypeOK
    /\ NumberIsModular
    /\ UnwrapFollowsPosition
    /\ started => last_value_ = number

(* UnwrapInv holds in every reachable state: whatever order the numbers    *)
(* are received in, Unwrap, Add and Subtract keep it.                      *)
THEOREM UnwrapInvariance == SeqSpec => []UnwrapInv
<1>1. SeqInit => UnwrapInv
  <2> SUFFICES ASSUME SeqInit PROVE UnwrapInv
    OBVIOUS
  <2>1. SeqTypeOK /\ ~ started
    <3>1. 0 \in SeqNum /\ SeqNum \subseteq Int
      BY ModulusAssumption DEF SeqNum
    <3> QED BY Zenon, <3>1 DEF SeqInit, SeqTypeOK
  <2>2. number = position % Modulus
    <3>1. position \in Int /\ position \in SeqNum /\ position = Modulus * 0 + position
      BY ModulusAssumption DEF SeqInit, SeqNum
    <3> QED BY <3>1, ModUnique DEF SeqInit
  <2> QED BY <2>1, <2>2 DEF UnwrapInv, NumberIsModular, UnwrapFollowsPosition
<1>2. UnwrapInv /\ [SeqNext]_seqVars => UnwrapInv'
  <2> SUFFICES ASSUME UnwrapInv, [SeqNext]_seqVars PROVE UnwrapInv'
    OBVIOUS
  <2> USE DEF UnwrapInv
  <2>1. ASSUME NEW step \in Int, position' = position + step, number' = Moved(number, step)
        PROVE  /\ position' \in Int /\ number' \in SeqNum
               /\ NumberIsModular'
    <3>1. position' \in Int /\ number' = position' % Modulus
      BY <2>1, MovedIsModular DEF SeqTypeOK, NumberIsModular
    <3>2. position' % Modulus \in SeqNum
      BY <3>1, ModParts
    <3> QED BY <3>1, <3>2 DEF NumberIsModular
  <2>2. ASSUME NEW step \in Int, Receive(step) PROVE UnwrapInv'
    <3>1. position' \in Int /\ number' \in SeqNum /\ NumberIsModular'
      BY <2>1, <2>2 DEF Receive
    <3>2. last_value_' = number' /\ started' /\ started' \in BOOLEAN
      BY <2>2 DEF Receive, Unwrap
    <3>3. CASE ~ started
      <4>1. last_unwrapped_' = number' /\ origin' = position' - number'
        BY <2>2, <3>3 DEF Receive, Unwrap
      <4>2. number' \in Int /\ origin' \in Int
        BY <3>1, <4>1, ModulusAssumption DEF SeqNum
      <4>3. SeqTypeOK'
        BY <3>1, <3>2, <4>1, <4>2 DEF SeqTypeOK
      <4>4. number' = position' - (position' - number')
        <5>1. \A x, y \in Int : y = x - (x - y)
          OBVIOUS
        <5> QED BY ONLY Zenon, <3>1, <4>2, <5>1
      <4>5. UnwrapFollowsPosition'
        BY <4>1, <4>4 DEF UnwrapFollowsPosition
      <4> QED BY <3>1, <3>2, <4>3, <4>5
    <3>4. CASE started
      <4>1. number' \in {number + step, number + step - Modulus, number + step + Modulus}
        BY <2>2, MovedNear DEF Receive, SeqTypeOK
      <4>2. ForwardDiff(number, number') - (IF AheadOrAt(number', number) THEN 0 ELSE Modulus)
               = step
        BY <2>2, <3>1, <4>1, UnwrapIncrement DEF Receive, SeqTypeOK
      <4>3. last_unwrapped_' = last_unwrapped_ + ForwardDiff(number, number')
               - (IF AheadOrAt(number', number) THEN 0 ELSE Modulus)
        BY <2>2, <3>4 DEF Receive, Unwrap
      <4>4. ForwardDiff(number, number') \in Int
        BY <3>1, ModulusAssumption DEF ForwardDiff, WrapSub, SeqTypeOK, SeqNum
      <4>5. last_unwrapped_' = last_unwrapped_ + step
        BY <4>2, <4>3, <4>4, ModulusAssumption DEF SeqTypeOK
      <4>6. origin' = origin /\ position' = position + step
        BY <2>2, <3>4 DEF Receive
      <4>7. SeqTypeOK'
        BY <3>1, <3>2, <4>5, <4>6 DEF SeqTypeOK
      <4>8. UnwrapFollowsPosition'
        BY <3>4, <4>5, <4>6 DEF SeqTypeOK, UnwrapFollowsPosition
      <4> QED BY <3>1, <3>2, <4>7, <4>8
    <3> QED BY <3>3, <3>4
  <2>3. ASSUME NEW step \in Int, Restart(step) PROVE UnwrapInv'
    <3>1. position' \in Int /\ number' \in SeqNum /\ NumberIsModular'
      BY <2>1, <2>3 DEF Restart
    <3>2. last_value_' = 0 /\ last_unwrapped_' = 0 /\ started' = FALSE /\ origin' = origin
      BY <2>3 DEF Restart
    <3>3. 0 \in SeqNum
      BY ModulusAssumption DEF SeqNum
    <3>4. started' \in BOOLEAN
      BY Zenon, <3>2
    <3>5. SeqTypeOK'
      BY <3>1, <3>2, <3>3, <3>4 DEF SeqTypeOK
    <3> QED BY <3>1, <3>2, <3>5 DEF UnwrapFollowsPosition
  <2>4. CASE UNCHANGED seqVars
    BY <2>4 DEF seqVars, SeqTypeOK, NumberIsModular, UnwrapFollowsPosition
  <2>5. ASSUME NEW step \in -(2 * MaxPosition)..(2 * MaxPosition) PROVE step \in Int
    BY PositionAssumption
  <2> QED BY <2>2, <2>3, <2>4, <2>5 DEF SeqNext
<1> QED BY <1>1, <1>2, PTL DEF SeqSpec

(* For every modulus, below any machine word, the number kept with Add and *)
(* Subtract is the position modulo M.                                      *)
THEOREM NumbersStayModular == SeqSpec => []NumberIsModular
<1>1. UnwrapInv => NumberIsModular
  BY DEF UnwrapInv
<1> QED BY <1>1, UnwrapInvariance, PTL

(* For every modulus, even or odd, given as M or by the width of the type, *)
(* Unwrap follows the stream however often it wraps.                       *)
THEOREM UnwrapIsExact == SeqSpec => []UnwrapFollowsPosition
<1>1. UnwrapInv => UnwrapFollowsPosition
  BY DEF UnwrapInv
<1> QED BY <1>1, UnwrapInvariance, PTL

(* AheadOf decides every pair of different numbers, for every modulus. *)
THEOREM AheadOfIsTotal == SeqSpec => []ExactlyOneAhead
<1>1. UnwrapInv => ExactlyOneAhead
  BY AheadIsDecided DEF UnwrapInv, SeqTypeOK, ExactlyOneAhead
<1> QED BY <1>1, UnwrapInvariance, PTL

-----------------------------------------------------------------------------
(***************************************************************************)
(* Unwrapper.                                                              *)
(***************************************************************************)

(* Unwrapper is instantiated with types only, so the modulus is even. *)
EvenModulus == Modulus = 2 * (Modulus \div 2)

(* A number that is a small step away from another one differs from it by  *)
(* the step, up to one wrap.                                               *)
LEMMA RemainderStep ==
    ASSUME NEW x \in Int, NEW step \in Int, Near(step)
    PROVE  (x + step) % Modulus \in
              {(x % Modulus) + step, (x % Modulus) + step - Modulus, (x % Modulus) + step + Modulus}
<1> DEFINE r == x % Modulus
<1>1. r \in SeqNum
  BY ModParts
<1>2. PICK q \in Int : x = Modulus * q + r
  BY ModParts
<1> HIDE DEF r
<1>3. CASE r + step \in SeqNum
  <2>1. x + step = Modulus * q + (r + step)
    BY <1>1, <1>2, ModulusAssumption DEF SeqNum
  <2> QED BY <2>1, <1>3, ModUnique DEF r
<1>4. CASE r + step < 0
  <2>1. x + step = Modulus * (q - 1) + (r + step + Modulus) /\ r + step + Modulus \in SeqNum
    BY <1>1, <1>2, <1>4, ModulusAssumption DEF SeqNum, Near
  <2> QED BY <2>1, ModUnique DEF r
<1>5. CASE r + step >= Modulus
  <2>1. x + step = Modulus * (q + 1) + (r + step - Modulus) /\ r + step - Modulus \in SeqNum
    BY <1>1, <1>2, <1>5, ModulusAssumption DEF SeqNum, Near
  <2> QED BY <2>1, ModUnique DEF r
<1>6. r + step \in SeqNum \/ r + step < 0 \/ r + step >= Modulus
  BY <1>1, ModulusAssumption DEF SeqNum
<1> QED BY <1>3, <1>4, <1>5, <1>6

(* What UnwrapWithoutUpdate returns for a number that is a small step      *)
(* away: the step is made, unless the value would become negative, and     *)
(* then it is one modulus more.                                            *)
LEMMA UnwrapStep ==
    ASSUME EvenModulus, NEW value \in SeqNum, NEW step \in Int, Near(step),
           begun, last_unwrap_ \in Nat,
           value \in {CroppedLast + step, CroppedLast + step - Modulus,
                      CroppedLast + step + Modulus}
    PROVE  UnwrapWithoutUpdate(value) = IF last_unwrap_ + step >= 0 THEN last_unwrap_ + step
                                        ELSE last_unwrap_ + step + Modulus
<1> DEFINE c == CroppedLast
           delta == Sub(value, c)
<1>1. c \in SeqNum
  BY ModParts DEF CroppedLast
<1>2. c <= last_unwrap_
  <2>1. PICK q \in Int : last_unwrap_ = Modulus * q + c
    BY ModParts DEF CroppedLast
  <2>2. q >= 0
    <3>1. CASE q <= -1
      <4>1. Modulus * q <= - Modulus
        BY <3>1, ModulusAssumption
      <4> QED BY <4>1, <2>1, <1>1, ModulusAssumption DEF SeqNum
    <3> QED BY <3>1
  <2>3. Modulus * q >= 0
    BY <2>2, ModulusAssumption
  <2> QED BY <2>1, <2>3, <1>1, ModulusAssumption DEF SeqNum
<1>3. UnwrapWithoutUpdate(value) =
        last_unwrap_ + (IF IsNewer(value, c)
                       THEN IF delta < 0 THEN delta + Modulus ELSE delta
                       ELSE IF delta > 0 /\ last_unwrap_ + delta - Modulus >= 0
                            THEN delta - Modulus ELSE delta)
  BY DEF UnwrapWithoutUpdate, kMaxPlusOne
<1>4. value \in {c + step, c + step - Modulus, c + step + Modulus}
  OBVIOUS
<1> HIDE DEF c
<1> USE ModulusAssumption DEF SeqNum, Near, EvenModulus
<1>5. IsNewer(value, c) <=> step > 0
  BY <1>1, <1>4 DEF IsNewer, Sub, WrapSub
<1>6. CASE step > 0
  <2>1. delta = step \/ delta = step - Modulus
    BY <1>1, <1>4, <1>6 DEF Sub, WrapSub
  <2> HIDE DEF delta
  <2> QED BY <1>3, <1>5, <1>6, <2>1
<1>7. CASE step = 0
  <2>1. delta = 0
    BY <1>1, <1>4, <1>7 DEF Sub, WrapSub
  <2> HIDE DEF delta
  <2> QED BY <1>3, <1>5, <1>7, <2>1
<1>8. CASE step < 0
  <2>1. delta = step + Modulus \/ (delta = step /\ c + step >= 0)
    BY <1>1, <1>4, <1>8 DEF Sub, WrapSub
  <2> HIDE DEF delta
  <2>2. CASE delta = step + Modulus
    BY <1>3, <1>5, <1>8, <2>2
  <2>3. CASE delta = step /\ c + step >= 0
    BY <1>1, <1>2, <1>3, <1>5, <1>8, <2>3
  <2> QED BY <2>1, <2>2, <2>3
<1> QED BY <1>6, <1>7, <1>8

(* Floors is the least number of moduli that lifts the depth to zero. *)
LEMMA FloorsParts ==
    ASSUME NEW depth \in Int
    PROVE  /\ Floors(depth) \in Nat
           /\ Modulus * Floors(depth) >= depth
           /\ Floors(depth) = 0 \/ Modulus * Floors(depth) < depth + Modulus
<1>1. CASE depth <= 0
  BY <1>1, ModulusAssumption DEF Floors
<1>2. CASE depth > 0
  <2> DEFINE x == depth + Modulus - 1
             q == x \div Modulus
  <2>1. x \in Int /\ x >= Modulus
    BY <1>2, ModulusAssumption
  <2>2. q \in Int /\ x % Modulus \in 0..(Modulus - 1) /\ x = Modulus * q + (x % Modulus)
    BY <2>1, ModulusAssumption
  <2>3. Floors(depth) = q
    BY <1>2 DEF Floors
  <2>4. x = depth + Modulus - 1
    OBVIOUS
  <2> DEFINE r == x % Modulus
  <2>5. r \in 0..(Modulus - 1) /\ x = Modulus * q + r
    BY <2>2
  <2> HIDE DEF x, q, r
  <2>6. Modulus * q >= depth /\ Modulus * q < depth + Modulus
    BY <2>2, <2>4, <2>5, ModulusAssumption
  <2>7. q >= 0
    <3>1. CASE q <= -1
      <4>1. Modulus * q <= - Modulus
        BY <2>2, <3>1, ModulusAssumption
      <4> QED BY <1>2, <2>2, <2>6, <4>1, ModulusAssumption
    <3> QED BY <2>2, <3>1
  <2> QED BY <2>2, <2>3, <2>6, <2>7
<1> QED BY <1>1, <1>2

LEMMA FloorsUnique ==
    ASSUME NEW depth \in Int, NEW f \in Nat, Modulus * f >= depth,
           f = 0 \/ Modulus * f < depth + Modulus
    PROVE  Floors(depth) = f
<1>1. CASE depth <= 0
  <2>1. f = 0
    <3>1. CASE f >= 1
      <4>1. Modulus * f >= Modulus
        BY <3>1, ModulusAssumption
      <4> QED BY <1>1, <3>1, <4>1, ModulusAssumption
    <3> QED BY <3>1
  <2> QED BY <1>1, <2>1 DEF Floors
<1>2. CASE depth > 0
  <2>1. f # 0
    BY <1>2, ModulusAssumption
  <2> DEFINE x == depth + Modulus - 1
             r == depth + Modulus - 1 - Modulus * f
  <2>2. Modulus * f \in Int
    BY ModulusAssumption
  <2>3. x \in Int /\ r \in SeqNum /\ x = Modulus * f + r
    BY <2>1, <2>2, ModulusAssumption DEF SeqNum
  <2>4. Floors(depth) = x \div Modulus
    BY <1>2 DEF Floors
  <2> HIDE DEF x, r
  <2> QED BY <2>3, <2>4, ModUnique
<1> QED BY <1>1, <1>2

-----------------------------------------------------------------------------
(* Once a number has been received, the base is a multiple of the          *)
(* modulus and the position was never below the lowest one: with this the  *)
(* properties are inductive.                                               *)
UnwrapperInv ==
    /\ UnwrapperTypeOK
    /\ NeverNegative
    /\ UnwrapperFollowsPosition
    /\ begun => lowest <= received
    /\ begun => \E o \in Int : base = Modulus * o

(* A number received by an unwrapper that has received one before. *)
LEMMA UnwrapNext ==
    ASSUME ~ Explicit, UnwrapperInv, begun, NEW step \in Int, UnwrapReceived(step)
    PROVE  UnwrapperInv'
<1> DEFINE f == Floors(base - lowest)
<1>1. /\ received \in Int /\ lowest \in Int /\ base \in Int /\ last_unwrap_ \in Nat
      /\ lowest <= received /\ Near(step)
  BY DEF UnwrapperInv, UnwrapperTypeOK, NeverNegative, UnwrapReceived
<1>2. PICK o \in Int : base = Modulus * o
  BY DEF UnwrapperInv
<1>3. /\ f \in Nat
      /\ Modulus * f >= base - lowest
      /\ f = 0 \/ Modulus * f < base - lowest + Modulus
  BY <1>1, FloorsParts
<1>4. last_unwrap_ = received - base + Modulus * f
  BY DEF UnwrapperInv, UnwrapperFollowsPosition
<1> HIDE DEF f
<1>5. /\ received' = received + step
      /\ lowest' = IF received' < lowest THEN received' ELSE lowest
      /\ base' = base
      /\ begun'
      /\ last_unwrap_' = UnwrapWithoutUpdate(received' % Modulus)
  BY DEF UnwrapReceived
<1>6. last_unwrap_ % Modulus = received % Modulus
  <2>1. PICK q \in Int : received = Modulus * q + (received % Modulus)
    BY <1>1, ModParts
  <2>2. received % Modulus \in SeqNum
    BY <1>1, ModParts
  <2> DEFINE r == received % Modulus
  <2>3. received = Modulus * q + r /\ r \in SeqNum
    BY <2>1, <2>2
  <2> HIDE DEF r
  <2>4. last_unwrap_ = Modulus * (q - o + f) + r
    BY <1>1, <1>2, <1>3, <1>4, <2>3, ModulusAssumption DEF SeqNum
  <2>5. last_unwrap_ \in Int /\ q - o + f \in Int
    BY <1>1, <1>3
  <2>6. last_unwrap_ % Modulus = r
    BY <2>3, <2>4, <2>5, ModUnique
  <2> QED BY <2>6 DEF r
<1>7. last_unwrap_' = IF last_unwrap_ + step >= 0 THEN last_unwrap_ + step
                     ELSE last_unwrap_ + step + Modulus
  <2>1. received' % Modulus \in SeqNum
    BY <1>1, <1>5, ModParts
  <2>2. received' % Modulus \in {CroppedLast + step, CroppedLast + step - Modulus,
                                 CroppedLast + step + Modulus}
    BY <1>1, <1>5, <1>6, RemainderStep DEF CroppedLast
  <2>3. EvenModulus
    BY ModulusAssumption DEF EvenModulus
  <2> QED BY <1>1, <1>5, <2>1, <2>2, <2>3, UnwrapStep
<1>8. Modulus * f \in Int /\ Modulus * (f + 1) = Modulus * f + Modulus
  BY <1>3, ModulusAssumption
<1>9. Floors(base' - lowest') = IF last_unwrap_ + step >= 0 THEN f ELSE f + 1
  <2>1. base' - lowest' \in Int
    BY <1>1, <1>5
  <2>2. CASE last_unwrap_ + step >= 0
    <3>1. /\ Modulus * f >= base' - lowest'
          /\ f = 0 \/ Modulus * f < base' - lowest' + Modulus
      BY <1>1, <1>3, <1>4, <1>5, <1>8, <2>2, ModulusAssumption
    <3> QED BY <1>3, <2>1, <2>2, <3>1, FloorsUnique
  <2>3. CASE last_unwrap_ + step < 0
    <3>1. lowest' = received + step
      BY <1>1, <1>3, <1>4, <1>5, <1>8, <2>3, ModulusAssumption
    <3>2. /\ Modulus * (f + 1) >= base' - lowest'
          /\ Modulus * (f + 1) < base' - lowest' + Modulus
      BY <1>1, <1>4, <1>5, <1>8, <2>3, <3>1, ModulusAssumption DEF Near
    <3>3. f + 1 \in Nat
      BY <1>3
    <3>4. Floors(base' - lowest') = f + 1
      BY <2>1, <3>2, <3>3, FloorsUnique
    <3> QED BY <1>1, <2>3, <3>4
  <2> QED BY <1>1, <2>2, <2>3
<1>10. UnwrapperTypeOK' /\ NeverNegative'
  BY <1>1, <1>5, <1>7, ModulusAssumption DEF UnwrapperTypeOK, NeverNegative, Near, UnwrapReceived
<1>11. UnwrapperFollowsPosition'
  BY <1>1, <1>4, <1>5, <1>7, <1>8, <1>9, ModulusAssumption DEF UnwrapperFollowsPosition
<1>12. lowest' <= received'
  BY <1>1, <1>5
<1> QED BY <1>2, <1>5, <1>10, <1>11, <1>12 DEF UnwrapperInv

(* The first number received by an unwrapper. *)
LEMMA UnwrapFirst ==
    ASSUME UnwrapperInv, ~ begun, NEW step \in Int, UnwrapReceived(step)
    PROVE  UnwrapperInv'
<1> DEFINE v == received' % Modulus
<1>1. /\ received' \in Int /\ lowest' = received' /\ base' = received' - v
      /\ last_unwrap_' = v /\ begun' = TRUE
  BY DEF UnwrapperInv, UnwrapperTypeOK, UnwrapReceived, UnwrapWithoutUpdate
<1>2. v \in SeqNum
  BY <1>1, ModParts
<1>3. PICK q \in Int : received' = Modulus * q + v
  BY <1>1, ModParts
<1>4. begun' \in BOOLEAN
  BY <1>1
<1> HIDE DEF v
<1>5. v \in Nat /\ v < Modulus
  BY <1>2, ModulusAssumption DEF SeqNum
<1>6. base' = Modulus * q /\ base' - lowest' = - v
  BY <1>1, <1>3, <1>5, ModulusAssumption
<1>7. base' \in Int
  BY <1>1, <1>5
<1>8. Floors(base' - lowest') = 0
  BY <1>5, <1>6 DEF Floors
<1>9. UnwrapperTypeOK' /\ NeverNegative' /\ lowest' <= received'
  BY <1>1, <1>4, <1>5, <1>7 DEF UnwrapperTypeOK, NeverNegative
<1>10. UnwrapperFollowsPosition'
  BY <1>1, <1>5, <1>8, ModulusAssumption DEF UnwrapperFollowsPosition
<1> QED BY <1>6, <1>9, <1>10 DEF UnwrapperInv

(* UnwrapperInv holds in every reachable state, for types narrower than int   *)
(* and for others.                                                         *)
THEOREM UnwrapperInvariance ==
    ASSUME ~ Explicit
    PROVE  UnwrapperSpec => []UnwrapperInv
<1>1. UnwrapperInit => UnwrapperInv
  <2> SUFFICES ASSUME UnwrapperInit PROVE UnwrapperInv
    OBVIOUS
  <2>1. SeqNum \subseteq Int
    BY ModulusAssumption DEF SeqNum
  <2>2. /\ received \in Int /\ lowest \in Int /\ base \in Int
        /\ last_unwrap_ \in Int /\ last_unwrap_ >= 0
    BY <2>1 DEF UnwrapperInit
  <2>3. begun \in BOOLEAN /\ ~ begun
    BY Zenon DEF UnwrapperInit
  <2>4. UnwrapperTypeOK /\ NeverNegative
    BY <2>2, <2>3 DEF UnwrapperTypeOK, NeverNegative
  <2> QED BY <2>3, <2>4 DEF UnwrapperInv, UnwrapperFollowsPosition
<1>2. UnwrapperInv /\ [UnwrapperNext]_unwrapperVars => UnwrapperInv'
  <2> SUFFICES ASSUME UnwrapperInv, [UnwrapperNext]_unwrapperVars PROVE UnwrapperInv'
    OBVIOUS
  <2>1. ASSUME NEW step \in (- Modulus)..Modulus, UnwrapReceived(step) PROVE UnwrapperInv'
    <3>1. step \in Int
      BY ModulusAssumption
    <3> QED BY <2>1, <3>1, UnwrapNext, UnwrapFirst
  <2>2. ASSUME NEW last_value \in 0..MaxPosition, UpdateLast(last_value) PROVE UnwrapperInv'
    <3>1. /\ last_unwrap_' = last_value /\ begun' = TRUE
          /\ received' = last_value /\ lowest' = last_value /\ base' = 0
      BY <2>2 DEF UpdateLast
    <3>2. last_value \in Nat /\ Floors(0 - last_value) = 0
      BY PositionAssumption DEF Floors
    <3>3. begun' \in BOOLEAN
      BY <3>1
    <3>4. UnwrapperTypeOK' /\ NeverNegative' /\ lowest' <= received'
      BY <3>1, <3>2, <3>3 DEF UnwrapperTypeOK, NeverNegative
    <3>5. UnwrapperFollowsPosition'
      BY <3>1, <3>2, ModulusAssumption DEF UnwrapperFollowsPosition
    <3>6. base' = Modulus * 0
      BY <3>1, ModulusAssumption
    <3> QED BY <3>4, <3>5, <3>6 DEF UnwrapperInv
  <2>3. CASE UNCHANGED unwrapperVars
    BY <2>3 DEF unwrapperVars, UnwrapperInv, UnwrapperTypeOK, NeverNegative, UnwrapperFollowsPosition
  <2> QED BY <2>1, <2>2, <2>3 DEF UnwrapperNext
<1> QED BY <1>1, <1>2, PTL DEF UnwrapperSpec

(* Unwrap never returns a negative value, for every width of the type. *)
THEOREM NeverUnwrappedBelowZero ==
    ASSUME ~ Explicit
    PROVE  UnwrapperSpec => []NeverNegative
<1>1. UnwrapperInv => NeverNegative
  BY DEF UnwrapperInv
<1> QED BY <1>1, UnwrapperInvariance, PTL

(* Unwrap follows the stream however often it wraps, and is one modulus    *)
(* too high for each time it would have become negative, for every width   *)
(* of the type.                                                            *)
THEOREM UnwrapIsExactAboveZero ==
    ASSUME ~ Explicit
    PROVE  UnwrapperSpec => []UnwrapperFollowsPosition
<1>1. UnwrapperInv => UnwrapperFollowsPosition
  BY DEF UnwrapperInv
<1> QED BY <1>1, UnwrapperInvariance, PTL
=============================================================================
