--------------------------- MODULE DifficultyProofs --------------------------
(***************************************************************************)
(* Facts about the difficulty rules, for every value of their constants:   *)
(* what a block needs, what it leaves behind, how the stored difficulty    *)
(* moves, and the median of the last timestamps.  The modules with proofs  *)
(* about a chain (DifficultyChainProofs), about nodes (NetworkProofs) and  *)
(* about the miner (MinerProofs) rest on them.                             *)
(***************************************************************************)
EXTENDS Difficulty, FiniteSetTheorems, WellFoundedInduction, TLAPS

(***************************************************************************)
(* Numbers.                                                                *)
(***************************************************************************)

\* The constants are natural numbers, and what is divided by is not 0.
LEMMA Constants_are_natural ==
  /\ TARGET_BLOCK_TIME_SECS \in Nat /\ RETARGET_INTERVAL \in Nat /\ RETARGET_INTERVAL > 0
  /\ EMERGENCY_STEP_SECS \in Nat /\ EMERGENCY_STEP_SECS > 0
  /\ FP_ONE \in Nat /\ FP_ONE > 0
  /\ FORK2_TAU_SECS \in Nat /\ FORK2_TAU_SECS > 0
  /\ EASING2_SECS_PER_BIT \in Nat /\ EASING2_SECS_PER_BIT > 0
  /\ MTP_WINDOW \in Nat /\ MTP_WINDOW > 0
  /\ MAX_DIFFICULTY_BITS \in Nat /\ EMERGENCY_ACTIVATION_HEIGHT \in Nat
  /\ EMERGENCY_GRACE_SECS \in Nat /\ EMERGENCY_MAX_DROP_BITS \in Nat
  /\ EMERGENCY_FLOOR_BITS \in Nat /\ FORK2_ACTIVATION_HEIGHT \in Nat
  /\ FORK2_MAX_BITS \in Nat /\ EASING2_ACTIVATION_HEIGHT \in Nat /\ EASING2_GRACE_SECS \in Nat
  /\ EMERGENCY_FLOOR_BITS <= FORK2_MAX_BITS
  BY PositiveAssumption, NaturalAssumption, OrderAssumption

\* The range of fixed-point difficulties is one.
LEMMA FixedPointRange ==
  FORK2_MIN_FP \in Nat /\ FORK2_MAX_FP \in Nat /\ FORK2_MIN_FP <= FORK2_MAX_FP
<1>1. \A a, b, c \in Nat : a <= b => a * c \in Nat /\ b * c \in Nat /\ a * c <= b * c
  OBVIOUS
<1> QED
  BY <1>1, Constants_are_natural DEF FORK2_MIN_FP, FORK2_MAX_FP

\* Division by a positive number keeps the order.
LEMMA DivisionMonotonic ==
  ASSUME NEW a \in Nat, NEW b \in Nat, a <= b, NEW d \in Nat, d > 0
  PROVE  a \div d \in Nat /\ b \div d \in Nat /\ a \div d <= b \div d
<1> DEFINE x == a \div d
<1>1. x \in Nat /\ d * x <= a
  OBVIOUS
<1> HIDE DEF x
<1>2. d * x <= b
  BY <1>1
<1>3. x <= b \div d /\ b \div d \in Nat
  BY <1>1, <1>2
<1> QED
  BY <1>1, <1>3 DEF x

\* Easing takes no more than there is, and a larger drop leaves less.
LEMMA EasedTo ==
  ASSUME NEW base \in Nat, NEW floor \in Nat, NEW drop \in Nat, NEW more \in Nat, drop <= more
  PROVE  /\ eased_to(base, drop, floor) \in 0 .. base
         /\ eased_to(base, more, floor) <= eased_to(base, drop, floor)
  BY DEF eased_to, greater, lesser

\* The drop of the emergency rule after its grace grows with the gap.
LEMMA EmergencyDrop ==
  ASSUME NEW g1 \in Int, NEW g2 \in Int, g1 <= g2, g1 > EMERGENCY_GRACE_SECS
  PROVE  /\ emergency_drop(g1) \in Nat /\ emergency_drop(g2) \in Nat
         /\ emergency_drop(g1) <= emergency_drop(g2)
<1> DEFINE d1 == (g1 - EMERGENCY_GRACE_SECS) \div EMERGENCY_STEP_SECS
           d2 == (g2 - EMERGENCY_GRACE_SECS) \div EMERGENCY_STEP_SECS
<1>1. /\ g1 - EMERGENCY_GRACE_SECS \in Nat /\ g2 - EMERGENCY_GRACE_SECS \in Nat
      /\ g1 - EMERGENCY_GRACE_SECS <= g2 - EMERGENCY_GRACE_SECS
  BY Constants_are_natural
<1>2. d1 \in Nat /\ d2 \in Nat /\ d1 <= d2
  BY <1>1, Constants_are_natural, DivisionMonotonic
<1> HIDE DEF d1, d2
<1>3. emergency_drop(g1) = lesser(d1 + 1, EMERGENCY_MAX_DROP_BITS)
      /\ emergency_drop(g2) = lesser(d2 + 1, EMERGENCY_MAX_DROP_BITS)
  BY DEF emergency_drop, d1, d2
<1> QED
  BY <1>2, <1>3, Constants_are_natural DEF lesser

\* The smooth easing's drop after its grace grows with the gap.
LEMMA SmoothDrop ==
  ASSUME NEW g1 \in Int, NEW g2 \in Int, g1 <= g2, g1 > EASING2_GRACE_SECS
  PROVE  LET drop(g) == lesser(((g - EASING2_GRACE_SECS) * FP_ONE) \div EASING2_SECS_PER_BIT,
                               EMERGENCY_MAX_DROP_BITS * FP_ONE)
         IN  drop(g1) \in Nat /\ drop(g2) \in Nat /\ drop(g1) <= drop(g2)
<1> DEFINE o1 == (g1 - EASING2_GRACE_SECS) * FP_ONE
           o2 == (g2 - EASING2_GRACE_SECS) * FP_ONE
           d1 == o1 \div EASING2_SECS_PER_BIT
           d2 == o2 \div EASING2_SECS_PER_BIT
           cap == EMERGENCY_MAX_DROP_BITS * FP_ONE
<1>1. \A a, b, c \in Nat : a <= b => a * c \in Nat /\ b * c \in Nat /\ a * c <= b * c
  OBVIOUS
<1>2. /\ g1 - EASING2_GRACE_SECS \in Nat /\ g2 - EASING2_GRACE_SECS \in Nat
      /\ g1 - EASING2_GRACE_SECS <= g2 - EASING2_GRACE_SECS
  BY Constants_are_natural
<1>3. o1 \in Nat /\ o2 \in Nat /\ o1 <= o2
  BY <1>1, <1>2, Constants_are_natural
<1> HIDE DEF o1, o2
<1>4. d1 \in Nat /\ d2 \in Nat /\ d1 <= d2
  BY <1>3, Constants_are_natural, DivisionMonotonic
<1>5. cap \in Nat
  BY Constants_are_natural
<1> HIDE DEF d1, d2, cap
<1>6. /\ lesser(d1, cap) \in Nat /\ lesser(d2, cap) \in Nat /\ lesser(d1, cap) <= lesser(d2, cap)
  BY <1>4, <1>5 DEF lesser
<1> QED
  BY <1>6 DEF d1, d2, o1, o2, cap

\* The order < on Nat.
Below == {ss \in Nat \X Nat : ss[1] < ss[2]}

\* The library's well-foundedness of < on Nat, as a set of pairs.
LEMMA BelowWellFounded == IsWellFoundedOn(Below, Nat)
BY NatLessThanWellFounded DEF OpToRel, Below

\* Induction over Nat in set form: every inductive set holds all of Nat.  The
\* library's rule takes an operator, which the provers cannot instantiate.
LEMMA NatSetInduction ==
  ASSUME NEW S, 0 \in S, \A n \in Nat : n \in S => n + 1 \in S
  PROVE  \A n \in Nat : n \in S
<1> DEFINE T == Nat \ S
<1>1. SUFFICES ASSUME T # {} PROVE FALSE
  OBVIOUS
<1>2. \E x \in T : \A y \in T : <<y, x>> \notin Below
  <2> HIDE DEF T
  <2>1. T \subseteq Nat
    BY DEF T
  <2> QED BY <1>1, <2>1, BelowWellFounded, WFMin
<1>3. PICK x \in T : \A y \in T : <<y, x>> \notin Below
  BY <1>2
<1>4. x # 0 /\ x \in Nat /\ x - 1 \in Nat /\ x - 1 < x
  OBVIOUS
<1>5. x - 1 \notin S
  BY <1>4
<1>6. <<x - 1, x>> \in Below
  BY <1>4 DEF Below
<1> QED BY <1>3, <1>4, <1>5, <1>6

(***************************************************************************)
(* The requirement of a block.                                             *)
(***************************************************************************)

\* The whole-bit rule never asks for more than its base, and less as the gap grows.
LEMMA EffectiveBits ==
  ASSUME NEW bits \in Nat, NEW h \in Nat, NEW g1 \in Int, NEW g2 \in Int, g1 <= g2
  PROVE  /\ effective_difficulty_bits(bits, h, g1) \in 0 .. bits
         /\ effective_difficulty_bits(bits, h, g2) \in 0 .. bits
         /\ effective_difficulty_bits(bits, h, g2) <= effective_difficulty_bits(bits, h, g1)
<1>1. CASE h < EMERGENCY_ACTIVATION_HEIGHT \/ g2 <= EMERGENCY_GRACE_SECS
  BY <1>1, Constants_are_natural DEF effective_difficulty_bits
<1>2. CASE ~ (h < EMERGENCY_ACTIVATION_HEIGHT) /\ g1 > EMERGENCY_GRACE_SECS
  <2>1. /\ emergency_drop(g1) \in Nat /\ emergency_drop(g2) \in Nat
        /\ emergency_drop(g1) <= emergency_drop(g2)
    BY <1>2, EmergencyDrop
  <2>2. /\ effective_difficulty_bits(bits, h, g1) = eased_to(bits, emergency_drop(g1), EMERGENCY_FLOOR_BITS)
        /\ effective_difficulty_bits(bits, h, g2) = eased_to(bits, emergency_drop(g2), EMERGENCY_FLOOR_BITS)
    BY <1>2, Constants_are_natural DEF effective_difficulty_bits
  <2> QED
    BY <2>1, <2>2, EasedTo, Constants_are_natural
<1>3. CASE /\ ~ (h < EMERGENCY_ACTIVATION_HEIGHT)
           /\ g1 <= EMERGENCY_GRACE_SECS /\ g2 > EMERGENCY_GRACE_SECS
  <2>1. emergency_drop(g2) \in Nat
    BY <1>3, EmergencyDrop
  <2>2. /\ effective_difficulty_bits(bits, h, g1) = bits
        /\ effective_difficulty_bits(bits, h, g2) = eased_to(bits, emergency_drop(g2), EMERGENCY_FLOOR_BITS)
    BY <1>3, Constants_are_natural DEF effective_difficulty_bits
  <2> QED
    BY <2>1, <2>2, EasedTo, Constants_are_natural
<1> QED
  BY <1>1, <1>2, <1>3, Constants_are_natural

\* So does the smooth easing of Fork 2.
LEMMA EasedFine ==
  ASSUME NEW base \in Nat, NEW g1 \in Int, NEW g2 \in Int, g1 <= g2
  PROVE  /\ eased_fine(base, g1) \in 0 .. base /\ eased_fine(base, g2) \in 0 .. base
         /\ eased_fine(base, g2) <= eased_fine(base, g1)
<1> DEFINE drop(g) == lesser(((g - EASING2_GRACE_SECS) * FP_ONE) \div EASING2_SECS_PER_BIT,
                             EMERGENCY_MAX_DROP_BITS * FP_ONE)
<1>0. FORK2_MIN_FP \in Nat
  BY FixedPointRange
<1>1. \A g \in Int : eased_fine(base, g) =
        IF g <= EASING2_GRACE_SECS THEN base ELSE eased_to(base, drop(g), FORK2_MIN_FP)
  BY DEF eased_fine
<1>2. \A g, f \in Int : g <= f /\ g > EASING2_GRACE_SECS =>
        drop(g) \in Nat /\ drop(f) \in Nat /\ drop(g) <= drop(f)
  BY SmoothDrop
<1> HIDE DEF drop
<1>3. CASE g2 <= EASING2_GRACE_SECS
  BY <1>1, <1>3, Constants_are_natural
<1>4. CASE g1 > EASING2_GRACE_SECS
  <2>1. drop(g1) \in Nat /\ drop(g2) \in Nat /\ drop(g1) <= drop(g2)
    BY <1>2, <1>4
  <2>2. /\ eased_fine(base, g1) = eased_to(base, drop(g1), FORK2_MIN_FP)
        /\ eased_fine(base, g2) = eased_to(base, drop(g2), FORK2_MIN_FP)
    BY <1>1, <1>4, Constants_are_natural
  <2> QED
    BY <1>0, <2>1, <2>2, EasedTo
<1>5. CASE g1 <= EASING2_GRACE_SECS /\ g2 > EASING2_GRACE_SECS
  <2>1. drop(g2) \in Nat
    BY <1>2, <1>5
  <2>2. eased_fine(base, g1) = base /\ eased_fine(base, g2) = eased_to(base, drop(g2), FORK2_MIN_FP)
    BY <1>1, <1>5, Constants_are_natural
  <2> QED
    BY <1>0, <2>1, <2>2, EasedTo
<1> QED
  BY <1>3, <1>4, <1>5, Constants_are_natural

\* A stored difficulty, as fixed point, is a natural number.
LEMMA ParentFine ==
  ASSUME NEW bits \in Nat, NEW h \in Nat
  PROVE  parent_fine(bits, h) \in Nat
<1>1. \A a, b \in Nat : a * b \in Nat
  OBVIOUS
<1> QED
  BY <1>1, Constants_are_natural DEF parent_fine

\* From Fork 2 on.
LEMMA RequiredFine ==
  ASSUME NEW bits \in Nat, NEW h \in Nat, NEW g1 \in Int, NEW g2 \in Int, g1 <= g2
  PROVE  /\ required_fine(bits, h, g1) \in Nat /\ required_fine(bits, h, g2) \in Nat
         /\ required_fine(bits, h, g2) <= required_fine(bits, h, g1)
<1> DEFINE base == parent_fine(bits, h)
           drop(g) == emergency_drop(g) * FP_ONE
<1>1. base \in Nat /\ FORK2_MIN_FP \in Nat
  BY ParentFine, FixedPointRange
<1>2. \A a, b, c \in Nat : a <= b => a * c \in Nat /\ b * c \in Nat /\ a * c <= b * c
  OBVIOUS
<1>3. \A g, f \in Int : g <= f /\ g > EMERGENCY_GRACE_SECS =>
        drop(g) \in Nat /\ drop(f) \in Nat /\ drop(g) <= drop(f)
  BY <1>2, EmergencyDrop, Constants_are_natural
<1>4. \A g \in Int : required_fine(bits, h, g) =
        IF h >= EASING2_ACTIVATION_HEIGHT THEN eased_fine(base, g)
        ELSE IF g <= EMERGENCY_GRACE_SECS THEN base ELSE eased_to(base, drop(g), FORK2_MIN_FP)
  BY DEF required_fine
<1> HIDE DEF base, drop
<1>5. CASE h >= EASING2_ACTIVATION_HEIGHT
  BY <1>1, <1>4, <1>5, EasedFine
<1>6. CASE ~ (h >= EASING2_ACTIVATION_HEIGHT)
  <2>1. \A g \in Int : required_fine(bits, h, g) =
          IF g <= EMERGENCY_GRACE_SECS THEN base ELSE eased_to(base, drop(g), FORK2_MIN_FP)
    BY <1>4, <1>6
  <2>2. CASE g2 <= EMERGENCY_GRACE_SECS
    BY <1>1, <2>1, <2>2, Constants_are_natural
  <2>3. CASE g1 > EMERGENCY_GRACE_SECS
    <3>1. drop(g1) \in Nat /\ drop(g2) \in Nat /\ drop(g1) <= drop(g2)
      BY <1>3, <2>3
    <3>2. /\ required_fine(bits, h, g1) = eased_to(base, drop(g1), FORK2_MIN_FP)
          /\ required_fine(bits, h, g2) = eased_to(base, drop(g2), FORK2_MIN_FP)
      BY <2>1, <2>3, Constants_are_natural
    <3> QED
      BY <1>1, <3>1, <3>2, EasedTo
  <2>4. CASE g1 <= EMERGENCY_GRACE_SECS /\ g2 > EMERGENCY_GRACE_SECS
    <3>1. drop(g2) \in Nat
      BY <1>3, <2>4
    <3>2. /\ required_fine(bits, h, g1) = base
          /\ required_fine(bits, h, g2) = eased_to(base, drop(g2), FORK2_MIN_FP)
      BY <2>1, <2>4, Constants_are_natural
    <3> QED
      BY <1>1, <3>1, <3>2, EasedTo
  <2> QED
    BY <2>2, <2>3, <2>4, Constants_are_natural
<1> QED
  BY <1>5, <1>6

\* Under each rule: what a block needs is a natural number, and never grows with its
\* gap.
LEMMA Required ==
  ASSUME NEW bits \in Nat, NEW h \in Nat, NEW g1 \in Int, NEW g2 \in Int, g1 <= g2
  PROVE  /\ required(bits, h, g1) \in Nat /\ required(bits, h, g2) \in Nat
         /\ required(bits, h, g2) <= required(bits, h, g1)
<1>1. \A a, b, c \in Nat : a <= b => a * c \in Nat /\ b * c \in Nat /\ a * c <= b * c
  OBVIOUS
<1>2. /\ effective_difficulty_bits(bits, h, g1) \in Nat
      /\ effective_difficulty_bits(bits, h, g2) \in Nat
      /\ effective_difficulty_bits(bits, h, g2) <= effective_difficulty_bits(bits, h, g1)
  BY EffectiveBits
<1>3. /\ required_fine(bits, h, g1) \in Nat /\ required_fine(bits, h, g2) \in Nat
      /\ required_fine(bits, h, g2) <= required_fine(bits, h, g1)
  BY RequiredFine
<1>4. FP_ONE \in Nat
  BY Constants_are_natural
<1> QED
  BY <1>1, <1>2, <1>3, <1>4 DEF required

\* Rounding up to whole bits asks for less than one bit too many.
LEMMA CeilBits ==
  ASSUME NEW fine \in Nat
  PROVE  fine <= ceil_bits(fine) * FP_ONE /\ ceil_bits(fine) * FP_ONE < fine + FP_ONE
<1> DEFINE x == fine + FP_ONE - 1
           q == x \div FP_ONE
<1>1. FP_ONE \in Nat /\ FP_ONE > 0 /\ x \in Nat
  BY Constants_are_natural
<1>2. q \in Nat /\ FP_ONE * q <= x /\ x < FP_ONE * (q + 1)
  <2> HIDE DEF x
  <2> QED
    BY <1>1
<1>3. ceil_bits(fine) = q
  BY <1>1 DEF ceil_bits
<1> HIDE DEF q
<1>4. FP_ONE * (q + 1) = q * FP_ONE + FP_ONE /\ FP_ONE * q = q * FP_ONE /\ q * FP_ONE \in Nat
  BY <1>1, <1>2
<1> QED
  BY <1>1, <1>2, <1>3, <1>4

\* Easing in bits and easing in fixed point are the same up to the factor.
LEMMA EasedInFixedPoint ==
  ASSUME NEW base \in Nat, NEW drop \in Nat, NEW floor \in Nat
  PROVE  eased_to(base * FP_ONE, drop * FP_ONE, floor * FP_ONE) = eased_to(base, drop, floor) * FP_ONE
<1>1. FP_ONE \in Nat /\ FP_ONE > 0
  BY Constants_are_natural
<1>2. \A a, b, c \in Nat : c > 0 => (a <= b <=> a * c <= b * c)
  OBVIOUS
<1>3. \A a, b, c \in Nat : a * c - b * c = (a - b) * c /\ a * c \in Nat /\ b * c \in Nat
  OBVIOUS
<1>4. /\ base * FP_ONE - drop * FP_ONE = (base - drop) * FP_ONE
      /\ floor <= base <=> floor * FP_ONE <= base * FP_ONE
      /\ drop <= base <=> drop * FP_ONE <= base * FP_ONE
      /\ base * FP_ONE \in Nat /\ drop * FP_ONE \in Nat /\ floor * FP_ONE \in Nat /\ 0 * FP_ONE = 0
  BY <1>1, <1>2, <1>3
<1>5. lesser(floor * FP_ONE, base * FP_ONE) = lesser(floor, base) * FP_ONE
  BY <1>4 DEF lesser
<1>6. greater(base * FP_ONE - drop * FP_ONE, 0) = greater(base - drop, 0) * FP_ONE
  BY <1>4 DEF greater
<1>7. greater(base - drop, 0) \in Nat /\ lesser(floor, base) \in Nat
  BY DEF greater, lesser
<1>8. \A a, b \in Nat : greater(a * FP_ONE, b * FP_ONE) = greater(a, b) * FP_ONE
  BY <1>1, <1>2 DEF greater
<1> QED
  BY <1>5, <1>6, <1>7, <1>8 DEF eased_to

\* From Fork 2's activation height on, a whole-bit difficulty is one of fixed point.
LEMMA AtTheSwitch ==
  ASSUME NEW bits \in Nat, NEW gap \in Int
  PROVE  required(bits, FORK2_ACTIVATION_HEIGHT, gap)
           = effective_difficulty_bits(bits, FORK2_ACTIVATION_HEIGHT, gap) * FP_ONE
<1>1. /\ FORK2_ACTIVATION_HEIGHT \in Nat /\ EMERGENCY_ACTIVATION_HEIGHT \in Nat
      /\ EASING2_ACTIVATION_HEIGHT \in Nat /\ EMERGENCY_GRACE_SECS \in Nat
      /\ EMERGENCY_ACTIVATION_HEIGHT <= FORK2_ACTIVATION_HEIGHT
      /\ FORK2_ACTIVATION_HEIGHT < EASING2_ACTIVATION_HEIGHT
  BY OrderAssumption, Constants_are_natural
<1>2. parent_fine(bits, FORK2_ACTIVATION_HEIGHT) = bits * FP_ONE
  BY <1>1 DEF parent_fine
<1>3. required(bits, FORK2_ACTIVATION_HEIGHT, gap) = required_fine(bits, FORK2_ACTIVATION_HEIGHT, gap)
  BY <1>1 DEF required, fork2_active
<1>4. required_fine(bits, FORK2_ACTIVATION_HEIGHT, gap)
        = IF gap <= EMERGENCY_GRACE_SECS THEN bits * FP_ONE
          ELSE eased_to(bits * FP_ONE, emergency_drop(gap) * FP_ONE, FORK2_MIN_FP)
  <2>1. ~ (FORK2_ACTIVATION_HEIGHT >= EASING2_ACTIVATION_HEIGHT)
    BY <1>1
  <2> QED
    BY <1>2, <2>1 DEF required_fine
<1>5. effective_difficulty_bits(bits, FORK2_ACTIVATION_HEIGHT, gap)
        = IF gap <= EMERGENCY_GRACE_SECS THEN bits
          ELSE eased_to(bits, emergency_drop(gap), EMERGENCY_FLOOR_BITS)
  BY <1>1 DEF effective_difficulty_bits
<1>6. CASE gap <= EMERGENCY_GRACE_SECS
  BY <1>3, <1>4, <1>5, <1>6
<1>7. CASE ~ (gap <= EMERGENCY_GRACE_SECS)
  <2>1. emergency_drop(gap) \in Nat
    <3>1. gap <= gap /\ gap > EMERGENCY_GRACE_SECS
      BY <1>1, <1>7
    <3> QED
      BY <3>1, EmergencyDrop
  <2>2. eased_to(bits * FP_ONE, emergency_drop(gap) * FP_ONE, EMERGENCY_FLOOR_BITS * FP_ONE)
          = eased_to(bits, emergency_drop(gap), EMERGENCY_FLOOR_BITS) * FP_ONE
    BY <2>1, EasedInFixedPoint, Constants_are_natural
  <2> QED
    BY <1>3, <1>4, <1>5, <1>7, <2>2 DEF FORK2_MIN_FP
<1> QED
  BY <1>6, <1>7

(***************************************************************************)
(* The difficulty a block leaves behind.                                   *)
(***************************************************************************)

\* Rust's division of integers.
LEMMA Quotient ==
  ASSUME NEW a \in Int, NEW b \in Nat, b > 0
  PROVE  quotient(a, b) \in Int
<1>1. CASE a >= 0
  BY <1>1 DEF quotient
<1>2. CASE a < 0
  <2>1. -a \in Nat
    BY <1>2
  <2>2. (-a) \div b \in Nat
    <3> DEFINE n == -a
    <3> HIDE DEF n
    <3>1. n \in Nat => n \div b \in Nat
      OBVIOUS
    <3> QED
      BY <2>1, <3>1 DEF n
  <2> QED
    BY <1>2, <2>2 DEF quotient
<1> QED
  BY <1>1, <1>2

\* A retarget moves by two bits at most.
LEMMA BitChange ==
  ASSUME NEW secs
  PROVE  bit_change(secs) \in -2 .. 2
<1> DEFINE t2 == (TARGET_BLOCK_TIME_SECS * RETARGET_INTERVAL) * (TARGET_BLOCK_TIME_SECS * RETARGET_INTERVAL)
           a2 == lesser(secs, 4 * (TARGET_BLOCK_TIME_SECS * RETARGET_INTERVAL))
                   * lesser(secs, 4 * (TARGET_BLOCK_TIME_SECS * RETARGET_INTERVAL))
<1>1. bit_change(secs) = CASE t2 >= 8 * a2 -> 2
                           [] t2 >= 2 * a2 /\ t2 < 8 * a2 -> 1
                           [] 2 * t2 >= a2 /\ t2 < 2 * a2 -> 0
                           [] 8 * t2 >= a2 /\ 2 * t2 < a2 -> -1
                           [] OTHER -> -2
  BY DEF bit_change
<1> HIDE DEF t2, a2
<1> QED
  BY <1>1

\* The step of the fixed-point rule, and the range it is held in.
LEMMA NextFine ==
  ASSUME NEW base \in Nat, NEW gap \in Int
  PROVE  /\ (TARGET_BLOCK_TIME_SECS - gap) * FP_ONE \in Int
         /\ quotient((TARGET_BLOCK_TIME_SECS - gap) * FP_ONE, FORK2_TAU_SECS) \in Int
         /\ next_fine(base, gap) \in FORK2_MIN_FP .. FORK2_MAX_FP
<1> DEFINE error == (TARGET_BLOCK_TIME_SECS - gap) * FP_ONE
           step == quotient(error, FORK2_TAU_SECS)
<1>1. error \in Int
  <2>1. \A a, b \in Int : a * b \in Int
    OBVIOUS
  <2> QED
    BY <2>1, Constants_are_natural
<1> HIDE DEF error
<1>2. step \in Int
  BY <1>1, Quotient, Constants_are_natural
<1> HIDE DEF step
<1>3. next_fine(base, gap) = clamp(base + step, FORK2_MIN_FP, FORK2_MAX_FP)
  BY DEF next_fine, step, error
<1>4. next_fine(base, gap) \in FORK2_MIN_FP .. FORK2_MAX_FP
  BY <1>2, <1>3, FixedPointRange DEF clamp, greater, lesser
<1> QED
  BY <1>1, <1>2, <1>4 DEF step, error

\* Whatever the stored difficulty, a block leaves one that is a natural number.
LEMMA DifficultyAfterIsNatural ==
  ASSUME NEW h \in Nat, NEW gap \in Int, NEW times, NEW bits \in Nat
  PROVE  difficulty_after(bits, h, gap, times) \in Nat
<1> DEFINE eff_bits == effective_difficulty_bits(bits, h, gap)
           change == bit_change(greater(times[h] - times[h - RETARGET_INTERVAL], 1))
<1>1. next_fine(parent_fine(bits, h), gap) \in Nat
  <2>1. next_fine(parent_fine(bits, h), gap) \in FORK2_MIN_FP .. FORK2_MAX_FP
    BY ParentFine, NextFine
  <2> QED
    BY <2>1, FixedPointRange
<1>2. eff_bits \in Nat
  <2>1. gap <= gap
    OBVIOUS
  <2> QED
    BY <2>1, EffectiveBits
<1>3. change \in -2 .. 2
  BY BitChange
<1> HIDE DEF eff_bits, change
<1>4. clamp(eff_bits + change, 0, MAX_DIFFICULTY_BITS) \in Nat
  BY <1>2, <1>3, Constants_are_natural DEF clamp, greater, lesser
<1>5. \/ difficulty_after(bits, h, gap, times) = next_fine(parent_fine(bits, h), gap)
      \/ difficulty_after(bits, h, gap, times) = clamp(eff_bits + change, 0, MAX_DIFFICULTY_BITS)
      \/ difficulty_after(bits, h, gap, times) = eff_bits
  BY DEF difficulty_after, retarget_difficulty, eff_bits, change
<1> QED
  BY <1>1, <1>2, <1>4, <1>5

\* What a block at height h leaves for the next is in the range of its rule.
LEMMA DifficultyAfter ==
  ASSUME NEW h \in Nat, NEW gap \in Int, NEW times \in [0 .. h -> Int], NEW bits \in Nat,
         fork2_active(h) \/ bits <= MAX_DIFFICULTY_BITS
  PROVE  difficulty_after(bits, h, gap, times)
           \in IF fork2_active(h) THEN FORK2_MIN_FP .. FORK2_MAX_FP ELSE 0 .. MAX_DIFFICULTY_BITS
<1> DEFINE eff_bits == effective_difficulty_bits(bits, h, gap)
           first_height == h - RETARGET_INTERVAL
<1>1. CASE fork2_active(h)
  <2>1. difficulty_after(bits, h, gap, times) = next_fine(parent_fine(bits, h), gap)
    BY <1>1 DEF difficulty_after
  <2> QED
    BY <1>1, <2>1, ParentFine, NextFine
<1>2. CASE ~ fork2_active(h)
  <2>1. eff_bits \in 0 .. MAX_DIFFICULTY_BITS
    <3>1. eff_bits \in 0 .. bits
      <4>1. gap <= gap
        OBVIOUS
      <4> QED
        BY <4>1, EffectiveBits
    <3> QED
      BY <1>2, <3>1, Constants_are_natural
  <2> HIDE DEF eff_bits
  <2>2. CASE h % RETARGET_INTERVAL = 0 /\ first_height > 0
    <3> DEFINE first == times[first_height]
               last == times[h]
               change == bit_change(greater(last - first, 1))
    <3>1. difficulty_after(bits, h, gap, times) = retarget_difficulty(eff_bits, first, last)
      BY <1>2, <2>2 DEF difficulty_after, eff_bits
    <3>2. change \in -2 .. 2
      BY BitChange
    <3> HIDE DEF change
    <3>3. retarget_difficulty(eff_bits, first, last) = clamp(eff_bits + change, 0, MAX_DIFFICULTY_BITS)
      BY DEF retarget_difficulty, change
    <3>4. clamp(eff_bits + change, 0, MAX_DIFFICULTY_BITS) \in 0 .. MAX_DIFFICULTY_BITS
      BY <2>1, <3>2, Constants_are_natural DEF clamp, greater, lesser
    <3> QED
      BY <1>2, <3>1, <3>3, <3>4
  <2>3. CASE ~ (h % RETARGET_INTERVAL = 0 /\ first_height > 0)
    <3>1. difficulty_after(bits, h, gap, times) = eff_bits
      BY <1>2, <2>3 DEF difficulty_after, eff_bits
    <3> QED
      BY <1>2, <2>1, <3>1
  <2> QED
    BY <2>2, <2>3
<1> QED
  BY <1>1, <1>2

(***************************************************************************)
(* The steps of the difficulty.                                            *)
(***************************************************************************)

\* Rounding toward zero leaves a remainder of the sign of what is divided.
LEMMA Remainder ==
  ASSUME NEW x \in Int, NEW t \in Nat, t > 0
  PROVE  /\ quotient(x, t) \in Int
         /\ x >= 0 => x - t * quotient(x, t) \in 0 .. t - 1
         /\ x < 0  => t * quotient(x, t) - x \in 0 .. t - 1
<1>1. \A n \in Nat : n \div t \in Nat /\ n - t * (n \div t) \in 0 .. t - 1
  <2>1. TAKE n \in Nat
  <2>2. n \div t \in Nat /\ t * (n \div t) <= n /\ n < t * ((n \div t) + 1)
    OBVIOUS
  <2>3. \A q \in Nat : t * (q + 1) = t * q + t /\ t * q \in Nat
    OBVIOUS
  <2> QED
    BY <2>2, <2>3
<1>2. CASE x >= 0
  <2>1. quotient(x, t) = x \div t /\ x \in Nat
    BY <1>2 DEF quotient
  <2> QED
    BY <1>1, <1>2, <2>1
<1>3. CASE x < 0
  <2> DEFINE n == -x
             q == n \div t
  <2>1. n \in Nat /\ x = -n
    BY <1>3
  <2>2. quotient(x, t) = -q
    BY <1>3 DEF quotient
  <2> HIDE DEF n
  <2>3. q \in Nat /\ n - t * q \in 0 .. t - 1
    BY <1>1, <2>1
  <2> HIDE DEF q
  <2>4. t * (-q) = -(t * q) /\ t * q \in Nat
    BY <2>3
  <2> QED
    BY <1>3, <2>1, <2>2, <2>3, <2>4
<1> QED
  BY <1>2, <1>3

\* Dividing a sum, or its parts, differs by one at most.
LEMMA QuotientOfSum ==
  ASSUME NEW x \in Int, NEW y \in Int, NEW t \in Nat, t > 0
  PROVE  quotient(x, t) + quotient(y, t) - quotient(x + y, t) \in -1 .. 1
<1> DEFINE p == quotient(x, t)
           q == quotient(y, t)
           r == quotient(x + y, t)
           d == p + q - r
<1>0. x + y \in Int
  OBVIOUS
<1>1. /\ p \in Int
      /\ x >= 0 => x - t * p \in 0 .. t - 1
      /\ x < 0  => t * p - x \in 0 .. t - 1
  BY Remainder
<1>2. /\ q \in Int
      /\ y >= 0 => y - t * q \in 0 .. t - 1
      /\ y < 0  => t * q - y \in 0 .. t - 1
  BY Remainder
<1>3. /\ r \in Int
      /\ x + y >= 0 => (x + y) - t * r \in 0 .. t - 1
      /\ x + y < 0  => t * r - (x + y) \in 0 .. t - 1
  BY <1>0, Remainder
<1> HIDE DEF p, q, r
<1>4. d \in Int /\ t * p \in Int /\ t * q \in Int /\ t * r \in Int
  BY <1>1, <1>2, <1>3
<1>5. t * d = t * p + t * q - t * r
  BY <1>1, <1>2, <1>3
<1> HIDE DEF d
<1>6. t * d < 2 * t /\ t * d > -(2 * t)
  BY <1>1, <1>2, <1>3, <1>4, <1>5
<1>7. \A c \in Int : (c >= 2 => t * c >= 2 * t) /\ (c <= -2 => t * c <= -(2 * t))
  OBVIOUS
<1>8. d < 2 /\ d > -2
  BY <1>4, <1>6, <1>7
<1>9. d \in -1 .. 1
  BY <1>4, <1>8
<1> QED
  BY <1>9 DEF d, p, q, r

\* A step that ends strictly inside the range was not clamped.
LEMMA Unclamped ==
  ASSUME NEW base \in Nat, NEW gap \in Int,
         next_fine(base, gap) \in FORK2_MIN_FP + 1 .. FORK2_MAX_FP - 1
  PROVE  next_fine(base, gap)
           = base + quotient((TARGET_BLOCK_TIME_SECS - gap) * FP_ONE, FORK2_TAU_SECS)
<1> DEFINE step == quotient((TARGET_BLOCK_TIME_SECS - gap) * FP_ONE, FORK2_TAU_SECS)
<1>1. step \in Int
  BY NextFine
<1>2. next_fine(base, gap) = clamp(base + step, FORK2_MIN_FP, FORK2_MAX_FP)
  BY DEF next_fine
<1> HIDE DEF step
<1>3. next_fine(base, gap) = base + step
  BY <1>1, <1>2, FixedPointRange DEF clamp, greater, lesser
<1> QED
  BY <1>3 DEF step

\* The time by which n blocks in secs seconds are ahead of their target, as fixed
\* point.
ahead(n, secs) == (n * TARGET_BLOCK_TIME_SECS - secs) * FP_ONE

\* How that grows with one block more.
LEMMA AheadOneMore ==
  ASSUME NEW n \in Nat, NEW secs \in Int, NEW gap \in Int
  PROVE  /\ ahead(n, secs) \in Int
         /\ (TARGET_BLOCK_TIME_SECS - gap) * FP_ONE \in Int
         /\ ahead(n + 1, secs + gap) = ahead(n, secs) + (TARGET_BLOCK_TIME_SECS - gap) * FP_ONE
<1> DEFINE T == TARGET_BLOCK_TIME_SECS
           x == n * T - secs
           y == T - gap
           z == (n + 1) * T - (secs + gap)
<1>1. T \in Nat /\ FP_ONE \in Nat
  BY Constants_are_natural
<1> HIDE DEF T
<1>2. n * T \in Nat /\ (n + 1) * T = n * T + T
  BY <1>1
<1>3. x \in Int /\ y \in Int /\ z = x + y
  BY <1>1, <1>2
<1>4. \A a, b, c \in Int : a * c \in Int /\ b * c \in Int /\ (a + b) * c = a * c + b * c
  OBVIOUS
<1> HIDE DEF x, y, z
<1>5. x * FP_ONE \in Int /\ y * FP_ONE \in Int /\ z * FP_ONE = x * FP_ONE + y * FP_ONE
  BY <1>1, <1>3, <1>4
<1> QED
  BY <1>5 DEF ahead, x, y, z, T

(***************************************************************************)
(* The median of the last timestamps.                                      *)
(***************************************************************************)

\* The heights of the window that ends at tip_height; those of W whose block sorts
\* before the one at h; and what median_time_past asks of a height.
window(tip_height) == greater(0, tip_height - (MTP_WINDOW - 1)) .. tip_height
earlier(W, times, h) == {g \in W : times[g] < times[h] \/ (times[g] = times[h] /\ g < h)}
IsMedian(W, times, h) ==
  h \in W /\ Cardinality(earlier(W, times, h)) = Cardinality(W) \div 2

\* The window is finite, is not empty, and moves by one block.
LEMMA Window ==
  ASSUME NEW tip \in Nat
  PROVE  /\ window(tip) \subseteq 0 .. tip /\ tip \in window(tip) /\ IsFiniteSet(window(tip))
         /\ Cardinality(window(tip)) \in Nat /\ Cardinality(window(tip)) > 0
         /\ window(tip + 1) \subseteq window(tip) \cup {tip + 1}
         /\ Cardinality(window(tip)) <= Cardinality(window(tip + 1))
<1> DEFINE low == greater(0, tip - (MTP_WINDOW - 1))
           next == greater(0, (tip + 1) - (MTP_WINDOW - 1))
<1>1. low \in 0 .. tip /\ next \in 0 .. tip + 1 /\ low <= next /\ next <= low + 1
  BY Constants_are_natural DEF greater
<1>2. window(tip) = low .. tip /\ window(tip + 1) = next .. tip + 1
  BY DEF window
<1> HIDE DEF low, next
<1>3. IsFiniteSet(window(tip)) /\ Cardinality(window(tip)) = tip - low + 1
      /\ Cardinality(window(tip + 1)) = tip + 1 - next + 1
  <2>1. IsFiniteSet(low .. tip) /\ Cardinality(low .. tip) = tip - low + 1
    BY <1>1, FS_Interval
  <2>2. tip + 1 \in Int /\ next \in Int /\ ~ (next > tip + 1)
    BY <1>1
  <2>3. Cardinality(next .. tip + 1) = tip + 1 - next + 1
    BY <2>2, FS_Interval
  <2> QED
    BY <1>2, <2>1, <2>3
<1>4. window(tip) \subseteq 0 .. tip /\ tip \in window(tip)
      /\ window(tip + 1) \subseteq window(tip) \cup {tip + 1}
  BY <1>1, <1>2
<1> QED
  BY <1>1, <1>3, <1>4

\* Heights of one window have different numbers of earlier ones.
LEMMA RanksDiffer ==
  ASSUME NEW W \in SUBSET Nat, IsFiniteSet(W), NEW times, \A g \in W : times[g] \in Int,
         NEW g \in W, NEW h \in W, g # h
  PROVE  Cardinality(earlier(W, times, g)) # Cardinality(earlier(W, times, h))
<1>1. ASSUME NEW x \in W, NEW y \in W, times[x] < times[y] \/ (times[x] = times[y] /\ x < y)
      PROVE  Cardinality(earlier(W, times, x)) # Cardinality(earlier(W, times, y))
  <2>1. times[x] \in Int /\ times[y] \in Int /\ x \in Nat /\ y \in Nat
    OBVIOUS
  <2>2. earlier(W, times, x) \subseteq earlier(W, times, y)
    <3> SUFFICES ASSUME NEW z \in W, times[z] < times[x] \/ (times[z] = times[x] /\ z < x)
                 PROVE  times[z] < times[y] \/ (times[z] = times[y] /\ z < y)
      BY DEF earlier
    <3>1. times[z] \in Int /\ z \in Nat
      OBVIOUS
    <3> QED
      BY <1>1, <2>1, <3>1
  <2>3. x \in earlier(W, times, y) /\ x \notin earlier(W, times, x)
    BY <1>1, <2>1 DEF earlier
  <2>4. IsFiniteSet(earlier(W, times, y))
    <3>1. earlier(W, times, y) \in SUBSET W
      BY DEF earlier
    <3> QED
      BY <3>1, FS_Subset
  <2> QED
    BY <2>2, <2>3, <2>4, FS_Subset
<1>2. times[g] \in Int /\ times[h] \in Int /\ g \in Nat /\ h \in Nat
  OBVIOUS
<1>3. \/ times[g] < times[h] \/ (times[g] = times[h] /\ g < h)
      \/ times[h] < times[g] \/ (times[h] = times[g] /\ h < g)
  BY <1>2
<1> QED
  BY <1>1, <1>3

\* A window has exactly one median: numbers of earlier heights are 0 .. |W| - 1.
LEMMA OneMedian ==
  ASSUME NEW W \in SUBSET Nat, IsFiniteSet(W), W # {}, NEW times, \A g \in W : times[g] \in Int
  PROVE  /\ \E h \in W : IsMedian(W, times, h)
         /\ \A g, h \in W : IsMedian(W, times, g) /\ IsMedian(W, times, h) => g = h
<1> DEFINE n == Cardinality(W)
           rank == [h \in W |-> Cardinality(earlier(W, times, h))]
<1>1. n \in Nat /\ n > 0
  BY FS_CardinalityType, FS_EmptySet
<1>2. \A h \in W : rank[h] \in 0 .. n - 1
  <2>1. TAKE h \in W
  <2>2. earlier(W, times, h) \in SUBSET W /\ h \notin earlier(W, times, h)
    <3>1. times[h] \in Int /\ h \in Nat
      OBVIOUS
    <3> QED
      BY <3>1 DEF earlier
  <2>3. /\ IsFiniteSet(earlier(W, times, h))
        /\ Cardinality(earlier(W, times, h)) <= n
        /\ Cardinality(earlier(W, times, h)) # n
    BY <2>2, FS_Subset
  <2>4. Cardinality(earlier(W, times, h)) \in Nat
    BY <2>3, FS_CardinalityType
  <2> HIDE DEF n
  <2> QED
    BY <1>1, <2>3, <2>4
<1>3. \A g, h \in W : rank[g] = rank[h] => g = h
  BY RanksDiffer
<1>4. rank \in Injection(W, 0 .. n - 1)
  <2>1. rank \in [W -> 0 .. n - 1]
    BY <1>2
  <2>2. DOMAIN rank = W
    OBVIOUS
  <2> HIDE DEF rank
  <2> QED
    BY <1>3, <2>1, <2>2 DEF Injection, IsInjective
<1>5. IsFiniteSet(0 .. n - 1) /\ Cardinality(0 .. n - 1) = n
  <2> HIDE DEF n
  <2>1. n - 1 \in Int /\ ~ (0 > n - 1) /\ n - 1 - 0 + 1 = n
    BY <1>1
  <2> QED
    BY <2>1, FS_Interval
<1> HIDE DEF rank
<1>6. rank \in Surjection(W, 0 .. n - 1)
  BY <1>4, <1>5, FS_Injection
<1>7. n \div 2 \in 0 .. n - 1
  <2> HIDE DEF n
  <2> QED
    BY <1>1
<1>8. \E h \in W : rank[h] = n \div 2
  BY <1>6, <1>7 DEF Surjection
<1>9. \A h \in W : IsMedian(W, times, h) <=> rank[h] = n \div 2
  BY DEF IsMedian, rank
<1> QED
  BY <1>3, <1>8, <1>9

\* The code's median is the timestamp of the window's one median.
LEMMA MedianTime ==
  ASSUME NEW tip \in Nat, NEW times, \A g \in 0 .. tip : times[g] \in Int
  PROVE  \E m \in window(tip) : IsMedian(window(tip), times, m) /\ median_time_past(tip, times) = times[m]
<1>1. /\ window(tip) \in SUBSET Nat /\ IsFiniteSet(window(tip)) /\ window(tip) # {}
      /\ \A g \in window(tip) : times[g] \in Int
  <2>1. window(tip) \subseteq 0 .. tip /\ tip \in window(tip) /\ IsFiniteSet(window(tip))
    BY Window
  <2>2. 0 .. tip \subseteq Nat
    OBVIOUS
  <2> QED
    BY <2>1, <2>2
<1>2. \E h \in window(tip) : IsMedian(window(tip), times, h)
  BY <1>1, OneMedian
<1> DEFINE m == CHOOSE h \in window(tip) :
                  Cardinality(earlier(window(tip), times, h)) = Cardinality(window(tip)) \div 2
<1>3. m \in window(tip) /\ IsMedian(window(tip), times, m)
  BY <1>2 DEF IsMedian
<1>4. median_time_past(tip, times) = times[m]
  BY DEF median_time_past, window, earlier
<1> QED
  BY <1>3, <1>4

\* It looks at no block above the tip.
LEMMA MedianTimeStable ==
  ASSUME NEW tip \in Nat, NEW times, NEW more, \A g \in 0 .. tip : times[g] \in Int /\ more[g] = times[g]
  PROVE  median_time_past(tip, more) = median_time_past(tip, times)
<1>1. /\ window(tip) \in SUBSET Nat /\ IsFiniteSet(window(tip)) /\ window(tip) # {}
      /\ \A g \in window(tip) : times[g] \in Int /\ more[g] = times[g]
  <2>1. window(tip) \subseteq 0 .. tip /\ tip \in window(tip) /\ IsFiniteSet(window(tip))
    BY Window
  <2>2. 0 .. tip \subseteq Nat
    OBVIOUS
  <2> QED
    BY <2>1, <2>2
<1>2. PICK m \in window(tip) : IsMedian(window(tip), times, m) /\ median_time_past(tip, times) = times[m]
  BY MedianTime
<1>3. PICK k \in window(tip) : IsMedian(window(tip), more, k) /\ median_time_past(tip, more) = more[k]
  <2>1. \A g \in 0 .. tip : more[g] \in Int
    OBVIOUS
  <2> QED
    BY <2>1, MedianTime
<1>4. earlier(window(tip), more, k) = earlier(window(tip), times, k)
  BY <1>1 DEF earlier
<1>5. IsMedian(window(tip), times, k)
  BY <1>3, <1>4 DEF IsMedian
<1>6. k = m
  BY <1>1, <1>2, <1>5, OneMedian
<1> QED
  BY <1>1, <1>2, <1>3, <1>6

\* A block later than the median of its predecessors does not lower the median: half of
\* the new window would have to be earlier than the old median, as more than half of the
\* old one would then be.
LEMMA MedianKept ==
  ASSUME NEW tip \in Nat, NEW times, \A g \in 0 .. tip + 1 : times[g] \in Int,
         times[tip + 1] > median_time_past(tip, times)
  PROVE  median_time_past(tip + 1, times) >= median_time_past(tip, times)
<1> DEFINE V == window(tip)
           W == window(tip + 1)
<1>0. tip + 1 \in Nat /\ 0 .. tip \subseteq 0 .. tip + 1
  OBVIOUS
<1>1. /\ V \subseteq 0 .. tip /\ IsFiniteSet(V) /\ W \subseteq V \cup {tip + 1}
      /\ Cardinality(V) \in Nat /\ Cardinality(V) <= Cardinality(W)
  BY Window
<1>2. W \subseteq 0 .. tip + 1 /\ IsFiniteSet(W) /\ Cardinality(W) \in Nat
  BY <1>0, Window
<1>3. PICK m \in V : IsMedian(V, times, m) /\ median_time_past(tip, times) = times[m]
  BY <1>0, MedianTime
<1>4. PICK k \in W : IsMedian(W, times, k) /\ median_time_past(tip + 1, times) = times[k]
  BY <1>0, MedianTime
<1> HIDE DEF V, W
<1>5. SUFFICES ASSUME times[k] < times[m] PROVE FALSE
  <2>1. times[k] \in Int /\ times[m] \in Int
    BY <1>0, <1>1, <1>2
  <2> QED
    BY <1>3, <1>4, <2>1
<1>6. earlier(W, times, k) \cup {k} \subseteq earlier(V, times, m)
  <2>1. \A g \in W : times[g] <= times[k] => g \in V /\ times[g] < times[m]
    <3>1. TAKE g \in W
    <3>2. times[g] \in Int /\ times[k] \in Int /\ times[m] \in Int
      BY <1>0, <1>1, <1>2
    <3> QED
      BY <1>1, <1>3, <1>5, <3>2
  <2>2. \A g \in earlier(W, times, k) \cup {k} : g \in W /\ times[g] <= times[k]
    <3>1. TAKE g \in earlier(W, times, k) \cup {k}
    <3>2. g \in W /\ times[g] \in Int /\ times[k] \in Int
      BY <1>2, <1>4 DEF earlier
    <3> QED
      BY <3>1, <3>2 DEF earlier
  <2> QED
    BY <2>1, <2>2 DEF earlier
<1>7. IsFiniteSet(earlier(W, times, k)) /\ k \notin earlier(W, times, k)
  <2>1. earlier(W, times, k) \in SUBSET W
    BY DEF earlier
  <2>2. times[k] \in Int /\ k \in Int
    BY <1>2, <1>4
  <2> QED
    BY <1>2, <2>1, <2>2, FS_Subset DEF earlier
<1>8. Cardinality(earlier(W, times, k) \cup {k}) = Cardinality(earlier(W, times, k)) + 1
  BY <1>7, FS_AddElement
<1>9. IsFiniteSet(earlier(V, times, m))
  <2>1. earlier(V, times, m) \in SUBSET V
    BY DEF earlier
  <2> QED
    BY <1>1, <2>1, FS_Subset
<1>10. Cardinality(earlier(W, times, k) \cup {k}) <= Cardinality(earlier(V, times, m))
  BY <1>6, <1>9, FS_Subset
<1>11. Cardinality(W) \div 2 + 1 <= Cardinality(V) \div 2
  BY <1>3, <1>4, <1>8, <1>10 DEF IsMedian
<1>12. \A a, b \in Nat : a <= b => ~ (b \div 2 + 1 <= a \div 2)
  OBVIOUS
<1> QED
  BY <1>1, <1>2, <1>11, <1>12
=============================================================================
