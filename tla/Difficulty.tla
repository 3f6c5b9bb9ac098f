----------------------------- MODULE Difficulty ----------------------------
(***************************************************************************)
(* The difficulty rules of src/consensus.rs, as arithmetic on integers: no *)
(* variables.  Four rules follow one another as the chain grows:           *)
(*   whole bits, retargeted every RETARGET_INTERVAL blocks;                *)
(*   the same with emergency easing after a stall, from                    *)
(*     EMERGENCY_ACTIVATION_HEIGHT;                                        *)
(*   fixed point (FP_ONE is one bit), adjusted by every block, from        *)
(*     FORK2_ACTIVATION_HEIGHT;                                            *)
(*   the same with smooth easing, from EASING2_ACTIVATION_HEIGHT.          *)
(* The 256-bit targets are left out: a hash meets a fixed-point difficulty *)
(* fine exactly when its work, the largest difficulty it meets, is >= fine.*)
(***************************************************************************)
EXTENDS Integers, FiniteSets

CONSTANTS
  TARGET_BLOCK_TIME_SECS, RETARGET_INTERVAL, MAX_DIFFICULTY_BITS,
  EMERGENCY_ACTIVATION_HEIGHT, EMERGENCY_GRACE_SECS, EMERGENCY_STEP_SECS,
  EMERGENCY_MAX_DROP_BITS, EMERGENCY_FLOOR_BITS,
  FORK2_ACTIVATION_HEIGHT, FP_ONE, FORK2_TAU_SECS, FORK2_MAX_BITS,
  FORK2_FUTURE_LIMIT_SECS, MTP_WINDOW,
  EASING2_ACTIVATION_HEIGHT, EASING2_GRACE_SECS, EASING2_SECS_PER_BIT

ASSUME PositiveAssumption ==
  {TARGET_BLOCK_TIME_SECS, RETARGET_INTERVAL, EMERGENCY_STEP_SECS, FP_ONE,
   FORK2_TAU_SECS, EASING2_SECS_PER_BIT, MTP_WINDOW} \subseteq Nat \ {0}
ASSUME NaturalAssumption ==
  {MAX_DIFFICULTY_BITS, EMERGENCY_ACTIVATION_HEIGHT, EMERGENCY_GRACE_SECS,
   EMERGENCY_MAX_DROP_BITS, EMERGENCY_FLOOR_BITS, FORK2_ACTIVATION_HEIGHT,
   FORK2_MAX_BITS, FORK2_FUTURE_LIMIT_SECS, EASING2_ACTIVATION_HEIGHT,
   EASING2_GRACE_SECS} \subseteq Nat
ASSUME OrderAssumption ==
  /\ FORK2_ACTIVATION_HEIGHT # 0
  /\ EMERGENCY_ACTIVATION_HEIGHT <= FORK2_ACTIVATION_HEIGHT
  /\ FORK2_ACTIVATION_HEIGHT < EASING2_ACTIVATION_HEIGHT
  /\ EMERGENCY_FLOOR_BITS <= FORK2_MAX_BITS

\* The code's two floors, 20 bits and 20 << FP_SHIFT, are the same difficulty.
FORK2_MIN_FP == EMERGENCY_FLOOR_BITS * FP_ONE
FORK2_MAX_FP == FORK2_MAX_BITS * FP_ONE

lesser(a, b)  == IF a <= b THEN a ELSE b
greater(a, b) == IF a >= b THEN a ELSE b
clamp(x, lo, hi) == greater(lo, lesser(x, hi))

\* Rust's integer division rounds toward zero.
quotient(a, b) == IF a >= 0 THEN a \div b ELSE -((-a) \div b)

\* Mutant of eased_to: the floor also lifts a base below it.
eased_to_lifted(base, drop, floor) == greater(base - drop, floor)

\* base.saturating_sub(drop).max(floor), with floor never above base.
eased_to(base, drop, floor) ==
  greater(greater(base - drop, 0), lesser(floor, base))

emergency_drop(gap_secs) ==
  lesser((gap_secs - EMERGENCY_GRACE_SECS) \div EMERGENCY_STEP_SECS + 1,
         EMERGENCY_MAX_DROP_BITS)

effective_difficulty_bits(base_bits, block_height, gap_secs) ==
  IF block_height < EMERGENCY_ACTIVATION_HEIGHT \/ gap_secs <= EMERGENCY_GRACE_SECS
  THEN base_bits
  ELSE eased_to(base_bits, emergency_drop(gap_secs), EMERGENCY_FLOOR_BITS)

(***************************************************************************)
(* round(log2(target / actual)) between -2 and 2.  log2 of the ratio is at *)
(* least k - 1/2 exactly when target^2 >= 2^(2k - 1) * actual^2 (the two   *)
(* sides are never equal), and beyond four times the target it is -2.      *)
(***************************************************************************)
bit_change(actual_secs) ==
  LET target == TARGET_BLOCK_TIME_SECS * RETARGET_INTERVAL
      actual == lesser(actual_secs, 4 * target)
      t2 == target * target
      a2 == actual * actual
  IN  CASE t2 >= 8 * a2 -> 2
        [] t2 >= 2 * a2 /\ t2 < 8 * a2 -> 1
        [] 2 * t2 >= a2 /\ t2 < 2 * a2 -> 0
        [] 8 * t2 >= a2 /\ 2 * t2 < a2 -> -1
        [] OTHER -> -2

retarget_difficulty(bits, first_timestamp, last_timestamp) ==
  clamp(bits + bit_change(greater(last_timestamp - first_timestamp, 1)),
        0, MAX_DIFFICULTY_BITS)

fork2_active(block_height) == block_height >= FORK2_ACTIVATION_HEIGHT

\* Mutant of parent_fine: the first Fork 2 block is taken to be past the switch.
parent_fine_early(state_bits, block_height) ==
  IF block_height < FORK2_ACTIVATION_HEIGHT THEN state_bits * FP_ONE ELSE state_bits

parent_fine(state_bits, block_height) ==
  IF block_height <= FORK2_ACTIVATION_HEIGHT THEN state_bits * FP_ONE ELSE state_bits

eased_fine(base, gap_secs) ==
  IF gap_secs <= EASING2_GRACE_SECS THEN base
  ELSE eased_to(base,
                lesser(((gap_secs - EASING2_GRACE_SECS) * FP_ONE) \div EASING2_SECS_PER_BIT,
                       EMERGENCY_MAX_DROP_BITS * FP_ONE),
                FORK2_MIN_FP)

required_fine(state_bits, block_height, gap_secs) ==
  LET base == parent_fine(state_bits, block_height)
  IN  IF block_height >= EASING2_ACTIVATION_HEIGHT THEN eased_fine(base, gap_secs)
      ELSE IF gap_secs <= EMERGENCY_GRACE_SECS THEN base
      ELSE eased_to(base, emergency_drop(gap_secs) * FP_ONE, FORK2_MIN_FP)

\* What a block's work must reach, under the rule of its height, as fixed point.
required(state_bits, block_height, gap_secs) ==
  IF fork2_active(block_height)
  THEN required_fine(state_bits, block_height, gap_secs)
  ELSE effective_difficulty_bits(state_bits, block_height, gap_secs) * FP_ONE

\* Mutant of next_fine: no clamp.
next_fine_unclamped(parent_baseline, gap_secs) ==
  parent_baseline + quotient((TARGET_BLOCK_TIME_SECS - gap_secs) * FP_ONE, FORK2_TAU_SECS)

next_fine(parent_baseline, gap_secs) ==
  clamp(parent_baseline
          + quotient((TARGET_BLOCK_TIME_SECS - gap_secs) * FP_ONE, FORK2_TAU_SECS),
        FORK2_MIN_FP, FORK2_MAX_FP)

\* Mutant of ceil_bits: rounded down.
floor_bits(fine) == fine \div FP_ONE

ceil_bits(fine) == (fine + FP_ONE - 1) \div FP_ONE

\* Mutant of difficulty_after: Fork 2 stores the eased difficulty, as the old
\* rule does.
difficulty_after_eased(state_bits, block_height, gap_secs, timestamps) ==
  IF fork2_active(block_height)
  THEN next_fine(required_fine(state_bits, block_height, gap_secs), gap_secs)
  ELSE effective_difficulty_bits(state_bits, block_height, gap_secs)

\* What the next block's rule starts from once the block at block_height, gap_secs
\* after its parent, is accepted; timestamps[h] is that of the block at height h.
difficulty_after(state_bits, block_height, gap_secs, timestamps) ==
  LET eff_bits == effective_difficulty_bits(state_bits, block_height, gap_secs)
      first_height == block_height - RETARGET_INTERVAL
  IN  IF fork2_active(block_height)
      THEN next_fine(parent_fine(state_bits, block_height), gap_secs)
      ELSE IF block_height % RETARGET_INTERVAL = 0 /\ first_height > 0
      THEN retarget_difficulty(eff_bits, timestamps[first_height], timestamps[block_height])
      ELSE eff_bits

\* The upper median (v[len / 2] once sorted) of the last MTP_WINDOW timestamps up
\* to the tip.
median_time_past(tip_height, timestamps) ==
  LET window == greater(0, tip_height - (MTP_WINDOW - 1)) .. tip_height
      below(h) == {g \in window : \/ timestamps[g] < timestamps[h]
                                  \/ timestamps[g] = timestamps[h] /\ g < h}
      median_height == CHOOSE h \in window :
        Cardinality(below(h)) = Cardinality(window) \div 2
  IN  timestamps[median_height]

fork2_timestamp_ok(timestamp, mtp, now) ==
  timestamp > mtp /\ timestamp <= now + FORK2_FUTURE_LIMIT_SECS
=============================================================================
