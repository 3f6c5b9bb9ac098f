-------------------------------- MODULE Pow --------------------------------
(***************************************************************************)
(* The two tests of a proof of work that node, pool and miner each carry a *)
(* copy of: leading zero bits, and the hash below a target.  A hash is a   *)
(* big-endian sequence of BYTES bytes of BYTE_BITS bits (32 and 8 in the   *)
(* code), a fixed-point difficulty has FP_SHIFT fractional bits (16).      *)
(* Module Miner uses both; the others only know of a hash the largest      *)
(* difficulty that it meets.                                               *)
(***************************************************************************)
EXTENDS Difficulty

CONSTANTS
  BYTES, BYTE_BITS, FP_SHIFT,
  exp2_factor(_)  \* 2^(frac / FP_ONE) * FP_ONE - FP_ONE, rounded

\* 1 << n.  (A function, for the provers know no fact about 2^n.)
pow2[n \in Nat] == IF n = 0 THEN 1 ELSE 2 * pow2[n - 1]

HASH_BITS == BYTES * BYTE_BITS
Hashes == [1 .. BYTES -> 0 .. pow2[BYTE_BITS] - 1]

ASSUME PowAssumption ==
  /\ {BYTES, BYTE_BITS, FP_SHIFT} \subseteq Nat \ {0}
  /\ FP_ONE = pow2[FP_SHIFT]
  /\ FORK2_MAX_BITS + FP_SHIFT <= HASH_BITS
ASSUME FactorAssumption ==
  /\ exp2_factor(0) = 0
  /\ \A f \in 0 .. FP_ONE - 1 : exp2_factor(f) \in 0 .. FP_ONE - 1
  /\ \A f \in 1 .. FP_ONE - 1 : exp2_factor(f - 1) <= exp2_factor(f)

\* The leading required_bits bits are 0: whole bytes, then the upper bits of one.
meets_difficulty(hash, required_bits) ==
  \A i \in 1 .. BYTES :
    LET bits == clamp(required_bits - (i - 1) * BYTE_BITS, 0, BYTE_BITS)
    IN  hash[i] \div pow2[BYTE_BITS - bits] = 0

bytes_of(n) == [i \in 1 .. BYTES |-> (n \div pow2[BYTE_BITS * (BYTES - i)]) % pow2[BYTE_BITS]]

\* Mutant of mantissa: the fraction of the difficulty itself is taken.
mantissa_uninverted(e) == FP_ONE + exp2_factor((-e) % FP_ONE)

\* FP_SHIFT + 1 bits: 2^frac, frac being the fraction of the exponent.
mantissa(e) == FP_ONE + exp2_factor(e % FP_ONE)

\* 2^(HASH_BITS - fine / FP_ONE), in bytes: the mantissa, shifted.  (Above
\* HASH_BITS - FP_SHIFT bits, where no chain gets, the code's shift would underflow.)
target_from_fine(fine) ==
  LET e == HASH_BITS * FP_ONE - clamp(fine, FP_ONE, (HASH_BITS - 1) * FP_ONE)
  IN  bytes_of((mantissa(e) * pow2[e \div FP_ONE]) \div FP_ONE)

\* The first byte that differs decides.
hash_below_target(hash, target) ==
  \E i \in 1 .. BYTES :
    hash[i] < target[i] /\ \A j \in 1 .. i - 1 : hash[j] = target[j]

meets_target(hash, fine) == hash_below_target(hash, target_from_fine(fine))
=============================================================================
