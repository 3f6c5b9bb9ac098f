--------------------------- MODULE DifficultyChain -------------------------
(***************************************************************************)
(* The difficulty of one growing chain, through all four rules: every      *)
(* block carries whatever timestamp its miner could get accepted.  What    *)
(* the rules promise whoever chooses the gaps is stated here.              *)
(***************************************************************************)
EXTENDS Difficulty, Sequences

CONSTANTS
  GENESIS_DIFFICULTY_BITS,
  Gaps,                     \* seconds from a block to the next (may be negative)
  MaxHeight                 \* bound: the chain stops growing here

ASSUME ChainAssumption ==
  GENESIS_DIFFICULTY_BITS \in 0 .. MAX_DIFFICULTY_BITS /\ Gaps \subseteq Int /\ MaxHeight \in Nat

VARIABLES
  timestamps,   \* timestamps[h + 1]: of the block at height h
  baselines     \* baselines[h + 1]: state.difficulty_bits after that block

vars == <<timestamps, baselines>>

chain_height == Len(timestamps) - 1
difficulty_bits == baselines[Len(baselines)]
time_of == [h \in 0 .. chain_height |-> timestamps[h + 1]]

Init ==
  /\ timestamps = <<0>>
  /\ baselines = <<GENESIS_DIFFICULTY_BITS>>

\* Mutant of AddBlock: the timestamp is not held against the median.
AddBlock_any_time(gap) ==
  LET h  == chain_height + 1
      ts == time_of[chain_height] + gap
      new_times == [g \in 0 .. h |-> IF g = h THEN ts ELSE time_of[g]]
  IN  /\ h <= MaxHeight
      /\ timestamps' = Append(timestamps, ts)
      /\ baselines' =
           Append(baselines, difficulty_after(difficulty_bits, h, gap, new_times))

\* A block gap seconds after the tip is accepted.
AddBlock(gap) ==
  LET h  == chain_height + 1
      ts == time_of[chain_height] + gap
      new_times == [g \in 0 .. h |-> IF g = h THEN ts ELSE time_of[g]]
  IN  /\ h <= MaxHeight
      /\ fork2_active(h) => ts > median_time_past(chain_height, time_of)
      /\ timestamps' = Append(timestamps, ts)
      /\ baselines' =
           Append(baselines, difficulty_after(difficulty_bits, h, gap, new_times))

Next == \E gap \in Gaps : AddBlock(gap)

Spec == Init /\ [][Next]_vars

\* One timestamp and one stored difficulty a block, and the latter never leaves
\* the range its rule allows: the conversion at Fork 2 and every later adjustment
\* start from a legal difficulty.
TypeOK ==
  /\ timestamps \in Seq(Int) /\ baselines \in Seq(Nat)
  /\ Len(timestamps) \in 1 .. MaxHeight + 1
  /\ Len(baselines) = Len(timestamps)
  /\ difficulty_bits \in IF fork2_active(chain_height) THEN FORK2_MIN_FP .. FORK2_MAX_FP
                         ELSE 0 .. MAX_DIFFICULTY_BITS

\* "Summed over many blocks this depends only on total elapsed time": between any
\* two Fork 2 blocks with no clamping in between, however the time was divided
\* among the blocks, the difficulty moves by (blocks * target - elapsed) / TAU,
\* give or take one unit of rounding a block.  So no choice of timestamps freezes
\* it, and a stall's easing is not carried over.
unclamped(i, j) ==
  \A h \in i .. j : baselines[h + 1] \in FORK2_MIN_FP + 1 .. FORK2_MAX_FP - 1

DriftDependsOnElapsedTime ==
  \A i, j \in FORK2_ACTIVATION_HEIGHT .. chain_height :
    i < j /\ unclamped(i, j) =>
      LET drift == (j - i) * TARGET_BLOCK_TIME_SECS - (time_of[j] - time_of[i])
          moved == baselines[j + 1] - baselines[i + 1]
          exact == quotient(drift * FP_ONE, FORK2_TAU_SECS)
      IN  moved - exact \in -(j - i) .. (j - i)

\* What the next block must meet, as fixed point, if its gap is gap.
needed(gap) == required(difficulty_bits, chain_height + 1, gap)

\* Waiting never makes the next block harder: work that meets a template when it
\* is handed out still does when it is submitted later on the same tip, under
\* each rule and across their activation heights.
WaitingNeverHurts ==
  \A g1, g2 \in Gaps : g1 <= g2 => needed(g2) <= needed(g1)

\* The whole bits a template advertises (ceil_bits) are enough for the exact
\* requirement, and less than one bit too many.
TemplateSufficient ==
  \A gap \in Gaps :
    LET bits == ceil_bits(needed(gap))
    IN  needed(gap) <= bits * FP_ONE /\ bits * FP_ONE < needed(gap) + FP_ONE

\* The switch to fixed point changes nothing for the first block after it: it
\* needs exactly what the whole-bit rule would have asked.
Fork2StartsWhereTheOldRuleEnded ==
  chain_height + 1 = FORK2_ACTIVATION_HEIGHT =>
    \A gap \in Gaps :
      needed(gap) = effective_difficulty_bits(difficulty_bits, chain_height + 1, gap) * FP_ONE

\* From Fork 2 on the median of the last timestamps never goes back, though the
\* timestamps themselves may: the bound a new block must beat only rises.
MedianTimeAdvances ==
  \A h \in FORK2_ACTIVATION_HEIGHT .. chain_height :
    median_time_past(h, time_of) >= median_time_past(h - 1, time_of)
=============================================================================
