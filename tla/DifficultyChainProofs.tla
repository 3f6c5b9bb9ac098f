------------------------ MODULE DifficultyChainProofs -----------------------
(***************************************************************************)
(* Theorems about DifficultyChain: what the difficulty rules promise       *)
(* whoever chooses the gaps of a chain of any length, for every value of   *)
(* their constants.                                                        *)
(***************************************************************************)
EXTENDS DifficultyChain, DifficultyProofs

(***************************************************************************)
(* The chain.                                                              *)
(***************************************************************************)

\* The timestamps of a chain whose next block comes gap seconds after its tip.
next_times(gap) ==
  [g \in 0 .. chain_height + 1 |->
     IF g = chain_height + 1 THEN time_of[chain_height] + gap ELSE time_of[g]]

\* What the type invariant says of heights and times.
LEMMA Heights ==
  ASSUME TypeOK
  PROVE  /\ chain_height \in Nat /\ Len(timestamps) = chain_height + 1
         /\ Len(baselines) = chain_height + 1
         /\ \A h \in 0 .. chain_height : timestamps[h + 1] \in Int /\ baselines[h + 1] \in Nat
         /\ time_of \in [0 .. chain_height -> Int]
         /\ \A h \in 0 .. chain_height : time_of[h] = timestamps[h + 1]
         /\ difficulty_bits = baselines[chain_height + 1] /\ difficulty_bits \in Nat
<1>1. Len(timestamps) \in Nat /\ Len(timestamps) >= 1 /\ Len(baselines) = Len(timestamps)
  BY ChainAssumption DEF TypeOK
<1>2. chain_height \in Nat /\ Len(timestamps) = chain_height + 1 /\ Len(baselines) = chain_height + 1
  BY <1>1 DEF chain_height
<1>3. timestamps \in Seq(Int) /\ baselines \in Seq(Nat)
  BY DEF TypeOK
<1>4. \A h \in 0 .. chain_height : timestamps[h + 1] \in Int /\ baselines[h + 1] \in Nat
  <2>1. TAKE h \in 0 .. chain_height
  <2>2. h + 1 \in 1 .. Len(timestamps) /\ h + 1 \in 1 .. Len(baselines)
    BY <1>2
  <2> QED
    BY <1>3, <2>2
<1>5. difficulty_bits = baselines[chain_height + 1]
  BY <1>2 DEF difficulty_bits
<1>6. difficulty_bits \in Nat
  BY <1>2, <1>4, <1>5
<1> QED
  BY <1>2, <1>4, <1>5, <1>6 DEF time_of

\* A block appends one timestamp and one difficulty, and leaves the others alone.
LEMMA BlockAdded ==
  ASSUME TypeOK, NEW gap \in Gaps, AddBlock(gap)
  PROVE  /\ gap \in Int /\ chain_height' = chain_height + 1 /\ chain_height + 1 <= MaxHeight
         /\ timestamps' \in Seq(Int) /\ Len(timestamps') = Len(timestamps) + 1
         /\ Len(baselines') = Len(baselines) + 1
         /\ next_times(gap) \in [0 .. chain_height + 1 -> Int]
         /\ time_of' = next_times(gap)
         /\ \A h \in 0 .. chain_height : timestamps'[h + 1] = timestamps[h + 1]
                                         /\ baselines'[h + 1] = baselines[h + 1]
                                         /\ next_times(gap)[h] = time_of[h]
         /\ timestamps'[chain_height + 2] = timestamps[chain_height + 1] + gap
         /\ baselines' = Append(baselines, baselines'[chain_height + 2])
         /\ baselines'[chain_height + 2]
              = difficulty_after(difficulty_bits, chain_height + 1, gap, next_times(gap))
         /\ fork2_active(chain_height + 1)
              => timestamps'[chain_height + 2] > median_time_past(chain_height, time_of)
<1>0. /\ chain_height \in Nat /\ Len(timestamps) = chain_height + 1
      /\ Len(baselines) = chain_height + 1
      /\ \A h \in 0 .. chain_height : timestamps[h + 1] \in Int /\ baselines[h + 1] \in Nat
      /\ time_of \in [0 .. chain_height -> Int]
      /\ \A h \in 0 .. chain_height : time_of[h] = timestamps[h + 1]
  BY Heights
<1>1. timestamps \in Seq(Int) /\ baselines \in Seq(Nat) /\ gap \in Int
  BY ChainAssumption DEF TypeOK
<1> DEFINE ts == time_of[chain_height] + gap
           after == difficulty_after(difficulty_bits, chain_height + 1, gap, next_times(gap))
<1>2. /\ chain_height + 1 <= MaxHeight
      /\ fork2_active(chain_height + 1) => ts > median_time_past(chain_height, time_of)
      /\ timestamps' = Append(timestamps, ts)
      /\ baselines' = Append(baselines, after)
  BY DEF AddBlock, next_times
<1>3. ts \in Int /\ ts = timestamps[chain_height + 1] + gap
  <2>1. chain_height \in 0 .. chain_height
    BY <1>0
  <2> QED
    BY <1>0, <1>1, <2>1
<1> HIDE DEF ts, after
<1>4. /\ timestamps' \in Seq(Int) /\ Len(timestamps') = Len(timestamps) + 1
      /\ \A n \in 1 .. Len(timestamps) : timestamps'[n] = timestamps[n]
      /\ timestamps'[Len(timestamps) + 1] = ts
  BY <1>1, <1>2, <1>3
<1>5. /\ Len(baselines') = Len(baselines) + 1
      /\ \A n \in 1 .. Len(baselines) : baselines'[n] = baselines[n]
      /\ baselines'[Len(baselines) + 1] = after
  BY <1>1, <1>2
<1>6. chain_height' = chain_height + 1
  BY <1>0, <1>4 DEF chain_height
<1>7. \A h \in 0 .. chain_height : h + 1 \in 1 .. Len(timestamps)
                                   /\ timestamps'[h + 1] = timestamps[h + 1]
                                   /\ baselines'[h + 1] = baselines[h + 1]
  <2>1. TAKE h \in 0 .. chain_height
  <2>2. h + 1 \in 1 .. Len(timestamps) /\ h + 1 \in 1 .. Len(baselines)
    BY <1>0
  <2> QED
    BY <1>4, <1>5, <2>2
<1>8. chain_height + 1 + 1 = chain_height + 2 /\ Len(timestamps) + 1 = chain_height + 2
      /\ Len(baselines) + 1 = chain_height + 2
  BY <1>0
<1>9. next_times(gap) = [g \in 0 .. chain_height + 1 |-> IF g = chain_height + 1 THEN ts ELSE time_of[g]]
  BY DEF next_times, ts
<1>10. /\ next_times(gap) \in [0 .. chain_height + 1 -> Int]
       /\ \A h \in 0 .. chain_height : next_times(gap)[h] = time_of[h]
       /\ next_times(gap)[chain_height + 1] = ts
  <2>1. \A g \in 0 .. chain_height + 1 : g # chain_height + 1 => g \in 0 .. chain_height
    BY <1>0
  <2>2. \A g \in 0 .. chain_height : g \in 0 .. chain_height + 1 /\ g # chain_height + 1
    BY <1>0
  <2>3. chain_height + 1 \in 0 .. chain_height + 1
    BY <1>0
  <2>4. \A g \in 0 .. chain_height + 1 : (IF g = chain_height + 1 THEN ts ELSE time_of[g]) \in Int
    BY <1>0, <1>3, <2>1
  <2> QED
    BY <1>9, <2>2, <2>3, <2>4
<1>11. time_of' = next_times(gap)
  <2>1. time_of' = [h \in 0 .. chain_height + 1 |-> timestamps'[h + 1]]
    BY <1>6 DEF time_of
  <2>2. \A h \in 0 .. chain_height + 1 : timestamps'[h + 1] = next_times(gap)[h]
    <3>1. TAKE h \in 0 .. chain_height + 1
    <3>2. CASE h = chain_height + 1
      BY <1>4, <1>8, <1>10, <3>2
    <3>3. CASE h # chain_height + 1
      <4>1. h \in 0 .. chain_height
        BY <1>0, <3>3
      <4> QED
        BY <1>0, <1>7, <1>10, <4>1
    <3> QED
      BY <3>2, <3>3
  <2> QED
    BY <1>10, <2>1, <2>2
<1> QED
  BY <1>1, <1>2, <1>3, <1>4, <1>5, <1>6, <1>7, <1>8, <1>10, <1>11 DEF ts, after

\* One block more keeps the type: the new difficulty is in the range of its rule.
LEMMA TypeKept ==
  ASSUME TypeOK, NEW gap \in Gaps, AddBlock(gap)
  PROVE  TypeOK'
<1>0. /\ chain_height \in Nat /\ Len(timestamps) = chain_height + 1
      /\ Len(baselines) = chain_height + 1 /\ difficulty_bits \in Nat
  BY Heights
<1>1. /\ gap \in Int /\ chain_height' = chain_height + 1 /\ chain_height + 1 <= MaxHeight
      /\ timestamps' \in Seq(Int) /\ Len(timestamps') = Len(timestamps) + 1
      /\ Len(baselines') = Len(baselines) + 1
      /\ next_times(gap) \in [0 .. chain_height + 1 -> Int]
      /\ baselines' = Append(baselines, baselines'[chain_height + 2])
      /\ baselines'[chain_height + 2]
           = difficulty_after(difficulty_bits, chain_height + 1, gap, next_times(gap))
  BY BlockAdded
<1> DEFINE after == baselines'[chain_height + 2]
           range == IF fork2_active(chain_height + 1) THEN FORK2_MIN_FP .. FORK2_MAX_FP
                    ELSE 0 .. MAX_DIFFICULTY_BITS
<1>2. after \in range
  <2>1. fork2_active(chain_height + 1) \/ difficulty_bits <= MAX_DIFFICULTY_BITS
    <3>1. CASE fork2_active(chain_height)
      BY <1>0, <3>1, Constants_are_natural DEF fork2_active
    <3>2. CASE ~ fork2_active(chain_height)
      BY <3>2, Constants_are_natural DEF TypeOK
    <3> QED
      BY <3>1, <3>2
  <2>2. chain_height + 1 \in Nat
    BY <1>0
  <2> QED
    BY <1>0, <1>1, <2>1, <2>2, DifficultyAfter
<1>3. after \in Nat
  <2>1. FORK2_MIN_FP \in Nat /\ FORK2_MAX_FP \in Nat /\ MAX_DIFFICULTY_BITS \in Nat
    BY FixedPointRange, Constants_are_natural
  <2> QED
    BY <1>2, <2>1
<1>4. baselines' \in Seq(Nat)
  <2>1. \A s \in Seq(Nat), x \in Nat : Append(s, x) \in Seq(Nat)
    OBVIOUS
  <2>2. baselines \in Seq(Nat) /\ baselines' = Append(baselines, after)
    BY <1>1 DEF TypeOK
  <2> QED
    BY <1>3, <2>1, <2>2
<1>5. difficulty_bits' = after
  BY <1>0, <1>1 DEF difficulty_bits
<1>6. Len(timestamps') \in 1 .. MaxHeight + 1 /\ Len(baselines') = Len(timestamps')
  BY <1>0, <1>1, ChainAssumption
<1>7. difficulty_bits' \in IF fork2_active(chain_height') THEN FORK2_MIN_FP .. FORK2_MAX_FP
                           ELSE 0 .. MAX_DIFFICULTY_BITS
  BY <1>1, <1>2, <1>5
<1>8. fork2_active(chain_height)' = fork2_active(chain_height')
  BY DEF fork2_active
<1> QED
  BY <1>1, <1>4, <1>6, <1>7, <1>8 DEF TypeOK

\* TypeOK, for every value of the constants: the switch to fixed point and every later
\* adjustment start from a legal difficulty, however long the chain and whatever the
\* gaps.
THEOREM DifficultyTypeOK == Spec => []TypeOK
<1>1. Init => TypeOK
  <2> SUFFICES ASSUME Init PROVE TypeOK
    OBVIOUS
  <2>1. timestamps = <<0>> /\ baselines = <<GENESIS_DIFFICULTY_BITS>>
    BY DEF Init
  <2>2. GENESIS_DIFFICULTY_BITS \in Nat /\ GENESIS_DIFFICULTY_BITS \in 0 .. MAX_DIFFICULTY_BITS
        /\ MaxHeight \in Nat
    BY ChainAssumption, Constants_are_natural
  <2>3. /\ timestamps \in Seq(Int) /\ Len(timestamps) = 1
        /\ baselines \in Seq(Nat) /\ Len(baselines) = 1 /\ baselines[1] = GENESIS_DIFFICULTY_BITS
    BY <2>1, <2>2
  <2>4. chain_height = 0 /\ difficulty_bits = GENESIS_DIFFICULTY_BITS
    BY <2>3 DEF chain_height, difficulty_bits
  <2>5. ~ fork2_active(chain_height)
    BY <2>4, OrderAssumption, Constants_are_natural DEF fork2_active
  <2> QED
    BY <2>2, <2>3, <2>4, <2>5 DEF TypeOK
<1>2. TypeOK /\ [Next]_vars => TypeOK'
  <2> SUFFICES ASSUME TypeOK, [Next]_vars PROVE TypeOK'
    OBVIOUS
  <2>1. CASE Next
    BY <2>1, TypeKept DEF Next
  <2>2. CASE UNCHANGED vars
    BY <2>2 DEF vars, TypeOK, chain_height, difficulty_bits
  <2> QED
    BY <2>1, <2>2
<1> QED
  BY <1>1, <1>2, PTL DEF Spec

\* Waiting never makes the next block harder, for every value of the constants, at
\* every height and under every rule.
THEOREM DifficultyWaitingNeverHurts == Spec => []WaitingNeverHurts
<1>1. TypeOK => WaitingNeverHurts
  <2> SUFFICES ASSUME TypeOK, NEW g1 \in Gaps, NEW g2 \in Gaps, g1 <= g2
               PROVE  needed(g2) <= needed(g1)
    BY DEF WaitingNeverHurts
  <2>1. difficulty_bits \in Nat /\ chain_height + 1 \in Nat
    BY Heights
  <2>2. g1 \in Int /\ g2 \in Int
    BY ChainAssumption
  <2> QED
    BY <2>1, <2>2, Required DEF needed
<1> QED
  BY <1>1, DifficultyTypeOK, PTL

\* The whole bits of a template are enough for what its block needs, and less than one
\* bit too many, for every value of the constants.
THEOREM DifficultyTemplateSufficient == Spec => []TemplateSufficient
<1>1. TypeOK => TemplateSufficient
  <2> SUFFICES ASSUME TypeOK, NEW gap \in Gaps
               PROVE  /\ needed(gap) <= ceil_bits(needed(gap)) * FP_ONE
                      /\ ceil_bits(needed(gap)) * FP_ONE < needed(gap) + FP_ONE
    BY DEF TemplateSufficient
  <2>1. difficulty_bits \in Nat /\ chain_height + 1 \in Nat
    BY Heights
  <2>2. gap \in Int /\ gap <= gap
    BY ChainAssumption
  <2>3. needed(gap) \in Nat
    BY <2>1, <2>2, Required DEF needed
  <2> QED
    BY <2>3, CeilBits
<1> QED
  BY <1>1, DifficultyTypeOK, PTL

\* The first Fork 2 block needs exactly what the whole-bit rule would have asked, for
\* every value of the constants.
THEOREM DifficultyFork2Starts == Spec => []Fork2StartsWhereTheOldRuleEnded
<1>1. TypeOK => Fork2StartsWhereTheOldRuleEnded
  <2> SUFFICES ASSUME TypeOK, chain_height + 1 = FORK2_ACTIVATION_HEIGHT, NEW gap \in Gaps
               PROVE  needed(gap)
                        = effective_difficulty_bits(difficulty_bits, chain_height + 1, gap) * FP_ONE
    BY DEF Fork2StartsWhereTheOldRuleEnded
  <2>1. difficulty_bits \in Nat /\ gap \in Int
    BY Heights, ChainAssumption
  <2> QED
    BY <2>1, AtTheSwitch DEF needed
<1> QED
  BY <1>1, DifficultyTypeOK, PTL

(***************************************************************************)
(* The drift of the difficulty.                                            *)
(***************************************************************************)

\* Every fixed-point difficulty but the first is the rule's step from the one before.
EveryStepIsTheRule ==
  \A h \in FORK2_ACTIVATION_HEIGHT + 1 .. chain_height :
    baselines[h + 1] = next_fine(baselines[h], time_of[h] - time_of[h - 1])

\* By induction on the number of blocks: what a chain of unclamped steps moves the
\* difficulty by is given by its length and its duration, up to one unit a block.
LEMMA Drift ==
  ASSUME TypeOK, EveryStepIsTheRule,
         NEW i \in FORK2_ACTIVATION_HEIGHT .. chain_height
  PROVE  \A n \in Nat :
           i + n <= chain_height /\ unclamped(i, i + n) =>
             baselines[i + n + 1] - baselines[i + 1]
               - quotient(ahead(n, time_of[i + n] - time_of[i]), FORK2_TAU_SECS) \in -n .. n
<1> DEFINE moved(n) == baselines[i + n + 1] - baselines[i + 1]
           exact(n) == quotient(ahead(n, time_of[i + n] - time_of[i]), FORK2_TAU_SECS)
           S == {n \in Nat : i + n <= chain_height /\ unclamped(i, i + n) =>
                               moved(n) - exact(n) \in -n .. n}
<1>0. /\ chain_height \in Nat /\ i \in Nat /\ i >= FORK2_ACTIVATION_HEIGHT
      /\ FORK2_ACTIVATION_HEIGHT \in Nat /\ FORK2_TAU_SECS \in Nat /\ FORK2_TAU_SECS > 0
      /\ FP_ONE \in Nat /\ TARGET_BLOCK_TIME_SECS \in Nat
      /\ \A h \in 0 .. chain_height : time_of[h] \in Int /\ baselines[h + 1] \in Nat
  BY Heights, Constants_are_natural
<1>1. 0 \in S
  <2>1. i + 0 = i /\ i \in 0 .. chain_height /\ i + 0 + 1 = i + 1
    BY <1>0
  <2>2. time_of[i] \in Int /\ baselines[i + 1] \in Nat
    BY <1>0, <2>1
  <2>3. ahead(0, time_of[i] - time_of[i]) = 0
    <3>1. 0 * TARGET_BLOCK_TIME_SECS - (time_of[i] - time_of[i]) = 0
      BY <1>0, <2>2
    <3>2. 0 * FP_ONE = 0
      BY <1>0
    <3> QED
      BY <3>1, <3>2 DEF ahead
  <2>4. quotient(0, FORK2_TAU_SECS) = 0
    BY <1>0 DEF quotient
  <2>5. moved(0) = 0 /\ exact(0) = 0
    BY <2>1, <2>2, <2>3, <2>4
  <2>6. moved(0) - exact(0) \in -0 .. 0
    BY <2>5
  <2> QED
    BY <2>6
<1>2. \A n \in Nat : n \in S => n + 1 \in S
  <2> SUFFICES ASSUME NEW n \in Nat, n \in S,
                      i + (n + 1) <= chain_height, unclamped(i, i + (n + 1))
               PROVE  moved(n + 1) - exact(n + 1) \in -(n + 1) .. n + 1
    OBVIOUS
  <2> DEFINE h == i + n + 1
             gap == time_of[h] - time_of[h - 1]
             secs == time_of[h - 1] - time_of[i]
             step == quotient((TARGET_BLOCK_TIME_SECS - gap) * FP_ONE, FORK2_TAU_SECS)
  <2>1. /\ h \in Nat /\ h = i + (n + 1) /\ h - 1 = i + n /\ h \in FORK2_ACTIVATION_HEIGHT + 1 .. chain_height
        /\ h \in 0 .. chain_height /\ h - 1 \in 0 .. chain_height /\ i \in 0 .. chain_height
        /\ h - 1 + 1 = h /\ i + n + 1 = h /\ i + (n + 1) + 1 = h + 1
    BY <1>0
  <2>2. /\ time_of[h] \in Int /\ time_of[h - 1] \in Int /\ time_of[i] \in Int
        /\ baselines[h + 1] \in Nat /\ baselines[h] \in Nat /\ baselines[i + 1] \in Nat
    <3> HIDE DEF h
    <3> QED
      BY <1>0, <2>1
  <2>3. moved(n) - exact(n) \in -n .. n
    <3>1. unclamped(i, i + n)
      BY <1>0, <2>1 DEF unclamped
    <3>2. i + n <= chain_height
      BY <2>1, <1>0
    <3> QED
      BY <3>1, <3>2
  <2>4. baselines[h + 1] = baselines[h] + step
    <3>1. baselines[h + 1] = next_fine(baselines[h], gap)
      BY <2>1 DEF EveryStepIsTheRule
    <3>2. baselines[h + 1] \in FORK2_MIN_FP + 1 .. FORK2_MAX_FP - 1
      <4>1. h \in i .. i + (n + 1)
        BY <1>0, <2>1
      <4> HIDE DEF h
      <4> QED
        BY <4>1 DEF unclamped
    <3>3. gap \in Int
      BY <2>2
    <3> HIDE DEF h, gap
    <3> QED
      BY <2>2, <3>1, <3>2, <3>3, Unclamped
  <2>5. /\ gap \in Int /\ secs \in Int
        /\ time_of[i + (n + 1)] - time_of[i] = secs + gap
        /\ time_of[i + n] - time_of[i] = secs
    <3> HIDE DEF h
    <3> QED
      BY <2>1, <2>2
  <2> HIDE DEF h, gap, secs
  <2>6. /\ ahead(n, secs) \in Int /\ (TARGET_BLOCK_TIME_SECS - gap) * FP_ONE \in Int
        /\ ahead(n + 1, secs + gap) = ahead(n, secs) + (TARGET_BLOCK_TIME_SECS - gap) * FP_ONE
    BY <2>5, AheadOneMore
  <2>7. quotient(ahead(n, secs), FORK2_TAU_SECS) + step
          - quotient(ahead(n + 1, secs + gap), FORK2_TAU_SECS) \in -1 .. 1
    <3> DEFINE x == ahead(n, secs)
               y == (TARGET_BLOCK_TIME_SECS - gap) * FP_ONE
    <3>1. x \in Int /\ y \in Int /\ ahead(n + 1, secs + gap) = x + y
      BY <2>6
    <3>2. step = quotient(y, FORK2_TAU_SECS)
      OBVIOUS
    <3> HIDE DEF x, y, step
    <3>3. quotient(x, FORK2_TAU_SECS) + quotient(y, FORK2_TAU_SECS) - quotient(x + y, FORK2_TAU_SECS) \in -1 .. 1
      BY <1>0, <3>1, QuotientOfSum
    <3> QED
      BY <3>1, <3>2, <3>3 DEF x
  <2>8. exact(n) = quotient(ahead(n, secs), FORK2_TAU_SECS)
        /\ exact(n + 1) = quotient(ahead(n + 1, secs + gap), FORK2_TAU_SECS)
    BY <2>5
  <2>9. moved(n) = baselines[h] - baselines[i + 1] /\ moved(n + 1) = baselines[h + 1] - baselines[i + 1]
    BY <2>1
  <2>10. exact(n) \in Int /\ exact(n + 1) \in Int /\ step \in Int
    <3>1. ahead(n + 1, secs + gap) \in Int
      BY <2>6
    <3> QED
      BY <1>0, <2>6, <2>8, <3>1, Quotient
  <2> HIDE DEF moved, exact, step
  <2> QED
    BY <2>2, <2>3, <2>4, <2>7, <2>8, <2>9, <2>10
<1>3. \A n \in Nat : n \in S
  <2> HIDE DEF S
  <2> QED
    BY <1>1, <1>2, NatSetInduction
<1> QED
  BY <1>3

\* Between two Fork 2 blocks without clamping the difficulty moves with the elapsed time
\* alone, for every value of the constants, every chain and every choice of gaps.
THEOREM DifficultyDrift == Spec => []DriftDependsOnElapsedTime
<1>1. Init => EveryStepIsTheRule
  <2> SUFFICES ASSUME Init PROVE EveryStepIsTheRule
    OBVIOUS
  <2>1. timestamps = <<0>>
    BY DEF Init
  <2>2. chain_height = 0
    BY <2>1 DEF chain_height
  <2> QED
    BY <2>2, Constants_are_natural DEF EveryStepIsTheRule
<1>2. TypeOK /\ EveryStepIsTheRule /\ [Next]_vars => EveryStepIsTheRule'
  <2> SUFFICES ASSUME TypeOK, EveryStepIsTheRule, [Next]_vars PROVE EveryStepIsTheRule'
    OBVIOUS
  <2>1. ASSUME NEW gap \in Gaps, AddBlock(gap) PROVE EveryStepIsTheRule'
    <3>0. /\ chain_height \in Nat /\ Len(baselines) = chain_height + 1
          /\ \A h \in 0 .. chain_height : time_of[h] \in Int
          /\ difficulty_bits = baselines[chain_height + 1]
          /\ \A h \in 0 .. chain_height : time_of[h] = timestamps[h + 1]
          /\ FORK2_ACTIVATION_HEIGHT \in Nat /\ FORK2_ACTIVATION_HEIGHT # 0
      BY Heights, Constants_are_natural, OrderAssumption
    <3>1. /\ gap \in Int /\ chain_height' = chain_height + 1
          /\ time_of' = next_times(gap)
          /\ \A h \in 0 .. chain_height : baselines'[h + 1] = baselines[h + 1]
                                          /\ next_times(gap)[h] = time_of[h]
          /\ baselines'[chain_height + 2]
               = difficulty_after(difficulty_bits, chain_height + 1, gap, next_times(gap))
      BY <2>1, BlockAdded
    <3>2. next_times(gap)[chain_height + 1] = time_of[chain_height] + gap
      <4>1. chain_height + 1 \in 0 .. chain_height + 1
        BY <3>0
      <4> QED
        BY <4>1 DEF next_times
    <3> SUFFICES ASSUME NEW h \in FORK2_ACTIVATION_HEIGHT + 1 .. chain_height + 1
                 PROVE  baselines'[h + 1] = next_fine(baselines'[h], next_times(gap)[h] - next_times(gap)[h - 1])
      BY <3>1 DEF EveryStepIsTheRule
    <3>3. CASE h = chain_height + 1
      <4>1. fork2_active(h) /\ ~ (h <= FORK2_ACTIVATION_HEIGHT)
        BY <3>0 DEF fork2_active
      <4>2. difficulty_after(difficulty_bits, h, gap, next_times(gap)) = next_fine(difficulty_bits, gap)
        BY <4>1 DEF difficulty_after, parent_fine
      <4>3. chain_height \in 0 .. chain_height /\ h - 1 = chain_height /\ h + 1 = chain_height + 2
        BY <3>0, <3>3
      <4>4. baselines'[h] = difficulty_bits /\ next_times(gap)[h - 1] = time_of[chain_height]
        BY <3>0, <3>1, <3>3, <4>3
      <4>5. next_times(gap)[h] - next_times(gap)[h - 1] = gap
        <5>1. time_of[chain_height] \in Int
          BY <3>0, <4>3
        <5> QED
          BY <3>1, <3>2, <3>3, <4>4, <5>1
      <4> QED
        BY <3>1, <3>3, <4>2, <4>3, <4>4, <4>5
    <3>4. CASE h # chain_height + 1
      <4>1. /\ h \in 0 .. chain_height /\ h - 1 \in 0 .. chain_height /\ h - 1 + 1 = h
            /\ h \in FORK2_ACTIVATION_HEIGHT + 1 .. chain_height
        BY <3>0, <3>4
      <4>2. /\ baselines'[h + 1] = baselines[h + 1] /\ baselines'[h - 1 + 1] = baselines[h - 1 + 1]
            /\ next_times(gap)[h] = time_of[h] /\ next_times(gap)[h - 1] = time_of[h - 1]
        BY <3>1, <4>1
      <4> QED
        BY <4>1, <4>2 DEF EveryStepIsTheRule
    <3> QED
      BY <3>3, <3>4
  <2>2. CASE UNCHANGED vars
    BY <2>2 DEF vars, EveryStepIsTheRule, chain_height, time_of
  <2> QED
    BY <2>1, <2>2 DEF Next
<1>3. TypeOK /\ EveryStepIsTheRule => DriftDependsOnElapsedTime
  <2> SUFFICES ASSUME TypeOK, EveryStepIsTheRule,
                      NEW i \in FORK2_ACTIVATION_HEIGHT .. chain_height,
                      NEW j \in FORK2_ACTIVATION_HEIGHT .. chain_height,
                      i < j, unclamped(i, j)
               PROVE  baselines[j + 1] - baselines[i + 1]
                        - quotient(((j - i) * TARGET_BLOCK_TIME_SECS - (time_of[j] - time_of[i])) * FP_ONE,
                                   FORK2_TAU_SECS) \in -(j - i) .. (j - i)
    BY DEF DriftDependsOnElapsedTime
  <2>1. chain_height \in Nat /\ FORK2_ACTIVATION_HEIGHT \in Nat
    BY Heights, Constants_are_natural
  <2> DEFINE n == j - i
  <2>2. n \in Nat /\ i + n = j /\ i + n <= chain_height
    BY <2>1
  <2> HIDE DEF n
  <2>3. baselines[j + 1] - baselines[i + 1]
          - quotient(ahead(n, time_of[j] - time_of[i]), FORK2_TAU_SECS) \in -n .. n
    BY <2>2, Drift
  <2> QED
    BY <2>3 DEF ahead, n
<1>4. Spec => []EveryStepIsTheRule
  BY <1>1, <1>2, DifficultyTypeOK, PTL DEF Spec
<1> QED
  BY <1>3, <1>4, DifficultyTypeOK, PTL

(***************************************************************************)
(* The median of the last timestamps.                                      *)
(***************************************************************************)

\* From Fork 2 on every block is later than the median of the blocks before it.
LaterThanTheMedian ==
  \A h \in FORK2_ACTIVATION_HEIGHT .. chain_height :
    time_of[h] > median_time_past(h - 1, time_of)

\* The median of the last timestamps never goes back from Fork 2 on, for every value of
\* the constants, whatever the timestamps of single blocks do.
THEOREM DifficultyMedianAdvances == Spec => []MedianTimeAdvances
<1>1. Init => LaterThanTheMedian
  <2> SUFFICES ASSUME Init PROVE LaterThanTheMedian
    OBVIOUS
  <2>1. timestamps = <<0>>
    BY DEF Init
  <2>2. chain_height = 0
    BY <2>1 DEF chain_height
  <2> QED
    BY <2>2, Constants_are_natural, OrderAssumption DEF LaterThanTheMedian
<1>2. TypeOK /\ LaterThanTheMedian /\ [Next]_vars => LaterThanTheMedian'
  <2> SUFFICES ASSUME TypeOK, LaterThanTheMedian, [Next]_vars PROVE LaterThanTheMedian'
    OBVIOUS
  <2>1. ASSUME NEW gap \in Gaps, AddBlock(gap) PROVE LaterThanTheMedian'
    <3>0. /\ chain_height \in Nat
          /\ \A h \in 0 .. chain_height : time_of[h] \in Int /\ time_of[h] = timestamps[h + 1]
          /\ FORK2_ACTIVATION_HEIGHT \in Nat /\ FORK2_ACTIVATION_HEIGHT # 0
      BY Heights, Constants_are_natural, OrderAssumption
    <3>1. /\ gap \in Int /\ chain_height' = chain_height + 1 /\ time_of' = next_times(gap)
          /\ \A h \in 0 .. chain_height : next_times(gap)[h] = time_of[h]
          /\ timestamps'[chain_height + 2] = timestamps[chain_height + 1] + gap
          /\ fork2_active(chain_height + 1)
               => timestamps'[chain_height + 2] > median_time_past(chain_height, time_of)
      BY <2>1, BlockAdded
    <3>2. \A k \in 0 .. chain_height :
            median_time_past(k, next_times(gap)) = median_time_past(k, time_of)
      <4>1. TAKE k \in 0 .. chain_height
      <4>2. k \in Nat /\ \A g \in 0 .. k : time_of[g] \in Int /\ next_times(gap)[g] = time_of[g]
        <5>1. 0 .. k \subseteq 0 .. chain_height
          BY <3>0
        <5> QED
          BY <3>0, <3>1, <5>1
      <4> QED
        BY <4>2, MedianTimeStable
    <3> SUFFICES ASSUME NEW h \in FORK2_ACTIVATION_HEIGHT .. chain_height + 1
                 PROVE  next_times(gap)[h] > median_time_past(h - 1, next_times(gap))
      <4>1. LaterThanTheMedian' <=> \A h \in FORK2_ACTIVATION_HEIGHT .. chain_height' :
              time_of'[h] > median_time_past(h - 1, time_of')
        BY DEF LaterThanTheMedian
      <4> QED
        BY <3>1, <4>1
    <3>3. CASE h = chain_height + 1
      <4>1. fork2_active(chain_height + 1)
        BY <3>0, <3>3 DEF fork2_active
      <4>2. next_times(gap)[chain_height + 1] = timestamps'[chain_height + 2]
        <5>1. chain_height + 1 \in 0 .. chain_height + 1 /\ chain_height \in 0 .. chain_height
          BY <3>0
        <5>2. next_times(gap)[chain_height + 1] = time_of[chain_height] + gap
          BY <5>1 DEF next_times
        <5> QED
          BY <3>0, <3>1, <5>1, <5>2
      <4>3. h - 1 = chain_height /\ chain_height \in 0 .. chain_height
        BY <3>0, <3>3
      <4> QED
        BY <3>1, <3>2, <3>3, <4>1, <4>2, <4>3
    <3>4. CASE h # chain_height + 1
      <4>1. h \in FORK2_ACTIVATION_HEIGHT .. chain_height /\ h \in 0 .. chain_height
            /\ h - 1 \in 0 .. chain_height
        BY <3>0, <3>4
      <4> QED
        BY <3>1, <3>2, <4>1 DEF LaterThanTheMedian
    <3> QED
      BY <3>3, <3>4
  <2>2. CASE UNCHANGED vars
    <3>1. chain_height' = chain_height /\ time_of' = time_of
      BY <2>2 DEF vars, chain_height, time_of
    <3>2. LaterThanTheMedian' <=> \A h \in FORK2_ACTIVATION_HEIGHT .. chain_height' :
            time_of'[h] > median_time_past(h - 1, time_of')
      BY DEF LaterThanTheMedian
    <3> QED
      BY <3>1, <3>2 DEF LaterThanTheMedian
  <2> QED
    BY <2>1, <2>2 DEF Next
<1>3. TypeOK /\ LaterThanTheMedian => MedianTimeAdvances
  <2> SUFFICES ASSUME TypeOK, LaterThanTheMedian,
                      NEW h \in FORK2_ACTIVATION_HEIGHT .. chain_height
               PROVE  median_time_past(h, time_of) >= median_time_past(h - 1, time_of)
    BY DEF MedianTimeAdvances
  <2>1. /\ chain_height \in Nat /\ \A g \in 0 .. chain_height : time_of[g] \in Int
        /\ FORK2_ACTIVATION_HEIGHT \in Nat /\ FORK2_ACTIVATION_HEIGHT # 0
    BY Heights, Constants_are_natural, OrderAssumption
  <2>2. h - 1 \in Nat /\ (h - 1) + 1 = h /\ h \in 0 .. chain_height /\ 0 .. h \subseteq 0 .. chain_height
    BY <2>1
  <2>3. time_of[h] > median_time_past(h - 1, time_of)
    BY DEF LaterThanTheMedian
  <2> DEFINE tip == h - 1
  <2>4. tip \in Nat /\ tip + 1 = h /\ \A g \in 0 .. tip + 1 : time_of[g] \in Int
    BY <2>1, <2>2
  <2>5. time_of[tip + 1] > median_time_past(tip, time_of)
    BY <2>3, <2>4
  <2> HIDE DEF tip
  <2>6. median_time_past(tip + 1, time_of) >= median_time_past(tip, time_of)
    BY <2>4, <2>5, MedianKept
  <2> QED
    BY <2>4, <2>6 DEF tip
<1>4. Spec => []LaterThanTheMedian
  BY <1>1, <1>2, DifficultyTypeOK, PTL DEF Spec
<1> QED
  BY <1>3, <1>4, DifficultyTypeOK, PTL
=============================================================================
