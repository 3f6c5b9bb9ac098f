---------------------------- MODULE NetworkProofs ---------------------------
(***************************************************************************)
(* Theorems about Network, for any set of nodes, peer lists, clocks and    *)
(* difficulty constants, chains of any length, and a network that loses,   *)
(* delays and reorders messages: the difficulty of a node is its chain's,  *)
(* what one node holds another accepts.                                    *)
(* After them, theorems about Listener, these nodes' connections: every    *)
(* open connection is counted on every path it may end on.                 *)
(***************************************************************************)
EXTENDS Network, Listener, DifficultyProofs, SequenceTheorems

(***************************************************************************)
(* Chains and their prefixes.                                              *)
(***************************************************************************)

\* A prefix of a chain is a chain, and ends with its block at that height.
LEMMA Prefix ==
  ASSUME NEW c \in Seq(Header), NEW h \in 0 .. tip_height(c)
  PROVE  /\ prefix(c, h) \in Seq(Header) /\ Len(prefix(c, h)) = h + 1
         /\ \A i \in 1 .. h + 1 : prefix(c, h)[i] = c[i]
         /\ tip_height(prefix(c, h)) = h
<1>1. Len(c) \in Nat /\ h + 1 \in 1 .. Len(c) /\ h + 1 \in Nat
  BY DEF tip_height
<1>2. /\ SubSeq(c, 1, h + 1) \in Seq(Header)
      /\ Len(SubSeq(c, 1, h + 1)) = h + 1
      /\ \A i \in 1 .. h + 1 : SubSeq(c, 1, h + 1)[i] = c[i]
  BY <1>1
<1>3. (h + 1) - 1 = h
  BY <1>1
<1> QED
  BY <1>2, <1>3 DEF prefix, tip_height

\* A block on top of a chain: the chain's blocks are its first ones, and the chain's
\* prefixes its own.
LEMMA Extension ==
  ASSUME NEW c \in Seq(Header), c # << >>, NEW block \in Seq(Header), links(c, block)
  PROVE  /\ tip_height(c) \in Nat /\ tip_height(block) = tip_height(c) + 1
         /\ Len(block) = Len(c) + 1 /\ block # << >>
         /\ \A i \in 1 .. Len(c) : block[i] = c[i]
         /\ \A h \in 0 .. tip_height(c) : prefix(block, h) = prefix(c, h)
         /\ prefix(block, tip_height(block)) = block
<1>1. Len(c) \in Nat /\ Len(c) >= 1 /\ Len(block) = Len(c) + 1
  BY DEF links
<1>2. tip_height(c) \in Nat /\ tip_height(block) = tip_height(c) + 1
      /\ tip_height(c) + 1 = Len(c) /\ block # << >>
  BY <1>1 DEF tip_height
<1>3. c = SubSeq(block, 1, Len(c))
  <2>1. Len(block) - 1 = Len(c)
    BY <1>1
  <2> QED
    BY <2>1 DEF links, Front
<1>4. \A i \in 1 .. Len(c) : block[i] = c[i]
  <2>1. \A i \in 1 .. Len(c) : SubSeq(block, 1, Len(c))[i] = block[i]
    BY <1>1
  <2> QED
    BY <1>3, <2>1
<1>5. ASSUME NEW h \in 0 .. tip_height(c)
      PROVE  prefix(block, h) = prefix(c, h)
  <2>1. h \in 0 .. tip_height(block) /\ h + 1 <= Len(c) /\ h + 1 \in Nat
    BY <1>1, <1>2
  <2>2. /\ prefix(block, h) \in Seq(Header) /\ Len(prefix(block, h)) = h + 1
        /\ \A i \in 1 .. h + 1 : prefix(block, h)[i] = block[i]
    BY <2>1, Prefix
  <2>3. /\ prefix(c, h) \in Seq(Header) /\ Len(prefix(c, h)) = h + 1
        /\ \A i \in 1 .. h + 1 : prefix(c, h)[i] = c[i]
    BY Prefix
  <2>4. \A i \in 1 .. h + 1 : prefix(block, h)[i] = prefix(c, h)[i]
    <3>1. \A i \in 1 .. h + 1 : i \in 1 .. Len(c)
      BY <1>1, <2>1
    <3> QED
      BY <1>4, <2>2, <2>3, <3>1
  <2> QED
    BY <2>2, <2>3, <2>4, SeqEqual
<1>6. prefix(block, tip_height(block)) = block
  <2>1. tip_height(block) + 1 = Len(block)
    BY <1>1, <1>2
  <2> QED
    BY <2>1, SubSeqFull DEF prefix
<1> QED
  BY <1>1, <1>2, <1>4, <1>5, <1>6

(***************************************************************************)
(* The difficulty that a chain adds up to.                                 *)
(***************************************************************************)

\* The recursive definition of replayed_bits, as equations.
LEMMA ReplayedBits ==
  ASSUME NEW c, tip_height(c) \in Nat
  PROVE  /\ replayed_bits(c)[0] = GENESIS_DIFFICULTY_BITS
         /\ \A h \in 1 .. tip_height(c) :
              replayed_bits(c)[h]
                = bits_after(replayed_bits(c)[h - 1], prefix(c, h), gap_of(prefix(c, h)))
<1> DEFINE step(old, h) == bits_after(old, prefix(c, h), gap_of(prefix(c, h)))
           Run(f, N) == f = [h \in 0 .. N |-> IF h = 0 THEN GENESIS_DIFFICULTY_BITS
                                              ELSE step(f[h - 1], h)]
           S == {N \in Nat : \E f : Run(f, N)}
           tip == tip_height(c)
<1>0. replayed_bits(c) = CHOOSE f : Run(f, tip)
  BY DEF replayed_bits
<1> HIDE DEF step
<1>1. 0 \in S
  <2>1. Run([h \in 0 .. 0 |-> GENESIS_DIFFICULTY_BITS], 0)
    OBVIOUS
  <2> QED
    BY <2>1
<1>2. \A N \in Nat : N \in S => N + 1 \in S
  <2> SUFFICES ASSUME NEW N \in Nat, NEW f, Run(f, N) PROVE \E g : Run(g, N + 1)
    OBVIOUS
  <2> DEFINE g == [h \in 0 .. N + 1 |-> IF h = N + 1 THEN step(f[N], N + 1) ELSE f[h]]
  <2>1. \A h \in 0 .. N : f[h] = IF h = 0 THEN GENESIS_DIFFICULTY_BITS ELSE step(f[h - 1], h)
    OBVIOUS
  <2>2. ASSUME NEW h \in 0 .. N + 1
        PROVE  g[h] = IF h = 0 THEN GENESIS_DIFFICULTY_BITS ELSE step(g[h - 1], h)
    <3>1. CASE h = N + 1
      <4>1. h # 0 /\ h - 1 = N /\ N \in 0 .. N + 1 /\ N # N + 1
        BY <3>1
      <4> QED
        BY <3>1, <4>1
    <3>2. CASE h # N + 1
      <4>1. h \in 0 .. N /\ (h # 0 => h - 1 \in 0 .. N + 1 /\ h - 1 # N + 1)
        BY <3>2
      <4> HIDE DEF Run
      <4> QED
        BY <2>1, <3>2, <4>1
    <3> QED
      BY <3>1, <3>2
  <2>3. Run(g, N + 1)
    <3> DEFINE k == [h \in 0 .. N + 1 |-> IF h = 0 THEN GENESIS_DIFFICULTY_BITS ELSE step(g[h - 1], h)]
    <3>1. DOMAIN g = 0 .. N + 1 /\ g = [h \in 0 .. N + 1 |-> g[h]]
      OBVIOUS
    <3>2. \A h \in 0 .. N + 1 : g[h] = k[h]
      BY <2>2
    <3> HIDE DEF g
    <3>3. g = k
      BY <3>1, <3>2
    <3> QED
      BY <3>3
  <2> QED
    BY <2>3
<1>3. \E f : Run(f, tip)
  <2> HIDE DEF Run
  <2>1. \A N \in Nat : N \in S
    <3> HIDE DEF S
    <3> QED
      BY <1>1, <1>2, NatSetInduction
  <2> QED
    BY <2>1
<1>4. Run(replayed_bits(c), tip)
  <2> HIDE DEF Run
  <2> QED
    BY <1>0, <1>3
<1> DEFINE f == replayed_bits(c)
<1>5. f = [h \in 0 .. tip |-> IF h = 0 THEN GENESIS_DIFFICULTY_BITS ELSE step(f[h - 1], h)]
  BY <1>4
<1> HIDE DEF f
<1>6. f[0] = GENESIS_DIFFICULTY_BITS /\ \A h \in 1 .. tip : f[h] = step(f[h - 1], h)
  <2>1. 0 \in 0 .. tip /\ \A h \in 1 .. tip : h \in 0 .. tip /\ h # 0
    OBVIOUS
  <2> QED
    BY <1>5, <2>1
<1> QED
  BY <1>6 DEF f, step

\* It is a function of the blocks up to a height.
LEMMA ReplayedPrefix ==
  ASSUME NEW b, NEW c, tip_height(b) \in Nat, tip_height(c) \in Nat,
         NEW k \in Nat, k <= tip_height(b), k <= tip_height(c),
         \A h \in 0 .. k : prefix(b, h) = prefix(c, h)
  PROVE  replayed_bits(b)[k] = replayed_bits(c)[k]
<1> DEFINE f == replayed_bits(b)
           g == replayed_bits(c)
           S == {h \in Nat : h <= k => f[h] = g[h]}
<1>1. /\ f[0] = g[0]
      /\ \A h \in 1 .. tip_height(b) :
           f[h] = bits_after(f[h - 1], prefix(b, h), gap_of(prefix(b, h)))
      /\ \A h \in 1 .. tip_height(c) :
           g[h] = bits_after(g[h - 1], prefix(c, h), gap_of(prefix(c, h)))
  BY ReplayedBits
<1> HIDE DEF f, g
<1>2. 0 \in S
  BY <1>1
<1>3. \A h \in Nat : h \in S => h + 1 \in S
  <2> SUFFICES ASSUME NEW h \in Nat, h \in S, h + 1 <= k PROVE f[h + 1] = g[h + 1]
    OBVIOUS
  <2>1. /\ h + 1 \in 1 .. tip_height(b) /\ h + 1 \in 1 .. tip_height(c) /\ h + 1 \in 0 .. k
        /\ (h + 1) - 1 = h /\ f[h] = g[h]
    OBVIOUS
  <2> QED
    BY <1>1, <2>1
<1>4. \A h \in Nat : h \in S
  <2> HIDE DEF S
  <2> QED
    BY <1>2, <1>3, NatSetInduction
<1>5. k \in S
  BY <1>4
<1> QED
  BY <1>5 DEF f, g

\* With one block more, the difficulty is the one that block leaves behind.
LEMMA ReplayedExtension ==
  ASSUME NEW c \in Seq(Header), c # << >>, NEW block \in Seq(Header), links(c, block)
  PROVE  /\ \A h \in 0 .. tip_height(c) : replayed_bits(block)[h] = replayed_bits(c)[h]
         /\ replayed_bits(block)[tip_height(block)]
              = bits_after(replayed_bits(c)[tip_height(c)], block, gap_of(block))
<1>1. /\ tip_height(c) \in Nat /\ tip_height(block) = tip_height(c) + 1
      /\ \A h \in 0 .. tip_height(c) : prefix(block, h) = prefix(c, h)
      /\ prefix(block, tip_height(block)) = block
  BY Extension
<1>2. ASSUME NEW h \in 0 .. tip_height(c)
      PROVE  replayed_bits(block)[h] = replayed_bits(c)[h]
  <2>1. /\ tip_height(block) \in Nat /\ h \in Nat /\ h <= tip_height(block) /\ h <= tip_height(c)
        /\ 0 .. h \subseteq 0 .. tip_height(c)
    BY <1>1
  <2> QED
    BY <1>1, <2>1, ReplayedPrefix
<1>3. tip_height(block) \in Nat /\ tip_height(block) \in 1 .. tip_height(block)
      /\ tip_height(block) - 1 = tip_height(c) /\ tip_height(c) \in 0 .. tip_height(c)
  BY <1>1
<1>4. replayed_bits(block)[tip_height(block)]
        = bits_after(replayed_bits(block)[tip_height(block) - 1], prefix(block, tip_height(block)),
                     gap_of(prefix(block, tip_height(block))))
  BY <1>3, ReplayedBits
<1> QED
  BY <1>1, <1>2, <1>3, <1>4

(***************************************************************************)
(* Times.                                                                  *)
(***************************************************************************)

\* The times of a chain are integers, and so are the median of its last ones and the
\* gap of its last block.
LEMMA Times ==
  ASSUME NEW c \in Seq(Header), c # << >>
  PROVE  /\ tip_height(c) \in Nat /\ Len(c) = tip_height(c) + 1
         /\ \A h \in 0 .. tip_height(c) : /\ timestamp_at(c, h) \in Int
                                          /\ timestamp_at(c, h) = c[h + 1].timestamp
                                          /\ times(c)[h] = timestamp_at(c, h)
         /\ tip_height(c) > 0 => gap_of(c) \in Int
<1>1. tip_height(c) \in Nat /\ Len(c) = tip_height(c) + 1
  BY DEF tip_height
<1>2. \A h \in 0 .. tip_height(c) : timestamp_at(c, h) \in Int
  <2>1. TAKE h \in 0 .. tip_height(c)
  <2>2. h + 1 \in 1 .. Len(c)
    BY <1>1
  <2>3. c[h + 1] \in Header
    BY <2>2
  <2> QED
    BY <2>3 DEF Header, timestamp_at
<1>3. \A h \in 0 .. tip_height(c) : times(c)[h] = timestamp_at(c, h)
  BY DEF times
<1>4. tip_height(c) > 0 => gap_of(c) \in Int
  <2> SUFFICES ASSUME tip_height(c) > 0 PROVE gap_of(c) \in Int
    OBVIOUS
  <2>1. tip_height(c) \in 0 .. tip_height(c) /\ tip_height(c) - 1 \in 0 .. tip_height(c)
    BY <1>1
  <2>2. timestamp_at(c, tip_height(c)) \in Int /\ timestamp_at(c, tip_height(c) - 1) \in Int
    BY <1>2, <2>1
  <2> QED
    BY <2>2 DEF gap_of
<1> QED
  BY <1>1, <1>2, <1>3, <1>4 DEF timestamp_at

\* The median at a height is one of the times up to it.
LEMMA MedianIsATime ==
  ASSUME NEW c \in Seq(Header), c # << >>, NEW h \in 0 .. tip_height(c)
  PROVE  \E i \in 0 .. h : mtp(c, h) = timestamp_at(c, i) /\ mtp(c, h) \in Int
<1>1. /\ tip_height(c) \in Nat
      /\ \A i \in 0 .. tip_height(c) : times(c)[i] = timestamp_at(c, i) /\ timestamp_at(c, i) \in Int
  BY Times
<1>2. h \in Nat /\ 0 .. h \subseteq 0 .. tip_height(c)
  BY <1>1
<1> DEFINE ts == times(c)
<1>3. \A i \in 0 .. h : ts[i] \in Int /\ ts[i] = timestamp_at(c, i)
  BY <1>1, <1>2
<1>4. mtp(c, h) = median_time_past(h, ts)
  BY DEF mtp
<1> HIDE DEF ts
<1>5. PICK i \in window(h) : median_time_past(h, ts) = ts[i]
  BY <1>2, <1>3, MedianTime
<1>6. i \in 0 .. h
  BY <1>2, <1>5, Window
<1> QED
  BY <1>3, <1>4, <1>5, <1>6

\* The stored difficulty stays a natural number.
LEMMA BitsAfter ==
  ASSUME NEW c \in Seq(Header), c # << >>, NEW bits \in Nat, NEW gap \in Int
  PROVE  bits_after(bits, c, gap) \in Nat
<1>1. tip_height(c) \in Nat
  BY Times
<1> DEFINE ts == times(c)
<1>2. bits_after(bits, c, gap) = difficulty_after(bits, tip_height(c), gap, ts)
  BY DEF bits_after
<1> HIDE DEF ts
<1> QED
  BY <1>1, <1>2, DifficultyAfterIsNatural

(***************************************************************************)
(* What honest nodes produce: timestamps rise along a chain, for a node    *)
(* mines only MIN_BLOCK_INTERVAL_SECS after its tip by its own clock; the  *)
(* median is then never above the tip, so mining never lifts a timestamp,  *)
(* and none is above the clock of the node that mined it.                  *)
(***************************************************************************)

Rising(c) == \A i, j \in 1 .. Len(c) : i < j => c[i].timestamp < c[j].timestamp
ByTheClock(c, clock) ==
  \A i \in 2 .. Len(c) : \E m \in Nodes : c[i].timestamp <= clock + Skew[m]
HonestChains(clock) == {c \in Seq(Header) : Rising(c) /\ ByTheClock(c, clock)}

\* An honest chain stays one as time passes.
LEMMA HonestLater ==
  ASSUME NEW t1 \in Nat, NEW t2 \in Nat, t1 <= t2
  PROVE  HonestChains(t1) \subseteq HonestChains(t2)
<1> SUFFICES ASSUME NEW c \in HonestChains(t1) PROVE ByTheClock(c, t2)
  BY DEF HonestChains
<1> SUFFICES ASSUME NEW i \in 2 .. Len(c)
             PROVE  \E m \in Nodes : c[i].timestamp <= t2 + Skew[m]
  BY DEF ByTheClock
<1>1. PICK m \in Nodes : c[i].timestamp <= t1 + Skew[m]
  BY DEF HonestChains, ByTheClock
<1>2. c \in Seq(Header) /\ i \in 1 .. Len(c)
  BY DEF HonestChains
<1>3. c[i].timestamp \in Int
  <2>1. c[i] \in Header
    BY <1>2
  <2> QED
    BY <2>1 DEF Header
<1>4. Skew[m] \in Int
  BY NetworkAssumption
<1> QED
  BY <1>1, <1>3, <1>4

\* Its prefixes are honest.
LEMMA HonestPrefix ==
  ASSUME NEW t \in Nat, NEW c \in HonestChains(t), NEW k \in 0 .. Len(c)
  PROVE  SubSeq(c, 1, k) \in HonestChains(t)
<1>1. c \in Seq(Header) /\ Len(c) \in Nat /\ Rising(c) /\ ByTheClock(c, t)
  BY DEF HonestChains
<1> DEFINE d == SubSeq(c, 1, k)
<1>2. d \in Seq(Header) /\ Len(d) = k /\ \A i \in 1 .. k : d[i] = c[i]
  BY <1>1
<1>3. 1 .. k \subseteq 1 .. Len(c) /\ 2 .. k \subseteq 2 .. Len(c) /\ 2 .. k \subseteq 1 .. k
  BY <1>1
<1> HIDE DEF d
<1>4. Rising(d)
  BY <1>1, <1>2, <1>3 DEF Rising
<1>5. ByTheClock(d, t)
  BY <1>1, <1>2, <1>3 DEF ByTheClock
<1> QED
  BY <1>2, <1>4, <1>5 DEF HonestChains, d

\* The median of an honest chain is not above its tip.
LEMMA HonestMedian ==
  ASSUME NEW t \in Nat, NEW c \in HonestChains(t), c # << >>
  PROVE  mtp(c, tip_height(c)) <= timestamp_at(c, tip_height(c))
<1>1. c \in Seq(Header) /\ Rising(c)
  BY DEF HonestChains
<1>2. /\ tip_height(c) \in Nat /\ Len(c) = tip_height(c) + 1
      /\ \A h \in 0 .. tip_height(c) : timestamp_at(c, h) \in Int
                                       /\ timestamp_at(c, h) = c[h + 1].timestamp
  BY <1>1, Times
<1>3. tip_height(c) \in 0 .. tip_height(c)
  BY <1>2
<1>4. PICK i \in 0 .. tip_height(c) : mtp(c, tip_height(c)) = timestamp_at(c, i)
  BY <1>1, <1>3, MedianIsATime
<1>5. CASE i = tip_height(c)
  BY <1>2, <1>3, <1>4, <1>5
<1>6. CASE i # tip_height(c)
  <2>1. i + 1 \in 1 .. Len(c) /\ Len(c) \in 1 .. Len(c) /\ i + 1 < Len(c)
    BY <1>2, <1>6
  <2>2. c[i + 1].timestamp < c[Len(c)].timestamp
    BY <1>1, <2>1 DEF Rising
  <2>3. timestamp_at(c, i) < timestamp_at(c, tip_height(c))
    BY <1>2, <1>3, <2>2
  <2> QED
    BY <1>2, <1>3, <1>4, <2>3
<1> QED
  BY <1>5, <1>6

\* A block later than the tip and not later than a clock keeps a chain honest.
LEMMA HonestMined ==
  ASSUME NEW t \in Nat, NEW c \in HonestChains(t), c # << >>, NEW b \in Header,
         b.timestamp > timestamp_at(c, tip_height(c)),
         NEW n \in Nodes, b.timestamp <= t + Skew[n]
  PROVE  Append(c, b) \in HonestChains(t)
<1>1. c \in Seq(Header) /\ Rising(c) /\ ByTheClock(c, t) /\ b.timestamp \in Int
  BY DEF HonestChains, Header
<1>2. /\ Len(c) \in Nat /\ Len(c) >= 1
      /\ timestamp_at(c, tip_height(c)) = c[Len(c)].timestamp
      /\ \A i \in 1 .. Len(c) : c[i].timestamp \in Int
  <2>1. Len(c) \in Nat /\ Len(c) >= 1 /\ (Len(c) - 1) + 1 = Len(c)
    BY <1>1
  <2>2. \A i \in 1 .. Len(c) : c[i] \in Header
    BY <1>1
  <2> QED
    BY <2>1, <2>2 DEF Header, timestamp_at, tip_height
<1> DEFINE d == Append(c, b)
<1>3. /\ d \in Seq(Header) /\ Len(d) = Len(c) + 1 /\ d[Len(c) + 1] = b
      /\ \A i \in 1 .. Len(c) : d[i] = c[i]
  BY <1>1
<1> HIDE DEF d
<1>4. Rising(d)
  <2> SUFFICES ASSUME NEW i \in 1 .. Len(d), NEW j \in 1 .. Len(d), i < j
               PROVE  d[i].timestamp < d[j].timestamp
    BY DEF Rising
  <2>1. i \in 1 .. Len(c) /\ Len(c) \in 1 .. Len(c)
    BY <1>2, <1>3
  <2>2. CASE j = Len(c) + 1
    <3>1. i = Len(c) \/ c[i].timestamp < c[Len(c)].timestamp
      BY <1>1, <1>2, <2>1 DEF Rising
    <3> QED
      BY <1>1, <1>2, <1>3, <2>1, <2>2, <3>1
  <2>3. CASE j # Len(c) + 1
    <3>1. j \in 1 .. Len(c)
      BY <1>2, <1>3, <2>3
    <3> QED
      BY <1>1, <1>3, <2>1, <3>1 DEF Rising
  <2> QED
    BY <2>2, <2>3
<1>5. ByTheClock(d, t)
  <2> SUFFICES ASSUME NEW i \in 2 .. Len(d)
               PROVE  \E m \in Nodes : d[i].timestamp <= t + Skew[m]
    BY DEF ByTheClock
  <2>1. CASE i = Len(c) + 1
    BY <1>3, <2>1
  <2>2. CASE i # Len(c) + 1
    <3>1. i \in 2 .. Len(c) /\ i \in 1 .. Len(c)
      BY <1>2, <1>3, <2>2
    <3> QED
      BY <1>1, <1>3, <3>1 DEF ByTheClock
  <2> QED
    BY <2>1, <2>2
<1> QED
  BY <1>3, <1>4, <1>5 DEF HonestChains, d

(***************************************************************************)
(* The inductive invariant.  That every block anywhere (on a node, on its  *)
(* way, in an answer, waiting to be offered) is the end of an honest chain *)
(* is what the property about clocks rests on.                             *)
(***************************************************************************)

Stages == {"idle", "read", "fetch", "apply", "offer"}
TaskStates(clock) ==
  [stage : Stages, peer : Nat, our_height : Nat, batch : Seq(HonestChains(clock)),
   offered : HonestChains(clock)]
TaskOK(n, state, tip) ==
  /\ state.peer \in 0 .. Len(PeerList[n])
  /\ state.our_height <= tip
  /\ (state.stage = "apply") <=> (state.batch # << >>)

ChainsOK ==
  /\ chain \in [Nodes -> HonestChains(now)]
  /\ \A n \in Nodes : chain[n] # << >>
  /\ difficulty_bits \in [Nodes -> Nat]
TasksOK ==
  /\ task \in [Nodes -> [Tasks -> TaskStates(now)]]
  /\ \A n \in Nodes, t \in Tasks : TaskOK(n, task[n][t], tip_height(chain[n]))
Shape ==
  /\ ChainsOK
  /\ now \in 0 .. MaxTime
  /\ inflight \subseteq [to : Nodes, block : HonestChains(now)]
  /\ TasksOK

\* The type invariant is part of it.
LEMMA ShapeImpliesTypeOK == Shape => TypeOK
<1> SUFFICES ASSUME Shape PROVE TypeOK
  OBVIOUS
<1>1. HonestChains(now) \subseteq Seq(Header)
  BY DEF HonestChains
<1>2. /\ \A n \in Nodes : chain[n] \in Seq(Header) /\ chain[n] # << >>
      /\ difficulty_bits \in [Nodes -> Nat] /\ now \in 0 .. MaxTime
  BY <1>1 DEF Shape, ChainsOK
<1>3. \A m \in inflight : m.to \in Nodes /\ m.block \in Seq(Header)
  BY <1>1 DEF Shape
<1>4. ASSUME NEW n \in Nodes, NEW t \in Tasks
      PROVE  /\ task[n][t].stage \in {"idle", "read", "fetch", "apply", "offer"}
             /\ task[n][t].peer \in 0 .. Len(PeerList[n])
             /\ task[n][t].our_height \in 0 .. tip_height(chain[n])
             /\ (task[n][t].stage = "apply") <=> (task[n][t].batch # << >>)
  <2>1. task[n][t] \in TaskStates(now) /\ TaskOK(n, task[n][t], tip_height(chain[n]))
    BY DEF Shape, TasksOK
  <2>2. tip_height(chain[n]) \in Nat
    BY <1>2, Times
  <2> QED
    BY <2>1, <2>2 DEF TaskStates, TaskOK, Stages
<1> QED
  BY <1>2, <1>3, <1>4 DEF TypeOK

\* A record of certain fields is one of any fields that they belong to.
LEMMA WiderRecords ==
  ASSUME NEW s, NEW p, NEW o, NEW b, NEW f,
         NEW S, NEW P, NEW O, NEW B, NEW F, s \in S, p \in P, o \in O, b \in B, f \in F,
         NEW r \in [stage : {s}, peer : {p}, our_height : {o}, batch : {b}, offered : {f}]
  PROVE  r \in [stage : S, peer : P, our_height : O, batch : B, offered : F]
OBVIOUS

\* Idle, and a task that turns to a peer, are task states without a batch.
LEMMA TurnTo ==
  ASSUME NEW t \in Nat, NEW n \in Nodes, NEW i \in Nat, NEW offered \in HonestChains(t)
  PROVE  /\ turn_to(n, i, offered) \in TaskStates(t)
         /\ \A tip \in Nat : TaskOK(n, turn_to(n, i, offered), tip)
         /\ Idle \in TaskStates(t) /\ \A tip \in Nat : TaskOK(n, Idle, tip)
         /\ [Idle EXCEPT !.stage = "offer", !.offered = offered] \in TaskStates(t)
         /\ \A tip \in Nat : TaskOK(n, [Idle EXCEPT !.stage = "offer", !.offered = offered], tip)
<1>1. << >> \in HonestChains(t) /\ << >> \in Seq(HonestChains(t))
  BY DEF HonestChains, Rising, ByTheClock
<1>2. PeerList[n] \in Seq(Nodes) /\ Len(PeerList[n]) \in Nat
  BY PeersAssumption
<1> DEFINE asking == [Idle EXCEPT !.stage = "read", !.peer = i, !.offered = offered]
           offering == [Idle EXCEPT !.stage = "offer", !.offered = offered]
<1>3. Idle \in TaskStates(t) /\ \A tip \in Nat : TaskOK(n, Idle, tip)
  BY <1>1, <1>2 DEF Idle, TaskStates, TaskOK, Stages, NoBlock
<1>4. offering \in TaskStates(t) /\ \A tip \in Nat : TaskOK(n, offering, tip)
  <2>1. offering \in [stage : {"offer"}, peer : {0}, our_height : {0}, batch : {<< >>},
                      offered : {offered}]
    BY DEF Idle
  <2> HIDE DEF offering
  <2>2. /\ offering.stage = "offer" /\ offering.peer = 0 /\ offering.our_height = 0
        /\ offering.batch = << >>
    BY <2>1
  <2>3. offering \in TaskStates(t)
    <3>1. "offer" \in Stages /\ 0 \in Nat
      BY DEF Stages
    <3> QED
      BY <1>1, <2>1, <3>1, WiderRecords DEF TaskStates
  <2>4. \A tip \in Nat : TaskOK(n, offering, tip)
    BY <1>2, <2>2 DEF TaskOK
  <2> QED
    BY <2>3, <2>4
<1>5. i <= Len(PeerList[n]) => asking \in TaskStates(t) /\ \A tip \in Nat : TaskOK(n, asking, tip)
  <2>1. asking \in [stage : {"read"}, peer : {i}, our_height : {0}, batch : {<< >>},
                    offered : {offered}]
    BY DEF Idle
  <2> HIDE DEF asking
  <2>2. /\ asking.stage = "read" /\ asking.peer = i /\ asking.our_height = 0
        /\ asking.batch = << >>
    BY <2>1
  <2>3. asking \in TaskStates(t)
    <3>1. "read" \in Stages /\ i \in Nat /\ 0 \in Nat
      BY DEF Stages
    <3> QED
      BY <1>1, <2>1, <3>1, WiderRecords DEF TaskStates
  <2>4. i <= Len(PeerList[n]) => \A tip \in Nat : TaskOK(n, asking, tip)
    BY <1>2, <2>2 DEF TaskOK
  <2> QED
    BY <2>3, <2>4
<1>6. turn_to(n, i, offered) = IF i <= Len(PeerList[n]) THEN asking
                               ELSE IF offered # NoBlock THEN offering ELSE Idle
  BY DEF turn_to
<1> HIDE DEF asking, offering
<1>7. turn_to(n, i, offered) \in TaskStates(t) /\ \A tip \in Nat : TaskOK(n, turn_to(n, i, offered), tip)
  BY <1>3, <1>4, <1>5, <1>6
<1> QED
  BY <1>3, <1>4, <1>7 DEF offering

\* A peer's answer is a sequence of honest chains.
LEMMA BlocksFrom ==
  ASSUME NEW t \in Nat, NEW c \in HonestChains(t), c # << >>, NEW from \in Nat
  PROVE  blocks_from(c, from) \in Seq(HonestChains(t))
<1>1. c \in Seq(Header) /\ Len(c) \in Nat /\ tip_height(c) \in Nat /\ Len(c) = tip_height(c) + 1
  <2>1. c \in Seq(Header)
    BY DEF HonestChains
  <2> QED
    BY <2>1, Times
<1>2. MAX_BLOCKS_PER_RESPONSE \in Nat
  BY PeersAssumption
<1> DEFINE last == lesser(tip_height(c), from + MAX_BLOCKS_PER_RESPONSE - 1)
           k == greater(last - from + 1, 0)
<1>3. last \in Int /\ last <= tip_height(c)
  BY <1>1, <1>2 DEF lesser
<1> HIDE DEF last
<1>4. k \in Nat /\ \A i \in 1 .. k : from + i \in 0 .. Len(c)
  BY <1>1, <1>3 DEF greater
<1>5. blocks_from(c, from) = [i \in 1 .. k |-> SubSeq(c, 1, from + i)]
  BY DEF blocks_from, last
<1> HIDE DEF k
<1>6. \A i \in 1 .. k : SubSeq(c, 1, from + i) \in HonestChains(t)
  BY <1>4, HonestPrefix
<1> QED
  BY <1>4, <1>5, <1>6

\* What a node accepts or refuses keeps its chain and its difficulty in shape, and its
\* chain never gets shorter.
LEMMA Applied ==
  ASSUME Shape, NEW n \in Nodes, NEW block \in HonestChains(now), apply_verified_block(n, block),
         now' = now
  PROVE  ChainsOK' /\ \A k \in Nodes : tip_height(chain'[k]) \in Nat
                                        /\ tip_height(chain'[k]) >= tip_height(chain[k])
<1>1. /\ chain \in [Nodes -> HonestChains(now)] /\ \A k \in Nodes : chain[k] # << >>
      /\ difficulty_bits \in [Nodes -> Nat]
      /\ HonestChains(now) \subseteq Seq(Header)
  BY DEF Shape, ChainsOK, HonestChains
<1>2. \A k \in Nodes : chain[k] \in Seq(Header) /\ tip_height(chain[k]) \in Nat
  BY <1>1, Times
<1>3. CASE accepts(n, block)
  <2>1. chain' = [chain EXCEPT ![n] = block]
        /\ difficulty_bits' = [difficulty_bits EXCEPT ![n] = bits_after(@, block, gap_of(block))]
    BY <1>3 DEF apply_verified_block
  <2>2. block \in Seq(Header) /\ chain[n] \in Seq(Header) /\ chain[n] # << >> /\ links(chain[n], block)
    BY <1>1, <1>2, <1>3 DEF accepts
  <2>3. block # << >> /\ tip_height(block) = tip_height(chain[n]) + 1
    BY <2>2, Extension
  <2>4. gap_of(block) \in Int
    BY <1>2, <2>2, <2>3, Times
  <2>5. bits_after(difficulty_bits[n], block, gap_of(block)) \in Nat
    BY <1>1, <2>2, <2>3, <2>4, BitsAfter
  <2> DEFINE bits == bits_after(difficulty_bits[n], block, gap_of(block))
  <2>6. difficulty_bits' = [difficulty_bits EXCEPT ![n] = bits] /\ bits \in Nat
    BY <2>1, <2>5
  <2> HIDE DEF bits
  <2>7. /\ chain' \in [Nodes -> HonestChains(now)] /\ difficulty_bits' \in [Nodes -> Nat]
        /\ \A k \in Nodes : chain'[k] = IF k = n THEN block ELSE chain[k]
    BY <1>1, <2>1, <2>6
  <2>8. ChainsOK'
    BY <1>1, <2>3, <2>7 DEF ChainsOK
  <2>9. ASSUME NEW k \in Nodes
        PROVE  tip_height(chain'[k]) \in Nat /\ tip_height(chain'[k]) >= tip_height(chain[k])
    <3>1. CASE k = n
      <4>1. tip_height(chain[n]) \in Nat /\ chain'[k] = block
        BY <1>2, <2>7, <3>1
      <4> QED
        BY <2>3, <3>1, <4>1
    <3>2. CASE k # n
      BY <1>2, <2>7, <3>2
    <3> QED
      BY <3>1, <3>2
  <2> QED
    BY <2>8, <2>9
<1>4. CASE ~ accepts(n, block)
  <2>1. chain' = chain /\ difficulty_bits' = difficulty_bits
    BY <1>4 DEF apply_verified_block
  <2> QED
    BY <1>1, <1>2, <2>1 DEF ChainsOK
<1> QED
  BY <1>3, <1>4

\* A task's step to a well-formed state keeps the shape, whatever it did to the chains.
LEMMA TaskStep ==
  ASSUME Shape, now' = now, inflight' \subseteq inflight, ChainsOK',
         \A k \in Nodes : tip_height(chain[k]) \in Nat /\ tip_height(chain'[k]) \in Nat
                          /\ tip_height(chain'[k]) >= tip_height(chain[k]),
         NEW n \in Nodes, NEW t \in Tasks, NEW state \in TaskStates(now),
         TaskOK(n, state, tip_height(chain[n])), set_task(n, t, state)
  PROVE  Shape'
<1>1. /\ task \in [Nodes -> [Tasks -> TaskStates(now)]]
      /\ \A k \in Nodes, s \in Tasks : TaskOK(k, task[k][s], tip_height(chain[k]))
  BY DEF Shape, TasksOK
<1>2. task' = [task EXCEPT ![n][t] = state]
  BY DEF set_task
<1>3. /\ task' \in [Nodes -> [Tasks -> TaskStates(now)]]
      /\ \A k \in Nodes, s \in Tasks : task'[k][s] = IF k = n /\ s = t THEN state ELSE task[k][s]
  BY <1>1, <1>2
<1>4. \A k \in Nodes, s \in Tasks : TaskOK(k, task'[k][s], tip_height(chain[k]))
                                    /\ task'[k][s].our_height \in Nat
  BY <1>1, <1>3 DEF TaskStates
<1>5. \A k \in Nodes, s \in Tasks : TaskOK(k, task'[k][s], tip_height(chain'[k]))
  BY <1>4 DEF TaskOK
<1> QED
  BY <1>3, <1>5 DEF Shape, TasksOK

\* The changes the catch-up makes to its task.
with_batch(r, s, b) == [r EXCEPT !.stage = s, !.batch = b]
with_height(r, s, h) == [r EXCEPT !.stage = s, !.our_height = h]
with_rest(r, b) == [r EXCEPT !.batch = b]

\* A task state with another stage and batch.
LEMMA NewBatch ==
  ASSUME NEW t \in Nat, NEW r \in TaskStates(t), NEW s \in Stages, NEW b \in Seq(HonestChains(t))
  PROVE  /\ with_batch(r, s, b) \in TaskStates(t)
         /\ with_batch(r, s, b).stage = s
         /\ with_batch(r, s, b).batch = b
         /\ with_batch(r, s, b).peer = r.peer
         /\ with_batch(r, s, b).our_height = r.our_height
<1> DEFINE x == with_batch(r, s, b)
           H == HonestChains(t)
           B == Seq(H)
<1>1. TaskStates(t) = [stage : Stages, peer : Nat, our_height : Nat, batch : B, offered : H]
  BY DEF TaskStates
<1>2. b \in B
  OBVIOUS
<1>0. x = [r EXCEPT !.stage = s, !.batch = b]
  BY DEF with_batch
<1> HIDE DEF B, H
<1>3. r \in [stage : Stages, peer : Nat, our_height : Nat, batch : B, offered : H]
  BY <1>1
<1>4. /\ x.stage = s
      /\ x.batch = b
      /\ x.peer = r.peer
      /\ x.our_height = r.our_height
  BY <1>3, <1>0
<1>5. x \in [stage : Stages, peer : Nat, our_height : Nat, batch : B, offered : H]
  BY <1>2, <1>3, <1>0
<1> QED
  BY <1>1, <1>4, <1>5

\* A task state with another stage and height.
LEMMA NewHeight ==
  ASSUME NEW t \in Nat, NEW r \in TaskStates(t), NEW s \in Stages, NEW h \in Nat
  PROVE  /\ with_height(r, s, h) \in TaskStates(t)
         /\ with_height(r, s, h).stage = s
         /\ with_height(r, s, h).batch = r.batch
         /\ with_height(r, s, h).peer = r.peer
         /\ with_height(r, s, h).our_height = h
<1> DEFINE x == with_height(r, s, h)
           H == HonestChains(t)
           B == Seq(H)
<1>1. TaskStates(t) = [stage : Stages, peer : Nat, our_height : Nat, batch : B, offered : H]
  BY DEF TaskStates
<1>2. h \in Nat
  OBVIOUS
<1>0. x = [r EXCEPT !.stage = s, !.our_height = h]
  BY DEF with_height
<1> HIDE DEF B, H
<1>3. r \in [stage : Stages, peer : Nat, our_height : Nat, batch : B, offered : H]
  BY <1>1
<1>4. /\ x.stage = s
      /\ x.batch = r.batch
      /\ x.peer = r.peer
      /\ x.our_height = h
  BY <1>3, <1>0
<1>5. x \in [stage : Stages, peer : Nat, our_height : Nat, batch : B, offered : H]
  BY <1>2, <1>3, <1>0
<1> QED
  BY <1>1, <1>4, <1>5

\* A task state with another batch.
LEMMA RestOfBatch ==
  ASSUME NEW t \in Nat, NEW r \in TaskStates(t), NEW b \in Seq(HonestChains(t))
  PROVE  /\ with_rest(r, b) \in TaskStates(t)
         /\ with_rest(r, b).stage = r.stage
         /\ with_rest(r, b).batch = b
         /\ with_rest(r, b).peer = r.peer
         /\ with_rest(r, b).our_height = r.our_height
<1> DEFINE x == with_rest(r, b)
           H == HonestChains(t)
           B == Seq(H)
<1>1. TaskStates(t) = [stage : Stages, peer : Nat, our_height : Nat, batch : B, offered : H]
  BY DEF TaskStates
<1>2. b \in B
  OBVIOUS
<1>0. x = [r EXCEPT !.batch = b]
  BY DEF with_rest
<1> HIDE DEF B, H
<1>3. r \in [stage : Stages, peer : Nat, our_height : Nat, batch : B, offered : H]
  BY <1>1
<1>4. /\ x.stage = r.stage
      /\ x.batch = b
      /\ x.peer = r.peer
      /\ x.our_height = r.our_height
  BY <1>3, <1>0
<1>5. x \in [stage : Stages, peer : Nat, our_height : Nat, batch : B, offered : H]
  BY <1>2, <1>3, <1>0
<1> QED
  BY <1>1, <1>4, <1>5

\* Every node knows its chain's height, and what its tasks are up to.
LEMMA ShapeFacts ==
  ASSUME Shape
  PROVE  /\ now \in Nat
         /\ \A n \in Nodes : /\ chain[n] \in HonestChains(now) /\ chain[n] \in Seq(Header)
                             /\ chain[n] # << >> /\ tip_height(chain[n]) \in Nat
                             /\ Len(chain[n]) = tip_height(chain[n]) + 1
                             /\ difficulty_bits[n] \in Nat
         /\ \A n \in Nodes, t \in Tasks :
              /\ task[n][t] \in TaskStates(now) /\ TaskOK(n, task[n][t], tip_height(chain[n]))
              /\ task[n][t].stage \in Stages /\ task[n][t].peer \in Nat
              /\ task[n][t].our_height \in Nat /\ task[n][t].batch \in Seq(HonestChains(now))
              /\ task[n][t].offered \in HonestChains(now)
         /\ \A m \in inflight : m.to \in Nodes /\ m.block \in HonestChains(now)
<1>1. now \in Nat
  BY NetworkAssumption DEF Shape
<1>2. ASSUME NEW n \in Nodes
      PROVE  /\ chain[n] \in HonestChains(now) /\ chain[n] \in Seq(Header)
             /\ chain[n] # << >> /\ tip_height(chain[n]) \in Nat
             /\ Len(chain[n]) = tip_height(chain[n]) + 1
             /\ difficulty_bits[n] \in Nat
  <2>1. chain[n] \in HonestChains(now) /\ chain[n] \in Seq(Header) /\ chain[n] # << >>
        /\ difficulty_bits[n] \in Nat
    BY DEF Shape, ChainsOK, HonestChains
  <2> QED
    BY <2>1, Times
<1>3. ASSUME NEW n \in Nodes, NEW t \in Tasks
      PROVE  /\ task[n][t] \in TaskStates(now) /\ TaskOK(n, task[n][t], tip_height(chain[n]))
             /\ task[n][t].stage \in Stages /\ task[n][t].peer \in Nat
             /\ task[n][t].our_height \in Nat /\ task[n][t].batch \in Seq(HonestChains(now))
             /\ task[n][t].offered \in HonestChains(now)
  <2>1. task[n][t] \in TaskStates(now) /\ TaskOK(n, task[n][t], tip_height(chain[n]))
    BY DEF Shape, TasksOK
  <2> QED
    BY <2>1 DEF TaskStates
<1>4. \A m \in inflight : m.to \in Nodes /\ m.block \in HonestChains(now)
  BY DEF Shape
<1> QED
  BY <1>1, <1>2, <1>3, <1>4

\* The initial state is in shape.
LEMMA ShapeInit == Init => Shape
<1> SUFFICES ASSUME Init PROVE Shape
  OBVIOUS
<1>1. now \in 0 .. MaxTime /\ now \in Nat
  BY NetworkAssumption DEF Init
<1>2. <<genesis_block>> \in HonestChains(now)
  <2>1. genesis_block \in Header
    BY DEF genesis_block, Header
  <2>2. <<genesis_block>> \in Seq(Header) /\ Len(<<genesis_block>>) = 1
    BY <2>1
  <2> QED
    BY <2>2 DEF HonestChains, Rising, ByTheClock
<1>3. chain \in [Nodes -> HonestChains(now)] /\ \A n \in Nodes : chain[n] = <<genesis_block>>
  BY <1>2 DEF Init
<1>4. ChainsOK
  BY <1>3, NetworkAssumption DEF Init, ChainsOK
<1>5. TasksOK
  <2>1. ASSUME NEW n \in Nodes PROVE Idle \in TaskStates(now) /\ \A tip \in Nat : TaskOK(n, Idle, tip)
    <3>1. << >> \in HonestChains(now)
      BY DEF HonestChains, Rising, ByTheClock
    <3> QED
      BY <1>1, <3>1, TurnTo
  <2>2. task = [n \in Nodes |-> [t \in Tasks |-> Idle]]
    BY DEF Init
  <2>3. \A n \in Nodes : tip_height(chain[n]) = 0
    BY <1>3 DEF tip_height
  <2> QED
    BY <2>1, <2>2, <2>3 DEF TasksOK
<1> QED
  BY <1>1, <1>4, <1>5 DEF Init, Shape

\* A step of a task that leaves the chains alone.
LEMMA TaskOnlyStep ==
  ASSUME Shape, UNCHANGED <<chain, difficulty_bits, now>>, inflight' \subseteq inflight,
         NEW n \in Nodes, NEW t \in Tasks, NEW state \in TaskStates(now),
         TaskOK(n, state, tip_height(chain[n])), set_task(n, t, state)
  PROVE  Shape'
<1>1. ChainsOK'
  BY DEF Shape, ChainsOK
<1>2. \A k \in Nodes : tip_height(chain[k]) \in Nat /\ tip_height(chain'[k]) \in Nat
                       /\ tip_height(chain'[k]) >= tip_height(chain[k])
  BY ShapeFacts
<1> QED
  BY <1>1, <1>2, TaskStep

\* The steps of the catch-up, of the loop and of a handler.
LEMMA TaskSteps ==
  ASSUME Shape, NEW n \in Nodes, NEW t \in Tasks
  PROVE  /\ WakeLoop(n) => Shape'
         /\ CatchUp(n, t) => Shape'
         /\ \A m \in inflight : ReceiveBlock(n, t, m) => Shape'
<1> DEFINE this == task[n][t]
<1>1. /\ now \in Nat
      /\ \A k \in Nodes : /\ chain[k] \in HonestChains(now) /\ chain[k] # << >>
                          /\ tip_height(chain[k]) \in Nat
      /\ \A m \in inflight : m.to \in Nodes /\ m.block \in HonestChains(now)
  BY ShapeFacts
<1>2. /\ this \in TaskStates(now) /\ TaskOK(n, this, tip_height(chain[n]))
      /\ this.stage \in Stages /\ this.peer \in Nat /\ this.our_height \in Nat
      /\ this.batch \in Seq(HonestChains(now)) /\ this.offered \in HonestChains(now)
  BY ShapeFacts
<1>3. NoBlock \in HonestChains(now)
  BY DEF NoBlock, HonestChains, Rising, ByTheClock
\* Whatever the task turns to.
<1>4. ASSUME NEW i \in Nat, NEW offered \in HonestChains(now)
      PROVE  /\ turn_to(n, i, offered) \in TaskStates(now)
             /\ TaskOK(n, turn_to(n, i, offered), tip_height(chain[n]))
             /\ Idle \in TaskStates(now) /\ TaskOK(n, Idle, tip_height(chain[n]))
             /\ [Idle EXCEPT !.stage = "offer", !.offered = offered] \in TaskStates(now)
             /\ TaskOK(n, [Idle EXCEPT !.stage = "offer", !.offered = offered],
                       tip_height(chain[n]))
  BY <1>1, TurnTo
<1>5. WakeLoop(n) => Shape'
  <2> SUFFICES ASSUME WakeLoop(n) PROVE Shape'
    OBVIOUS
  <2>1. /\ set_task(n, "loop", turn_to(n, 1, NoBlock))
        /\ UNCHANGED <<chain, difficulty_bits, now, inflight>> /\ "loop" \in Tasks
    BY DEF WakeLoop, Tasks
  <2> QED
    BY <1>3, <1>4, <2>1, TaskOnlyStep
<1>6. ReadHeight(n, t) => Shape'
  <2> SUFFICES ASSUME ReadHeight(n, t) PROVE Shape'
    OBVIOUS
  <2> DEFINE next == [this EXCEPT !.stage = "fetch", !.our_height = tip_height(chain[n])]
  <2>1. /\ this.stage = "read" /\ set_task(n, t, next)
        /\ UNCHANGED <<chain, difficulty_bits, now, inflight>>
    BY DEF ReadHeight
  <2>2. "fetch" \in Stages
    BY DEF Stages
  <2>3. /\ next \in TaskStates(now) /\ next.stage = "fetch" /\ next.batch = this.batch
        /\ next.peer = this.peer /\ next.our_height = tip_height(chain[n])
    <3>1. next = with_height(this, "fetch", tip_height(chain[n]))
      BY DEF with_height
    <3>2. tip_height(chain[n]) \in Nat /\ now \in Nat /\ this \in TaskStates(now)
      BY <1>1, <1>2
    <3> HIDE DEF next, this
    <3> QED
      BY <2>2, <3>1, <3>2, NewHeight
  <2> HIDE DEF next
  <2>4. TaskOK(n, next, tip_height(chain[n]))
    BY <1>1, <1>2, <2>1, <2>3 DEF TaskOK
  <2> QED
    BY <2>1, <2>3, <2>4, TaskOnlyStep
<1>7. ASSUME NEW p \in Nodes PROVE Fetch(n, t, p) => Shape'
  <2> SUFFICES ASSUME Fetch(n, t, p) PROVE Shape'
    OBVIOUS
  <2> DEFINE batch == blocks_from(chain[p], this.our_height + 1)
             asked == turn_to(n, this.peer + 1, this.offered)
             next == [this EXCEPT !.stage = "apply", !.batch = batch]
  <2>1. /\ this.stage = "fetch" /\ set_task(n, t, IF batch = << >> THEN asked ELSE next)
        /\ UNCHANGED <<chain, difficulty_bits, now, inflight>>
    BY DEF Fetch
  <2>2. batch \in Seq(HonestChains(now))
    <3>1. this.our_height + 1 \in Nat
      BY <1>2
    <3> QED
      BY <1>1, <3>1, BlocksFrom
  <2>3. asked \in TaskStates(now) /\ TaskOK(n, asked, tip_height(chain[n]))
    <3>1. this.peer + 1 \in Nat
      BY <1>2
    <3> QED
      BY <1>2, <1>4, <3>1
  <2>4. "apply" \in Stages
    BY DEF Stages
  <2> HIDE DEF batch
  <2>5. /\ next \in TaskStates(now) /\ next.stage = "apply" /\ next.batch = batch
        /\ next.peer = this.peer /\ next.our_height = this.our_height
    <3>1. next = with_batch(this, "apply", batch)
      BY DEF with_batch
    <3> HIDE DEF next, this
    <3> QED
      BY <1>1, <1>2, <2>2, <2>4, <3>1, NewBatch
  <2> HIDE DEF next, asked
  <2>6. batch # << >> => TaskOK(n, next, tip_height(chain[n]))
    BY <1>2, <2>5 DEF TaskOK
  <2>7. CASE batch = << >>
    BY <2>1, <2>3, <2>7, TaskOnlyStep
  <2>8. CASE batch # << >>
    BY <2>1, <2>5, <2>6, <2>8, TaskOnlyStep
  <2> QED
    BY <2>7, <2>8
<1>8. FetchFails(n, t) => Shape'
  <2> SUFFICES ASSUME FetchFails(n, t) PROVE Shape'
    OBVIOUS
  <2>1. /\ set_task(n, t, turn_to(n, this.peer + 1, this.offered)) /\ this.peer + 1 \in Nat
        /\ UNCHANGED <<chain, difficulty_bits, now, inflight>>
    BY <1>2 DEF FetchFails
  <2> QED
    BY <1>2, <1>4, <2>1, TaskOnlyStep
<1>9. ApplyNext(n, t) => Shape'
  <2> SUFFICES ASSUME ApplyNext(n, t) PROVE Shape'
    OBVIOUS
  <2> DEFINE block == Head(this.batch)
             rest == [this EXCEPT !.batch = Tail(this.batch)]
             next == IF ~ accepts(n, block) THEN turn_to(n, this.peer + 1, this.offered)
                     ELSE IF Len(this.batch) = 1 THEN turn_to(n, this.peer, this.offered)
                     ELSE rest
  <2>1. /\ this.stage = "apply" /\ apply_verified_block(n, block) /\ set_task(n, t, next)
        /\ UNCHANGED <<now, inflight>>
    BY DEF ApplyNext
  <2>2. this.batch # << >>
    BY <1>2, <2>1 DEF TaskOK
  <2>3. block \in HonestChains(now) /\ Tail(this.batch) \in Seq(HonestChains(now))
        /\ (Len(this.batch) # 1 => Tail(this.batch) # << >>)
    <3> DEFINE H == HonestChains(now)
               b == this.batch
    <3>1. b \in Seq(H) /\ b # << >>
      BY <1>2, <2>2
    <3> HIDE DEF H, b
    <3>2. Head(b) \in H /\ Tail(b) \in Seq(H) /\ Len(Tail(b)) = Len(b) - 1
          /\ Len(b) \in Nat
      BY <3>1, HeadTailProperties
    <3>3. Len(b) # 1 => Len(Tail(b)) # 0
      BY <3>2
    <3>4. Len(b) # 1 => Tail(b) # << >>
      <4>1. Len(<< >>) = 0
        OBVIOUS
      <4> QED
        BY <3>3, <4>1
    <3>5. b = this.batch /\ HonestChains(now) = H
      BY DEF b, H
    <3> HIDE DEF this
    <3> QED
      BY <3>2, <3>4, <3>5
  <2>4. ChainsOK' /\ \A k \in Nodes : tip_height(chain'[k]) \in Nat
                                      /\ tip_height(chain'[k]) >= tip_height(chain[k])
    BY <2>1, <2>3, Applied
  <2> HIDE DEF block
  <2>5. /\ rest \in TaskStates(now) /\ rest.stage = this.stage /\ rest.batch = Tail(this.batch)
        /\ rest.peer = this.peer /\ rest.our_height = this.our_height
    <3>1. rest = with_rest(this, Tail(this.batch))
      BY DEF with_rest
    <3> HIDE DEF rest, this
    <3>2. now \in Nat /\ this \in TaskStates(now) /\ Tail(this.batch) \in Seq(HonestChains(now))
      BY <1>1, <1>2, <2>3
    <3> QED
      BY <3>1, <3>2, RestOfBatch
  <2> HIDE DEF rest
  <2>6. Len(this.batch) # 1 => TaskOK(n, rest, tip_height(chain[n]))
    BY <1>2, <2>1, <2>3, <2>5 DEF TaskOK
  <2>7. this.peer + 1 \in Nat
    BY <1>2
  <2>8. next \in TaskStates(now) /\ TaskOK(n, next, tip_height(chain[n]))
    BY <1>2, <1>4, <2>5, <2>6, <2>7
  <2> HIDE DEF next
  <2> QED
    BY <1>1, <2>1, <2>4, <2>8, TaskStep
<1>10. OfferBlock(n, t) => Shape'
  <2> SUFFICES ASSUME OfferBlock(n, t) PROVE Shape'
    OBVIOUS
  <2>1. /\ apply_verified_block(n, this.offered) /\ set_task(n, t, Idle)
        /\ UNCHANGED <<now, inflight>>
    BY DEF OfferBlock
  <2>2. ChainsOK' /\ \A k \in Nodes : tip_height(chain'[k]) \in Nat
                                      /\ tip_height(chain'[k]) >= tip_height(chain[k])
    BY <1>2, <2>1, Applied
  <2>3. Idle \in TaskStates(now) /\ TaskOK(n, Idle, tip_height(chain[n]))
    BY <1>3, <1>4
  <2> QED
    BY <1>1, <2>1, <2>2, <2>3, TaskStep
<1>11. ASSUME NEW m \in inflight PROVE ReceiveBlock(n, t, m) => Shape'
  <2> SUFFICES ASSUME ReceiveBlock(n, t, m) PROVE Shape'
    OBVIOUS
  <2> DEFINE offering == [Idle EXCEPT !.stage = "offer", !.offered = m.block]
             next == IF tip_height(m.block) > tip_height(chain[n]) + 1
                     THEN turn_to(n, 1, m.block) ELSE offering
  <2>1. /\ inflight' \subseteq inflight /\ set_task(n, t, next)
        /\ UNCHANGED <<chain, difficulty_bits, now>>
    BY DEF ReceiveBlock
  <2>2. next \in TaskStates(now) /\ TaskOK(n, next, tip_height(chain[n]))
    BY <1>1, <1>4
  <2> HIDE DEF next
  <2> QED
    BY <2>1, <2>2, TaskOnlyStep
<1>12. CatchUp(n, t) => Shape'
  BY <1>6, <1>7, <1>8, <1>9, <1>10 DEF CatchUp
<1> QED
  BY <1>5, <1>11, <1>12

\* As time passes, what was honest stays so.
LEMMA TimePasses ==
  ASSUME Shape, NEW t \in Nat, now <= t
  PROVE  /\ HonestChains(now) \subseteq HonestChains(t)
         /\ chain \in [Nodes -> HonestChains(t)]
         /\ inflight \subseteq [to : Nodes, block : HonestChains(t)]
         /\ task \in [Nodes -> [Tasks -> TaskStates(t)]]
<1> DEFINE H1 == HonestChains(now)
           H2 == HonestChains(t)
           B1 == Seq(H1)
           B2 == Seq(H2)
<1>1. H1 \subseteq H2
  BY ShapeFacts, HonestLater
<1>2. B1 \subseteq B2
  <2> HIDE DEF H1, H2
  <2> QED
    BY <1>1, SeqMonotonic
<1>3. /\ TaskStates(now) = [stage : Stages, peer : Nat, our_height : Nat, batch : B1, offered : H1]
      /\ TaskStates(t) = [stage : Stages, peer : Nat, our_height : Nat, batch : B2, offered : H2]
  BY DEF TaskStates
<1>4. /\ chain \in [Nodes -> H1] /\ inflight \subseteq [to : Nodes, block : H1]
      /\ task \in [Nodes -> [Tasks -> TaskStates(now)]]
  BY DEF Shape, ChainsOK, TasksOK
<1> HIDE DEF H1, H2, B1, B2
<1>5. TaskStates(now) \subseteq TaskStates(t)
  BY <1>1, <1>2, <1>3
<1>6. chain \in [Nodes -> H2]
  BY <1>1, <1>4
<1>7. inflight \subseteq [to : Nodes, block : H2]
  BY <1>1, <1>4
<1>8. task \in [Nodes -> [Tasks -> TaskStates(t)]]
  BY <1>4, <1>5
<1> QED
  BY <1>1, <1>6, <1>7, <1>8 DEF H1, H2

\* A block that a node mines: on top of its chain, later than its tip, not later than
\* its clock, and worth what is required of a block after that gap.  From Fork 2 on the
\* gap is the one between the timestamps; before, the two are read apart.
LEMMA Mined ==
  ASSUME Shape, NEW n \in Nodes, NEW work \in Works, NEW delay \in ClockReadDelays,
         MineBlock(n, work, delay)
  PROVE  \E block \in HonestChains(now'), gap \in Int :
           /\ chain' = [chain EXCEPT ![n] = block]
           /\ difficulty_bits' = [difficulty_bits EXCEPT ![n] = bits_after(@, block, gap)]
           /\ inflight' \subseteq inflight \cup [to : Nodes, block : {block}]
           /\ links(chain[n], block)
           /\ block[Len(block)].work \in Nat
           /\ block[Len(block)].work >= required(difficulty_bits[n], tip_height(block), gap)
           /\ gap <= gap_of(block) /\ gap_of(block) \in Int
           /\ fork2_active(tip_height(block)) \/ delay = 0 => gap = gap_of(block)
           /\ timestamp_at(block, tip_height(block)) <= now' + Skew[n]
           /\ timestamp_at(block, tip_height(block)) > mtp(chain[n], tip_height(chain[n]))
<1> DEFINE c == chain[n]
           h == Len(c)
           tip_ts == timestamp_at(c, h - 1)
           median == mtp(c, h - 1)
           since == utc(n) - tip_ts
           fork2_ts == greater(tip_ts + since, median + 1)
           rule_gap == IF fork2_active(h) THEN fork2_ts - tip_ts ELSE since
           block_ts == IF fork2_active(h) THEN fork2_ts ELSE utc(n) + delay
           header == [timestamp |-> block_ts, work |-> work, miner |-> n]
           block == Append(c, header)
<1>1. /\ now \in Nat /\ c \in HonestChains(now) /\ c \in Seq(Header) /\ c # << >>
      /\ tip_height(c) \in Nat /\ Len(c) = tip_height(c) + 1 /\ difficulty_bits[n] \in Nat
  BY ShapeFacts
<1>2. /\ Skew[n] \in Int /\ work \in Nat /\ delay \in Nat
      /\ MIN_BLOCK_INTERVAL_SECS \in Nat /\ MIN_BLOCK_INTERVAL_SECS >= 1
  BY NetworkAssumption
<1>3. /\ since >= MIN_BLOCK_INTERVAL_SECS /\ now' = now + delay
      /\ mined(n, work, delay, rule_gap, block_ts)
  BY DEF MineBlock
<1>4. h - 1 = tip_height(c) /\ tip_height(c) \in 0 .. tip_height(c) /\ h \in Nat
  BY <1>1
<1>5. tip_ts \in Int /\ median \in Int /\ median <= tip_ts
  <2>1. tip_ts \in Int
    BY <1>1, <1>4, Times
  <2>2. median \in Int
    BY <1>1, <1>4, MedianIsATime
  <2>3. median <= tip_ts
    BY <1>1, <1>4, HonestMedian
  <2> QED
    BY <2>1, <2>2, <2>3
<1>6. utc(n) = now + Skew[n] /\ utc(n) \in Int
  BY <1>1, <1>2 DEF utc
<1> DEFINE late == utc(n)
<1> HIDE DEF late, tip_ts, median
<1>7. since = late - tip_ts /\ late = now + Skew[n] /\ late \in Int
  BY <1>6 DEF late
<1>8. fork2_ts = late
  BY <1>2, <1>3, <1>5, <1>7 DEF greater
<1>9. /\ block_ts \in Int /\ block_ts > tip_ts /\ block_ts <= now' + Skew[n] /\ block_ts > median
      /\ rule_gap \in Int /\ rule_gap <= block_ts - tip_ts
      /\ fork2_active(h) \/ delay = 0 => rule_gap = block_ts - tip_ts
  <2>1. CASE fork2_active(h)
    <3>1. block_ts = late /\ rule_gap = late - tip_ts
      BY <1>8, <2>1
    <3> HIDE DEF block_ts, rule_gap, since
    <3>2. late > tip_ts
      BY <1>2, <1>3, <1>5, <1>7
    <3>3. late <= now' + Skew[n]
      <4>1. now' = now + delay /\ now \in Nat /\ delay \in Nat /\ Skew[n] \in Int
        BY <1>1, <1>2, <1>3
      <4> QED
        BY <1>7, <4>1
    <3> QED
      BY <1>5, <1>7, <3>1, <3>2, <3>3
  <2>2. CASE ~ fork2_active(h)
    <3>1. block_ts = late + delay /\ rule_gap = since
      BY <2>2 DEF late
    <3> HIDE DEF block_ts, rule_gap, since
    <3>2. late > tip_ts /\ since \in Int
      BY <1>2, <1>3, <1>5, <1>7
    <3>3. late + delay <= now' + Skew[n]
      <4>1. now' = now + delay /\ now \in Nat /\ delay \in Nat /\ Skew[n] \in Int
        BY <1>1, <1>2, <1>3
      <4> QED
        BY <1>7, <4>1
    <3>4. block_ts \in Int /\ block_ts >= late /\ rule_gap \in Int
      BY <1>2, <1>7, <3>1, <3>2
    <3>5. block_ts > tip_ts /\ block_ts > median
      BY <1>5, <1>7, <3>2, <3>4
    <3>6. rule_gap <= block_ts - tip_ts /\ (delay = 0 => rule_gap = block_ts - tip_ts)
      BY <1>2, <1>5, <1>7, <3>1
    <3> QED
      BY <2>2, <3>1, <3>3, <3>4, <3>5, <3>6
  <2> QED
    BY <2>1, <2>2
<1> HIDE DEF rule_gap, block_ts
<1>10. header \in Header /\ header.timestamp = block_ts /\ header.work = work
  BY <1>2, <1>9 DEF Header
<1>11. now' \in Nat /\ now <= now' /\ c \in HonestChains(now')
  <2>1. now' \in Nat /\ now <= now'
    BY <1>1, <1>2, <1>3
  <2> QED
    BY <1>1, <2>1, HonestLater
<1>12. tip_ts = timestamp_at(c, tip_height(c)) /\ median = mtp(c, tip_height(c))
  BY <1>4 DEF tip_ts, median
<1> HIDE DEF header
<1>13. block \in HonestChains(now')
  BY <1>1, <1>9, <1>10, <1>11, <1>12, HonestMined
<1>14. /\ block \in Seq(Header) /\ Len(block) = h + 1 /\ tip_height(block) = h
       /\ \A i \in 1 .. h : block[i] = c[i]
       /\ block[Len(block)] = header
       /\ links(c, block)
  <2>1. /\ block \in Seq(Header) /\ Len(block) = h + 1 /\ \A i \in 1 .. h : block[i] = c[i]
        /\ block[h + 1] = header
    BY <1>1, <1>10
  <2> HIDE DEF block
  <2>2. SubSeq(block, 1, h) = c
    <3>1. /\ SubSeq(block, 1, h) \in Seq(Header) /\ Len(SubSeq(block, 1, h)) = h
          /\ \A i \in 1 .. h : SubSeq(block, 1, h)[i] = block[i]
      BY <1>4, <2>1
    <3> QED
      BY <1>1, <2>1, <3>1, SeqEqual
  <2>3. Len(block) - 1 = h
    BY <1>4, <2>1
  <2> QED
    BY <2>1, <2>2, <2>3 DEF links, Front, tip_height
<1>15. timestamp_at(block, tip_height(block)) = block_ts /\ gap_of(block) = block_ts - tip_ts
  <2>1. h \in 1 .. h /\ h - 1 + 1 = h
    BY <1>1, <1>4
  <2>2. block[h + 1] = header /\ block[(h - 1) + 1] = c[(h - 1) + 1]
    BY <1>14, <2>1
  <2> HIDE DEF block
  <2> QED
    BY <1>10, <1>14, <2>2 DEF gap_of, timestamp_at, tip_ts
<1>16. /\ chain' = [chain EXCEPT ![n] = block]
       /\ difficulty_bits' = [difficulty_bits EXCEPT ![n] = bits_after(@, block, rule_gap)]
       /\ inflight' = inflight \cup {[to |-> p, block |-> block] : p \in ToSet(PeerList[n])}
       /\ work >= required(difficulty_bits[n], h, rule_gap)
  BY <1>3 DEF mined, header
<1> HIDE DEF block
<1>17. inflight' \subseteq inflight \cup [to : Nodes, block : {block}]
  <2>1. ToSet(PeerList[n]) \subseteq Nodes
    <3>1. PeerList[n] \in Seq(Nodes)
      BY PeersAssumption
    <3> QED
      BY <3>1 DEF ToSet
  <2> QED
    BY <1>16, <2>1
<1>18. /\ block[Len(block)].work = work
       /\ block[Len(block)].work >= required(difficulty_bits[n], tip_height(block), rule_gap)
  BY <1>10, <1>14, <1>16
<1>19. /\ rule_gap <= gap_of(block) /\ gap_of(block) \in Int
       /\ fork2_active(tip_height(block)) \/ delay = 0 => rule_gap = gap_of(block)
       /\ timestamp_at(block, tip_height(block)) <= now' + Skew[n]
       /\ timestamp_at(block, tip_height(block)) > mtp(c, tip_height(c))
  BY <1>5, <1>9, <1>12, <1>14, <1>15
<1> QED
  BY <1>2, <1>9, <1>13, <1>14, <1>16, <1>17, <1>18, <1>19

\* Every step keeps the shape.
LEMMA ShapeStep == Shape /\ [Next]_vars => Shape'
<1> SUFFICES ASSUME Shape, [Next]_vars PROVE Shape'
  OBVIOUS
<1>1. /\ now \in Nat
      /\ \A n \in Nodes : tip_height(chain[n]) \in Nat
      /\ chain \in [Nodes -> HonestChains(now)] /\ \A n \in Nodes : chain[n] # << >>
      /\ difficulty_bits \in [Nodes -> Nat] /\ now \in 0 .. MaxTime
  BY ShapeFacts DEF Shape, ChainsOK
<1>2. ASSUME NEW n \in MiningNodes, NEW work \in Works, NEW delay \in ClockReadDelays,
             MineBlock(n, work, delay)
      PROVE  Shape'
  <2>1. n \in Nodes /\ delay \in Nat /\ MaxTime \in Nat
    BY NetworkAssumption
  <2>2. now' = now + delay /\ now + delay <= MaxTime /\ task' = task
    BY <1>2 DEF MineBlock
  <2>3. now' \in 0 .. MaxTime /\ now' \in Nat /\ now <= now'
    BY <1>1, <2>1, <2>2
  <2>4. PICK block \in HonestChains(now'), gap \in Int :
           /\ chain' = [chain EXCEPT ![n] = block]
           /\ difficulty_bits' = [difficulty_bits EXCEPT ![n] = bits_after(@, block, gap)]
           /\ inflight' \subseteq inflight \cup [to : Nodes, block : {block}]
           /\ links(chain[n], block)
    BY <1>2, <2>1, Mined
  <2>5. block \in Seq(Header) /\ chain[n] \in Seq(Header) /\ chain[n] # << >>
    BY <2>1, ShapeFacts DEF HonestChains
  <2>6. block # << >> /\ tip_height(block) = tip_height(chain[n]) + 1
    BY <2>4, <2>5, Extension
  <2>7. bits_after(difficulty_bits[n], block, gap) \in Nat
    <3>1. difficulty_bits[n] \in Nat
      BY <1>1, <2>1
    <3> QED
      BY <2>5, <2>6, <3>1, BitsAfter
  <2>8. /\ chain \in [Nodes -> HonestChains(now')]
        /\ inflight \subseteq [to : Nodes, block : HonestChains(now')]
        /\ task \in [Nodes -> [Tasks -> TaskStates(now')]]
    BY <2>3, TimePasses
  <2> DEFINE bits == bits_after(difficulty_bits[n], block, gap)
  <2>9. difficulty_bits' = [difficulty_bits EXCEPT ![n] = bits] /\ bits \in Nat
    BY <2>4, <2>7
  <2> HIDE DEF bits
  <2>10. /\ chain' \in [Nodes -> HonestChains(now')] /\ difficulty_bits' \in [Nodes -> Nat]
         /\ \A k \in Nodes : chain'[k] = IF k = n THEN block ELSE chain[k]
    BY <1>1, <2>4, <2>8, <2>9
  <2>11. ChainsOK'
    BY <1>1, <2>6, <2>10 DEF ChainsOK
  <2>12. inflight' \subseteq [to : Nodes, block : HonestChains(now')]
    BY <2>4, <2>8
  <2>13. ASSUME NEW k \in Nodes, NEW t \in Tasks
         PROVE  TaskOK(k, task'[k][t], tip_height(chain'[k]))
    <3>1. TaskOK(k, task[k][t], tip_height(chain[k])) /\ task[k][t].our_height \in Nat
      BY ShapeFacts
    <3>2. tip_height(chain'[k]) \in Nat /\ tip_height(chain[k]) <= tip_height(chain'[k])
      <4>1. CASE k = n
        <5>1. chain'[k] = block /\ tip_height(chain[n]) \in Nat
          BY <1>1, <2>1, <2>10, <4>1
        <5> QED
          BY <2>6, <4>1, <5>1
      <4>2. CASE k # n
        BY <1>1, <2>10, <4>2
      <4> QED
        BY <4>1, <4>2
    <3>3. tip_height(chain[k]) \in Nat
      BY <1>1
    <3> QED
      BY <2>2, <3>1, <3>2, <3>3 DEF TaskOK
  <2> QED
    BY <2>2, <2>3, <2>8, <2>11, <2>12, <2>13 DEF Shape, TasksOK
<1>3. ASSUME NEW n \in Nodes, WakeLoop(n) PROVE Shape'
  BY <1>3, TaskSteps DEF Tasks
<1>4. ASSUME NEW n \in Nodes, NEW t \in Tasks, CatchUp(n, t) PROVE Shape'
  BY <1>4, TaskSteps
<1>5. ASSUME NEW n \in Nodes, NEW t \in Handlers, NEW m \in inflight, ReceiveBlock(n, t, m)
      PROVE  Shape'
  BY <1>5, TaskSteps DEF Tasks
<1>6. ASSUME NEW n \in Nodes, Restart(n) PROVE Shape'
  <2>1. task' = [task EXCEPT ![n] = [t \in Tasks |-> Idle]]
        /\ UNCHANGED <<chain, difficulty_bits, now, inflight>>
    BY <1>6 DEF Restart
  <2>2. << >> \in HonestChains(now)
    BY DEF HonestChains, Rising, ByTheClock
  <2>3. Idle \in TaskStates(now) /\ \A k \in Nodes : TaskOK(k, Idle, tip_height(chain[k]))
    BY <1>1, <1>6, <2>2, TurnTo
  <2>4. /\ task \in [Nodes -> [Tasks -> TaskStates(now)]]
        /\ \A k \in Nodes, t \in Tasks : TaskOK(k, task[k][t], tip_height(chain[k]))
    BY DEF Shape, TasksOK
  <2>5. task' \in [Nodes -> [Tasks -> TaskStates(now)]]
    BY <2>1, <2>3, <2>4
  <2>6. \A k \in Nodes, t \in Tasks : TaskOK(k, task'[k][t], tip_height(chain[k]))
    BY <2>1, <2>3, <2>4
  <2>7. TasksOK'
    BY <2>1, <2>5, <2>6 DEF TasksOK
  <2> QED
    BY <2>1, <2>7 DEF Shape, ChainsOK
<1>7. CASE Tick
  <2>1. now' = now + 1 /\ now < MaxTime /\ MaxTime \in Nat
        /\ UNCHANGED <<chain, difficulty_bits, inflight, task>>
    BY <1>7, NetworkAssumption DEF Tick
  <2>2. now' \in 0 .. MaxTime /\ now' \in Nat /\ now <= now'
    BY <1>1, <2>1
  <2>3. /\ chain \in [Nodes -> HonestChains(now')]
        /\ inflight \subseteq [to : Nodes, block : HonestChains(now')]
        /\ task \in [Nodes -> [Tasks -> TaskStates(now')]]
    BY <2>2, TimePasses
  <2>4. \A k \in Nodes, t \in Tasks : TaskOK(k, task[k][t], tip_height(chain[k]))
    BY DEF Shape, TasksOK
  <2> QED
    BY <1>1, <2>1, <2>2, <2>3, <2>4 DEF Shape, ChainsOK, TasksOK
<1>8. CASE UNCHANGED vars
  BY <1>8 DEF vars, Shape, ChainsOK, TasksOK
<1> QED
  BY <1>2, <1>3, <1>4, <1>5, <1>6, <1>7, <1>8 DEF Next

\* The nodes' chains, their tasks and the messages between them keep their types, and
\* every block anywhere ends an honest chain.
LEMMA ShapeAlways == Spec => []Shape
<1> QED
  BY ShapeInit, ShapeStep, PTL DEF Spec

\* The type invariant: a task's batch is empty unless it is being applied, and no task
\* believes its node to be higher than it is.
THEOREM NetworkTypeOK == Spec => []TypeOK
<1> QED
  BY ShapeAlways, ShapeImpliesTypeOK, PTL

(***************************************************************************)
(* How a chain grows: by one block at a time, which keeps the rules that   *)
(* apply to it, whichever path it came in by.                              *)
(***************************************************************************)

\* The median at a height depends on the blocks up to it only.
LEMMA MedianOfExtension ==
  ASSUME NEW c \in Seq(Header), c # << >>, NEW block \in Seq(Header), links(c, block)
  PROVE  mtp(block, tip_height(c)) = mtp(c, tip_height(c))
<1>1. /\ tip_height(c) \in Nat /\ tip_height(block) = tip_height(c) + 1 /\ block # << >>
      /\ Len(c) = tip_height(c) + 1 /\ \A i \in 1 .. Len(c) : block[i] = c[i]
  BY Extension, Times
<1> DEFINE tc == times(c)
           tb == times(block)
<1>2. \A g \in 0 .. tip_height(c) : tc[g] \in Int /\ tc[g] = c[g + 1].timestamp
  BY Times
<1>3. \A g \in 0 .. tip_height(c) : tb[g] = block[g + 1].timestamp
  <2>1. \A g \in 0 .. tip_height(block) : tb[g] = block[g + 1].timestamp
    BY <1>1, Times
  <2>2. 0 .. tip_height(c) \subseteq 0 .. tip_height(block)
    BY <1>1
  <2> QED
    BY <2>1, <2>2
<1>4. \A g \in 0 .. tip_height(c) : block[g + 1] = c[g + 1]
  <2>1. \A g \in 0 .. tip_height(c) : g + 1 \in 1 .. Len(c)
    BY <1>1
  <2> QED
    BY <1>1, <2>1
<1>5. mtp(block, tip_height(c)) = median_time_past(tip_height(c), tb)
      /\ mtp(c, tip_height(c)) = median_time_past(tip_height(c), tc)
  BY DEF mtp
<1> HIDE DEF tc, tb
<1>6. \A g \in 0 .. tip_height(c) : tc[g] \in Int /\ tb[g] = tc[g]
  BY <1>2, <1>3, <1>4
<1> QED
  BY <1>1, <1>5, <1>6, MedianTimeStable

\* A timestamp that a clock accepts, a later clock accepts.
LEMMA TimestampLater ==
  ASSUME NEW c \in Seq(Header), c # << >>, NEW clock \in Int, NEW later \in Int, clock <= later,
         timestamp_ok(c, clock)
  PROVE  timestamp_ok(c, later)
<1>1. tip_height(c) \in Nat /\ timestamp_at(c, tip_height(c)) \in Int
  BY Times
<1>2. FORK2_FUTURE_LIMIT_SECS \in Nat /\ PRE_FORK2_FUTURE_SECS \in Nat
  BY NaturalAssumption, NetworkAssumption
<1> QED
  BY <1>1, <1>2 DEF timestamp_ok, fork2_timestamp_ok

\* A node that mines a block could have been sent it: an own timestamp is never too far
\* ahead, and easing by a shorter gap asks for no less work than the block's gap does.
LEMMA MinedIsAcceptable ==
  ASSUME NEW c \in Seq(Header), c # << >>, NEW block \in Seq(Header), links(c, block),
         NEW bits \in Nat, NEW gap \in Int, NEW clock \in Int,
         gap <= gap_of(block), gap_of(block) \in Int, block[Len(block)].work \in Nat,
         block[Len(block)].work >= required(bits, tip_height(block), gap),
         timestamp_at(block, tip_height(block)) <= clock,
         timestamp_at(block, tip_height(block)) > mtp(c, tip_height(c))
  PROVE  enough_work(block, bits) /\ timestamp_ok(block, clock)
<1>0. tip_height(c) \in Nat /\ tip_height(block) = tip_height(c) + 1 /\ block # << >>
  BY Extension
<1>1. /\ tip_height(block) = tip_height(c) + 1 /\ block # << >> /\ tip_height(c) \in Nat
      /\ tip_height(block) \in Nat /\ tip_height(block) - 1 = tip_height(c)
  BY <1>0
<1>2. timestamp_at(block, tip_height(block)) \in Int
  BY <1>1, Times
<1>3. /\ required(bits, tip_height(block), gap) \in Nat
      /\ required(bits, tip_height(block), gap_of(block)) \in Nat
      /\ required(bits, tip_height(block), gap_of(block)) <= required(bits, tip_height(block), gap)
  BY <1>1, Required
<1>4. enough_work(block, bits)
  BY <1>3 DEF enough_work
<1>5. mtp(block, tip_height(block) - 1) = mtp(c, tip_height(c))
  BY <1>1, MedianOfExtension
<1>6. FORK2_FUTURE_LIMIT_SECS \in Nat /\ PRE_FORK2_FUTURE_SECS \in Nat
  BY NaturalAssumption, NetworkAssumption
<1>7. timestamp_ok(block, clock)
  BY <1>2, <1>5, <1>6 DEF timestamp_ok, fork2_timestamp_ok
<1> QED
  BY <1>4, <1>7

\* A step leaves a node's chain and difficulty, or adds a block that apply_verified_block
\* accepts and that leaves behind the difficulty of its gap.
Grows(n, gap) ==
  /\ chain'[n] \in Seq(Header) /\ links(chain[n], chain'[n])
  /\ difficulty_bits'[n] = bits_after(difficulty_bits[n], chain'[n], gap)
  /\ OneClockRead => gap = gap_of(chain'[n])
  /\ enough_work(chain'[n], difficulty_bits[n])
  /\ timestamp_ok(chain'[n], now' + Skew[n])

\* Applying a block is such a step.
LEMMA AppliedGrows ==
  ASSUME Shape, NEW p \in Nodes, NEW block \in HonestChains(now),
         apply_verified_block(p, block), now' = now, NEW n \in Nodes
  PROVE  \/ chain'[n] = chain[n] /\ difficulty_bits'[n] = difficulty_bits[n]
         \/ \E gap \in Int : Grows(n, gap)
<1>1. /\ chain \in [Nodes -> HonestChains(now)] /\ difficulty_bits \in [Nodes -> Nat]
  BY DEF Shape, ChainsOK
<1>2. CASE ~ accepts(p, block)
  BY <1>2 DEF apply_verified_block
<1>3. CASE accepts(p, block)
  <2>1. /\ chain' = [chain EXCEPT ![p] = block]
        /\ difficulty_bits' = [difficulty_bits EXCEPT ![p] = bits_after(@, block, gap_of(block))]
        /\ links(chain[p], block) /\ timestamp_ok(block, now' + Skew[p])
        /\ enough_work(block, difficulty_bits[p])
    BY <1>3 DEF apply_verified_block, accepts, utc
  <2>2. CASE n # p
    BY <1>1, <2>1, <2>2
  <2>3. CASE n = p
    <3>1. chain'[n] = block /\ difficulty_bits'[n] = bits_after(difficulty_bits[n], block, gap_of(block))
      BY <1>1, <2>1, <2>3
    <3>2. chain[n] \in Seq(Header) /\ chain[n] # << >> /\ block \in Seq(Header)
      BY ShapeFacts DEF HonestChains
    <3>3. gap_of(block) \in Int
      <4>1. block # << >> /\ tip_height(block) = tip_height(chain[n]) + 1 /\ tip_height(chain[n]) \in Nat
        BY <2>1, <2>3, <3>2, Extension
      <4>2. tip_height(block) > 0
        BY <4>1
      <4> QED
        BY <3>2, <4>1, <4>2, Times
    <3>4. Grows(n, gap_of(block))
      BY <2>1, <2>3, <3>1, <3>2 DEF Grows
    <3> QED
      BY <3>3, <3>4
  <2> QED
    BY <2>2, <2>3
<1> QED
  BY <1>2, <1>3

\* So is mining one.
LEMMA MinedGrows ==
  ASSUME Shape, NEW p \in MiningNodes, NEW work \in Works, NEW delay \in ClockReadDelays,
         MineBlock(p, work, delay), NEW n \in Nodes
  PROVE  \/ chain'[n] = chain[n] /\ difficulty_bits'[n] = difficulty_bits[n]
         \/ \E gap \in Int : Grows(n, gap)
<1>0. p \in Nodes
  BY NetworkAssumption
<1>1. /\ chain \in [Nodes -> HonestChains(now)] /\ difficulty_bits \in [Nodes -> Nat]
  BY DEF Shape, ChainsOK
<1>2. PICK block \in HonestChains(now'), gap \in Int :
         /\ chain' = [chain EXCEPT ![p] = block]
         /\ difficulty_bits' = [difficulty_bits EXCEPT ![p] = bits_after(@, block, gap)]
         /\ links(chain[p], block)
         /\ block[Len(block)].work \in Nat
         /\ block[Len(block)].work >= required(difficulty_bits[p], tip_height(block), gap)
         /\ gap <= gap_of(block) /\ gap_of(block) \in Int
         /\ fork2_active(tip_height(block)) \/ delay = 0 => gap = gap_of(block)
         /\ timestamp_at(block, tip_height(block)) <= now' + Skew[p]
         /\ timestamp_at(block, tip_height(block)) > mtp(chain[p], tip_height(chain[p]))
  BY <1>0, Mined
<1>3. CASE n # p
  BY <1>1, <1>2, <1>3
<1>4. CASE n = p
  <2>1. chain'[n] = block /\ difficulty_bits'[n] = bits_after(difficulty_bits[n], block, gap)
    BY <1>1, <1>2, <1>4
  <2>2. /\ chain[n] \in Seq(Header) /\ chain[n] # << >> /\ block \in Seq(Header)
        /\ difficulty_bits[n] \in Nat
    BY ShapeFacts DEF HonestChains
  <2>3. now' + Skew[n] \in Int
    <3>1. now \in Nat /\ now' = now + delay /\ delay \in Nat /\ Skew[n] \in Int
      BY ShapeFacts, NetworkAssumption DEF MineBlock
    <3> QED
      BY <3>1
  <2>4. enough_work(block, difficulty_bits[n]) /\ timestamp_ok(block, now' + Skew[n])
    BY <1>2, <1>4, <2>2, <2>3, MinedIsAcceptable
  <2>5. OneClockRead => gap = gap_of(block)
    <3>1. tip_height(chain[n]) \in Nat /\ tip_height(block) = tip_height(chain[n]) + 1
      BY <1>2, <1>4, <2>2, Extension
    <3>2. FORK2_ACTIVATION_HEIGHT \in Nat
      BY NaturalAssumption
    <3>3. OneClockRead => fork2_active(tip_height(block)) \/ delay = 0
      BY <3>1, <3>2 DEF OneClockRead, fork2_active
    <3> QED
      BY <1>2, <3>3
  <2>6. Grows(n, gap)
    BY <1>2, <1>4, <2>1, <2>2, <2>4, <2>5 DEF Grows
  <2> QED
    BY <2>6
<1> QED
  BY <1>3, <1>4

\* No other step changes a chain.
LEMMA ChainStep ==
  ASSUME Shape, [Next]_vars, NEW n \in Nodes
  PROVE  \/ chain'[n] = chain[n] /\ difficulty_bits'[n] = difficulty_bits[n]
         \/ \E gap \in Int : Grows(n, gap)
<1>1. ASSUME NEW p \in MiningNodes, NEW work \in Works, NEW delay \in ClockReadDelays,
             MineBlock(p, work, delay)
      PROVE  \/ chain'[n] = chain[n] /\ difficulty_bits'[n] = difficulty_bits[n]
             \/ \E gap \in Int : Grows(n, gap)
  BY <1>1, MinedGrows
<1>2. ASSUME NEW p \in Nodes, NEW t \in Tasks, CatchUp(p, t)
      PROVE  \/ chain'[n] = chain[n] /\ difficulty_bits'[n] = difficulty_bits[n]
             \/ \E gap \in Int : Grows(n, gap)
  <2>1. CASE ApplyNext(p, t)
    <3> DEFINE b == task[p][t].batch
               H == HonestChains(now)
    <3>1. task[p][t].stage = "apply" /\ apply_verified_block(p, Head(b)) /\ now' = now
      BY <2>1 DEF ApplyNext
    <3>2. b \in Seq(H) /\ b # << >>
      BY <3>1, ShapeFacts DEF TaskOK
    <3>3. Head(b) \in H
      <4> HIDE DEF b, H
      <4> QED
        BY <3>2, HeadTailProperties
    <3> QED
      BY <3>1, <3>3, AppliedGrows
  <2>2. CASE OfferBlock(p, t)
    <3>1. apply_verified_block(p, task[p][t].offered) /\ now' = now
          /\ task[p][t].offered \in HonestChains(now)
      BY <2>2, ShapeFacts DEF OfferBlock
    <3> QED
      BY <3>1, AppliedGrows
  <2>3. CASE ~ (ApplyNext(p, t) \/ OfferBlock(p, t))
    BY <1>2, <2>3 DEF CatchUp, ReadHeight, Fetch, FetchFails
  <2> QED
    BY <2>1, <2>2, <2>3
<1>3. ASSUME UNCHANGED <<chain, difficulty_bits>>
      PROVE  chain'[n] = chain[n] /\ difficulty_bits'[n] = difficulty_bits[n]
  BY <1>3
<1>4. CASE \/ \E p \in Nodes : WakeLoop(p)
           \/ \E p \in Nodes, t \in Handlers, m \in inflight : ReceiveBlock(p, t, m)
           \/ \E p \in Nodes : Restart(p)
           \/ Tick \/ UNCHANGED vars
  BY <1>3, <1>4 DEF WakeLoop, ReceiveBlock, Restart, Tick, vars
<1> QED
  BY <1>1, <1>2, <1>4 DEF Next

(***************************************************************************)
(* The theorems about what nodes hold.                                     *)
(***************************************************************************)

\* At the start there is the genesis block only.
LEMMA ReplayInit == Init => DifficultyIsReplay /\ SyncableFromGenesis
<1> SUFFICES ASSUME Init, NEW n \in Nodes
             PROVE  /\ difficulty_bits[n] = replayed_bits(chain[n])[tip_height(chain[n])]
                    /\ \A h \in 1 .. tip_height(chain[n]) :
                         /\ timestamp_ok(prefix(chain[n], h), utc(n))
                         /\ enough_work(prefix(chain[n], h), replayed_bits(chain[n])[h - 1])
  BY DEF DifficultyIsReplay, SyncableFromGenesis
<1>1. tip_height(chain[n]) = 0 /\ difficulty_bits[n] = GENESIS_DIFFICULTY_BITS
  BY DEF Init, tip_height
<1>2. tip_height(chain[n]) \in Nat
  BY <1>1
<1>3. replayed_bits(chain[n])[0] = GENESIS_DIFFICULTY_BITS
  BY <1>2, ReplayedBits
<1> QED
  BY <1>1, <1>3

\* A step keeps the difficulty that of the chain: the new block's gap is the one that
\* a node replaying the chain reads off its timestamps.
LEMMA ReplayStep ==
  ASSUME Shape, DifficultyIsReplay, [Next]_vars, OneClockRead
  PROVE  DifficultyIsReplay'
<1> SUFFICES ASSUME NEW n \in Nodes
             PROVE  difficulty_bits'[n] = replayed_bits(chain'[n])[tip_height(chain'[n])]
  BY DEF DifficultyIsReplay, replayed_bits, tip_height, prefix, bits_after, gap_of, times, timestamp_at
<1>1. difficulty_bits[n] = replayed_bits(chain[n])[tip_height(chain[n])]
  BY DEF DifficultyIsReplay
<1>2. CASE chain'[n] = chain[n] /\ difficulty_bits'[n] = difficulty_bits[n]
  BY <1>1, <1>2
<1>3. ASSUME NEW gap \in Int, Grows(n, gap)
      PROVE  difficulty_bits'[n] = replayed_bits(chain'[n])[tip_height(chain'[n])]
  <2> DEFINE c == chain[n]
             block == chain'[n]
  <2>1. /\ block \in Seq(Header) /\ links(c, block) /\ gap = gap_of(block)
        /\ difficulty_bits'[n] = bits_after(difficulty_bits[n], block, gap)
    BY <1>3 DEF Grows
  <2>2. c \in Seq(Header) /\ c # << >>
    BY ShapeFacts
  <2> HIDE DEF c, block
  <2>3. replayed_bits(block)[tip_height(block)]
          = bits_after(replayed_bits(c)[tip_height(c)], block, gap_of(block))
    BY <2>1, <2>2, ReplayedExtension
  <2> QED
    BY <1>1, <2>1, <2>3 DEF c, block
<1> QED
  BY <1>2, <1>3, ChainStep

\* A step keeps the chain one that can be followed from genesis.
LEMMA SyncableStep ==
  ASSUME Shape, DifficultyIsReplay, SyncableFromGenesis, [Next]_vars
  PROVE  SyncableFromGenesis'
<1> DEFINE Follows(c, clock) ==
             \A h \in 1 .. tip_height(c) : /\ timestamp_ok(prefix(c, h), clock)
                                           /\ enough_work(prefix(c, h), replayed_bits(c)[h - 1])
<1> SUFFICES ASSUME NEW n \in Nodes PROVE Follows(chain'[n], now' + Skew[n])
  BY DEF SyncableFromGenesis, utc
<1> DEFINE c == chain[n]
           block == chain'[n]
<1>1. /\ c \in Seq(Header) /\ c # << >> /\ tip_height(c) \in Nat
      /\ difficulty_bits[n] = replayed_bits(c)[tip_height(c)]
  BY ShapeFacts DEF DifficultyIsReplay
<1>2. now \in Nat /\ now' \in Nat /\ now <= now' /\ Skew[n] \in Int
  <2>1. now \in Nat /\ Skew[n] \in Int
    BY ShapeFacts, NetworkAssumption
  <2>2. now' \in Nat
    <3>1. Shape'
      BY ShapeStep
    <3> QED
      BY <3>1, NetworkAssumption DEF Shape
  <2>3. now' = now \/ now' = now + 1 \/ \E delay \in ClockReadDelays : now' = now + delay
    <3>1. ASSUME NEW p \in Nodes, NEW t \in Tasks, CatchUp(p, t) PROVE now' = now
      BY <3>1 DEF CatchUp, ReadHeight, Fetch, FetchFails, ApplyNext, OfferBlock
    <3>2. ASSUME NEW p \in MiningNodes, NEW work \in Works, NEW delay \in ClockReadDelays,
                 MineBlock(p, work, delay)
          PROVE  now' = now + delay
      BY <3>2 DEF MineBlock
    <3> QED
      BY <3>1, <3>2 DEF Next, WakeLoop, ReceiveBlock, Restart, Tick, vars
  <2>4. ClockReadDelays \subseteq Nat
    BY NetworkAssumption
  <2> QED
    BY <2>1, <2>2, <2>3, <2>4
<1>3. now + Skew[n] \in Int /\ now' + Skew[n] \in Int /\ now + Skew[n] <= now' + Skew[n]
  BY <1>2
<1>4. Follows(c, now + Skew[n])
  BY DEF SyncableFromGenesis, utc
\* By a later clock too.
<1>5. Follows(c, now' + Skew[n])
  <2> SUFFICES ASSUME NEW h \in 1 .. tip_height(c)
               PROVE  timestamp_ok(prefix(c, h), now' + Skew[n])
    BY <1>4
  <2>1. h \in 0 .. tip_height(c) /\ timestamp_ok(prefix(c, h), now + Skew[n])
    BY <1>4
  <2>2. prefix(c, h) \in Seq(Header) /\ Len(prefix(c, h)) = h + 1 /\ h + 1 # 0
    BY <1>1, <2>1, Prefix
  <2>3. prefix(c, h) # << >>
    BY <2>2
  <2> QED
    BY <1>3, <2>1, <2>2, <2>3, TimestampLater
<1>6. ASSUME NEW gap \in Int, Grows(n, gap) PROVE Follows(block, now' + Skew[n])
  <2>1. /\ block \in Seq(Header) /\ links(c, block) /\ enough_work(block, difficulty_bits[n])
        /\ timestamp_ok(block, now' + Skew[n])
    BY <1>6 DEF Grows
  <2> HIDE DEF c, block
  <2>2. /\ tip_height(block) = tip_height(c) + 1
        /\ \A h \in 0 .. tip_height(c) : prefix(block, h) = prefix(c, h)
        /\ prefix(block, tip_height(block)) = block
    BY <1>1, <2>1, Extension
  <2>3. \A h \in 0 .. tip_height(c) : replayed_bits(block)[h] = replayed_bits(c)[h]
    BY <1>1, <2>1, ReplayedExtension
  <2> SUFFICES ASSUME NEW h \in 1 .. tip_height(block)
               PROVE  /\ timestamp_ok(prefix(block, h), now' + Skew[n])
                      /\ enough_work(prefix(block, h), replayed_bits(block)[h - 1])
    OBVIOUS
  <2>4. h - 1 \in 0 .. tip_height(c) /\ replayed_bits(block)[h - 1] = replayed_bits(c)[h - 1]
    BY <1>1, <2>2, <2>3
  <2>5. CASE h = tip_height(block)
    <3>1. h - 1 = tip_height(c)
      BY <1>1, <2>2, <2>5
    <3> QED
      BY <1>1, <2>1, <2>2, <2>4, <2>5, <3>1
  <2>6. CASE h # tip_height(block)
    <3>1. h \in 1 .. tip_height(c) /\ h \in 0 .. tip_height(c)
      BY <1>1, <2>2, <2>6
    <3> QED
      BY <1>5, <2>2, <2>4, <3>1
  <2> QED
    BY <2>5, <2>6
<1>7. CASE chain'[n] = chain[n]
  BY <1>5, <1>7
<1> QED
  BY <1>6, <1>7, ChainStep

\* "MUST be called identically on every path that advances the chain": whichever way its
\* blocks came in, a node's difficulty is what they add up to, provided that the clock is
\* not read apart for the same block.
THEOREM NetworkDifficultyIsReplay == OneClockRead => (Spec => []DifficultyIsReplay)
<1> SUFFICES ASSUME OneClockRead PROVE Spec => []DifficultyIsReplay
  OBVIOUS
<1>1. Init => Shape /\ DifficultyIsReplay
  BY ShapeInit, ReplayInit
<1>2. Shape /\ DifficultyIsReplay /\ [Next]_vars => (Shape /\ DifficultyIsReplay)'
  BY ShapeStep, ReplayStep
<1> QED
  BY <1>1, <1>2, PTL DEF Spec

\* What a node has accepted or mined, a new node with its clock accepts block by block
\* from genesis.
THEOREM NetworkSyncableFromGenesis == OneClockRead => (Spec => []SyncableFromGenesis)
<1> SUFFICES ASSUME OneClockRead PROVE Spec => []SyncableFromGenesis
  OBVIOUS
<1> DEFINE Inv == Shape /\ DifficultyIsReplay /\ SyncableFromGenesis
<1>1. Init => Inv
  BY ShapeInit, ReplayInit
<1>2. Inv /\ [Next]_vars => Inv'
  BY ShapeStep, ReplayStep, SyncableStep
<1>3. Inv => SyncableFromGenesis
  OBVIOUS
<1> QED
  BY <1>1, <1>2, <1>3, PTL DEF Spec

\* The next block of a chain that begins with one's own links to it.
LEMMA NextOfChain ==
  ASSUME NEW c \in Seq(Header), c # << >>, NEW d \in Seq(Header), IsStrictPrefix(c, d)
  PROVE  /\ tip_height(c) \in Nat /\ tip_height(c) + 1 \in 1 .. tip_height(d)
         /\ prefix(d, tip_height(c) + 1) \in Seq(Header)
         /\ prefix(d, tip_height(c) + 1) # << >>
         /\ tip_height(prefix(d, tip_height(c) + 1)) = tip_height(c) + 1
         /\ links(c, prefix(d, tip_height(c) + 1))
         /\ \A h \in 0 .. tip_height(c) : prefix(d, h) = prefix(c, h)
<1>1. /\ Len(c) \in Nat /\ Len(c) >= 1 /\ Len(d) \in Nat /\ tip_height(c) = Len(c) - 1
      /\ tip_height(d) = Len(d) - 1
  BY DEF tip_height
<1>2. Len(c) <= Len(d) /\ SubSeq(c, 1, Len(c)) = SubSeq(d, 1, Len(c)) /\ c # d
  BY DEF IsStrictPrefix, IsPrefix
<1>3. SubSeq(c, 1, Len(c)) = c /\ SubSeq(d, 1, Len(d)) = d
  BY SubSeqFull
<1>4. Len(c) < Len(d)
  BY <1>1, <1>2, <1>3
<1>5. tip_height(c) + 1 = Len(c) /\ tip_height(c) \in Nat /\ Len(c) \in 1 .. tip_height(d)
      /\ Len(c) + 1 \in 1 .. Len(d)
  BY <1>1, <1>4
<1> DEFINE b == SubSeq(d, 1, Len(c) + 1)
<1>6. /\ b \in Seq(Header) /\ Len(b) = Len(c) + 1 /\ \A i \in 1 .. Len(c) + 1 : b[i] = d[i]
  BY <1>1, <1>5
<1>7. \A i \in 1 .. Len(c) : c[i] = d[i]
  <2>1. \A i \in 1 .. Len(c) : SubSeq(d, 1, Len(c))[i] = d[i]
    BY <1>1, <1>4
  <2> QED
    BY <1>2, <1>3, <2>1
<1>8. prefix(d, tip_height(c) + 1) = b
  BY <1>5 DEF prefix
<1> HIDE DEF b
<1>9. SubSeq(b, 1, Len(c)) = c
  <2>1. /\ SubSeq(b, 1, Len(c)) \in Seq(Header) /\ Len(SubSeq(b, 1, Len(c))) = Len(c)
        /\ \A i \in 1 .. Len(c) : SubSeq(b, 1, Len(c))[i] = b[i]
    BY <1>1, <1>6
  <2>2. \A i \in 1 .. Len(c) : b[i] = c[i]
    BY <1>1, <1>6, <1>7
  <2> QED
    BY <2>1, <2>2, SeqEqual
<1>10. links(c, b) /\ tip_height(b) = Len(c) /\ b # << >>
  <2>1. Len(b) - 1 = Len(c)
    BY <1>1, <1>6
  <2> QED
    BY <1>1, <1>6, <1>9, <2>1 DEF links, Front, tip_height
<1>11. ASSUME NEW h \in 0 .. tip_height(c) PROVE prefix(d, h) = prefix(c, h)
  <2>1. h \in 0 .. tip_height(d) /\ 1 .. h + 1 \subseteq 1 .. Len(c)
    BY <1>1, <1>4
  <2>2. /\ prefix(d, h) \in Seq(Header) /\ Len(prefix(d, h)) = h + 1
        /\ \A i \in 1 .. h + 1 : prefix(d, h)[i] = d[i]
    BY <2>1, Prefix
  <2>3. /\ prefix(c, h) \in Seq(Header) /\ Len(prefix(c, h)) = h + 1
        /\ \A i \in 1 .. h + 1 : prefix(c, h)[i] = c[i]
    BY Prefix
  <2>4. \A i \in 1 .. h + 1 : prefix(d, h)[i] = prefix(c, h)[i]
    BY <1>7, <2>1, <2>2, <2>3
  <2> QED
    BY <2>2, <2>3, <2>4, SeqEqual
<1> QED
  BY <1>5, <1>6, <1>8, <1>10, <1>11

\* Why no block is refused: its timestamp is not above the clock of the node that mined
\* it, which is within the limit of any other; and the work asked for it is that of the
\* difficulty that the blocks below it add up to, which is what the other node holds.
LEMMA NeverRefused ==
  ASSUME Shape, DifficultyIsReplay, SyncableFromGenesis, ClocksAgree
  PROVE  NoHonestBlockRefused
<1> SUFFICES ASSUME NEW n \in Nodes, NEW p \in Nodes, IsStrictPrefix(chain[n], chain[p])
             PROVE  accepts(n, prefix(chain[p], tip_height(chain[n]) + 1))
  BY DEF NoHonestBlockRefused
<1> DEFINE c == chain[n]
           d == chain[p]
           k == tip_height(c)
           b == prefix(d, k + 1)
<1>1. /\ c \in Seq(Header) /\ c # << >> /\ d \in Seq(Header) /\ d # << >>
      /\ d \in HonestChains(now) /\ now \in Nat /\ IsStrictPrefix(c, d)
      /\ tip_height(d) \in Nat /\ Len(d) = tip_height(d) + 1
  BY ShapeFacts
<1>2. difficulty_bits[n] = replayed_bits(c)[k]
  BY DEF DifficultyIsReplay
<1>3. \A h \in 1 .. tip_height(d) : /\ timestamp_ok(prefix(d, h), utc(p))
                                    /\ enough_work(prefix(d, h), replayed_bits(d)[h - 1])
  BY DEF SyncableFromGenesis
<1> HIDE DEF c, d
<1>4. /\ k \in Nat /\ k + 1 \in 1 .. tip_height(d) /\ b \in Seq(Header) /\ b # << >>
      /\ tip_height(b) = k + 1 /\ links(c, b)
      /\ \A h \in 0 .. k : prefix(d, h) = prefix(c, h)
  BY <1>1, NextOfChain
<1>5. timestamp_ok(b, utc(p)) /\ enough_work(b, replayed_bits(d)[(k + 1) - 1])
  BY <1>3, <1>4
<1>6. replayed_bits(d)[(k + 1) - 1] = replayed_bits(c)[k]
  <2>1. k <= tip_height(d) /\ k <= tip_height(c) /\ (k + 1) - 1 = k
    BY <1>1, <1>4
  <2>2. \A h \in 0 .. k : prefix(d, h) = prefix(c, h)
    BY <1>4
  <2>3. replayed_bits(d)[k] = replayed_bits(c)[k]
    BY <1>1, <1>4, <2>1, <2>2, ReplayedPrefix
  <2> QED
    BY <2>1, <2>3
<1>7. PICK m \in Nodes : timestamp_at(b, k + 1) <= now + Skew[m]
  <2>1. k + 2 \in 2 .. Len(d) /\ k + 2 \in 1 .. k + 2
    BY <1>1, <1>4
  <2>2. PICK m \in Nodes : d[k + 2].timestamp <= now + Skew[m]
    BY <1>1, <2>1 DEF HonestChains, ByTheClock
  <2>3. b[k + 2] = d[k + 2] /\ (k + 1) + 1 = k + 2
    <3>1. k + 1 \in 0 .. tip_height(d) /\ k + 2 \in 1 .. (k + 1) + 1 /\ (k + 1) + 1 = k + 2
      BY <1>4
    <3> QED
      BY <1>1, <3>1, Prefix
  <2> QED
    BY <2>2, <2>3 DEF timestamp_at
<1>8. timestamp_ok(b, utc(n))
  <2> DEFINE ts == timestamp_at(b, k + 1)
  <2>1. ts \in Int
    <3>1. k + 1 \in 0 .. tip_height(b)
      BY <1>4
    <3> QED
      BY <1>4, <3>1, Times
  <2>2. /\ Skew[m] \in Int /\ Skew[n] \in Int /\ FORK2_FUTURE_LIMIT_SECS \in Nat
        /\ PRE_FORK2_FUTURE_SECS \in Nat
        /\ Skew[m] - Skew[n] <= FORK2_FUTURE_LIMIT_SECS /\ Skew[m] - Skew[n] <= PRE_FORK2_FUTURE_SECS
    BY NetworkAssumption, NaturalAssumption DEF ClocksAgree
  <2>3. ts <= now + Skew[m]
    BY <1>7
  <2> HIDE DEF ts
  <2>4. /\ ts <= now + Skew[n] + FORK2_FUTURE_LIMIT_SECS
        /\ ts <= now + Skew[n] + PRE_FORK2_FUTURE_SECS
    BY <1>1, <2>1, <2>2, <2>3
  <2>5. fork2_active(k + 1) => ts > mtp(b, (k + 1) - 1)
    BY <1>4, <1>5 DEF timestamp_ok, fork2_timestamp_ok, ts
  <2> HIDE DEF b
  <2> QED
    BY <1>4, <2>4, <2>5 DEF timestamp_ok, fork2_timestamp_ok, ts, utc
<1> QED
  BY <1>2, <1>4, <1>5, <1>6, <1>8 DEF accepts, c, d

\* As long as the clocks agree within the limit, a node never refuses the block that
\* another node holds on top of its chain.
THEOREM NetworkNoHonestBlockRefused ==
  OneClockRead /\ ClocksAgree => (Spec => []NoHonestBlockRefused)
<1> SUFFICES ASSUME OneClockRead, ClocksAgree PROVE Spec => []NoHonestBlockRefused
  OBVIOUS
<1> DEFINE Inv == Shape /\ DifficultyIsReplay /\ SyncableFromGenesis
<1>1. Init => Inv
  BY ShapeInit, ReplayInit
<1>2. Inv /\ [Next]_vars => Inv'
  BY ShapeStep, ReplayStep, SyncableStep
<1>3. Inv => NoHonestBlockRefused
  BY NeverRefused
<1> QED
  BY <1>1, <1>2, <1>3, PTL DEF Spec

(***************************************************************************)
(* The server's connections (module Listener), of the same nodes with the  *)
(* same peers: for any number of nodes, peers and slots.                   *)
(*                                                                         *)
(* A slot is counted when its connection is taken in and given back when   *)
(* its handler ends, so the count alone would be easy; but a handler ends  *)
(* or goes on as other nodes answer it, and an answer is written into the  *)
(* state of the task that waits for it.  That it hits a task that waits,   *)
(* and not a slot that has been given back meanwhile, is what the          *)
(* invariant has to say: an open connection is in one place, and whoever   *)
(* made it waits for nothing else.                                         *)
(***************************************************************************)

\* The constants are numbers; the loop is no slot, and a slot is of an address.
LEMMA ServerConstants ==
  /\ MAX_P2P_CONNS_PER_IP \in Nat /\ MAX_P2P_CONNS_PER_IP > 0
  /\ MAX_BLOCKS_PER_RESPONSE \in Nat /\ MAX_BLOCKS_PER_RESPONSE > 0
  /\ MaxHeight \in Nat /\ StartHeight \in [Nodes -> 0 .. MaxHeight]
  /\ \A n \in Nodes : /\ Len(PeerList[n]) \in Nat
                      /\ \A i \in 1 .. Len(PeerList[n]) : PeerList[n][i] \in Nodes
  /\ ServerTasks = {Loop} \cup Slots /\ Loop \notin Slots
  /\ \A s \in Slots : s \in Nodes \X Places /\ s[1] \in Nodes
  /\ \A p \in Nodes, k \in Places : <<p, k>> \in Slots
<1>1. /\ PeerList \in [Nodes -> Seq(Nodes)]
      /\ MAX_P2P_CONNS_PER_IP \in Nat \ {0} /\ MAX_BLOCKS_PER_RESPONSE \in Nat \ {0}
      /\ MaxHeight \in Nat /\ StartHeight \in [Nodes -> 0 .. MaxHeight]
  BY ListenerAssumption, PeersAssumption
<1>2. \A n \in Nodes : /\ Len(PeerList[n]) \in Nat
                       /\ \A i \in 1 .. Len(PeerList[n]) : PeerList[n][i] \in Nodes
  BY <1>1
<1>3. ServerTasks = {Loop} \cup Slots
  BY DEF ServerTasks, Slots, Loop
<1>4. Slots = Nodes \X (1 .. MAX_P2P_CONNS_PER_IP + 1) /\ Places = 1 .. MAX_P2P_CONNS_PER_IP + 1
  BY DEF Slots, Places
<1>5. Loop \notin Slots
  <2>1. Loop[2] = 0
    BY DEF Loop
  <2>2. \A s \in Slots : s[2] \in 1 .. MAX_P2P_CONNS_PER_IP + 1
    BY <1>4
  <2> QED
    BY <1>1, <2>1, <2>2
<1>6. MAX_P2P_CONNS_PER_IP > 0 /\ MAX_BLOCKS_PER_RESPONSE > 0
  BY <1>1
<1> QED
  BY <1>1, <1>2, <1>3, <1>4, <1>5, <1>6

\* A set of natural numbers that is not empty has a least element.
LEMMA LeastElement ==
  ASSUME NEW S \in SUBSET Nat, S # {}
  PROVE  Min(S) \in S /\ \A y \in S : Min(S) <= y
<1>1. \E x \in S : \A y \in S : <<y, x>> \notin Below
  <2>1. S \subseteq Nat
    OBVIOUS
  <2> QED
    BY <2>1, BelowWellFounded, WFMin
<1>2. PICK x \in S : \A y \in S : <<y, x>> \notin Below
  BY <1>1
<1>3. \A y \in S : x <= y
  <2> TAKE y \in S
  <2>1. x \in Nat /\ y \in Nat
    OBVIOUS
  <2>2. <<y, x>> \notin Below
    BY <1>2
  <2> QED
    BY <2>1, <2>2 DEF Below, OpToRel
<1> QED
  BY <1>3 DEF Min

(***************************************************************************)
(* The inductive invariant of the connections.                             *)
(***************************************************************************)

Conn ==
  [from : Nodes \cup {"nobody"}, msg : {"block", "request", "none"}, height : 0 .. MaxHeight,
   caller : (Nodes \X ServerTasks) \cup {Nobody}, open : BOOLEAN]

ServerTask ==
  [stage : {"off", "read", "offer", "ask", "await", "apply"}, conn : Conn,
   peer : Nat, our_height : 0 .. MaxHeight, last : 0 .. MaxHeight]

\* A task of n has a peer of the list while it asks, and blocks to come while it
\* applies them.
Runs(n, v) ==
  /\ v \in ServerTask /\ v.peer <= Len(PeerList[n])
  /\ v.stage \in {"ask", "await", "apply"} => v.peer >= 1
  /\ v.stage = "apply" => v.our_height < v.last

ServerShape ==
  /\ height \in [Nodes -> 0 .. MaxHeight] /\ ip_counts \in [Nodes -> [Nodes -> Nat]]
  /\ backlog \in [Nodes -> SUBSET Conn] /\ \A n \in Nodes : \A c \in backlog[n] : c.from \in Nodes
  /\ server_task \in [Nodes -> [ServerTasks -> ServerTask]]
  /\ \A n \in Nodes, t \in ServerTasks : Runs(n, server_task[n][t])

\* Where a connection is, while its caller waits: in the backlog (the place of the
\* loop), or with the handler of a slot.
OpenAt(p, s, c) ==
  c.open /\ IF s = Loop THEN c \in backlog[p] ELSE c = server_task[p][s].conn

\* An open connection carries a request, from the height at which its caller waits for
\* the answer, and a handler that has it has not read it yet.
Waited ==
  \A p \in Nodes, s \in ServerTasks, c \in Conn : OpenAt(p, s, c) =>
    /\ c.msg = "request" /\ c.caller \in Nodes \X ServerTasks
    /\ server_task[c.caller[1]][c.caller[2]].stage = "await"
    /\ server_task[c.caller[1]][c.caller[2]].our_height = c.height
    /\ s # Loop => server_task[p][s].stage = "read"

\* A caller has one open connection, in one place.
OnePlace ==
  \A p, q \in Nodes, s, u \in ServerTasks, c, d \in Conn :
    OpenAt(p, s, c) /\ OpenAt(q, u, d) /\ c.caller = d.caller => p = q /\ s = u /\ c = d

ServerInv == ServerShape /\ Waited /\ OnePlace /\ SlotsCounted

(***************************************************************************)
(* Tasks and their turns.                                                  *)
(***************************************************************************)

\* The constant records are connections and tasks.
LEMMA OffTask ==
  /\ no_connection \in Conn /\ ~ no_connection.open
  /\ off \in ServerTask /\ off.stage = "off" /\ off.peer = 0
  /\ off.conn = no_connection /\ off.our_height = 0
  /\ off.last = 0
<1>1. MaxHeight \in Nat
  BY ServerConstants
<1>2. /\ no_connection = [from |-> "nobody", msg |-> "none", height |-> 0,
                                  caller |-> Nobody, open |-> FALSE]
  BY DEF no_connection, Connection
<1>3. no_connection \in Conn /\ ~ no_connection.open
  BY <1>1, <1>2 DEF Conn
<1>4. off = [stage |-> "off", conn |-> no_connection, peer |-> 0,
                    our_height |-> 0, last |-> 0]
  BY DEF off
<1> QED
  BY <1>1, <1>3, <1>4 DEF ServerTask

\* A turn to the i-th peer asks it, or ends the list: the loop's catch-up is over,
\* and a handler still holds its slot and its block.
LEMMA ServerTurn ==
  ASSUME ServerShape, NEW n \in Nodes, NEW t \in ServerTasks,
         NEW i \in Nat, i >= 1
  PROVE  LET turn == turn_to_peer(n, t, i)
         IN  /\ Runs(n, turn) /\ turn.stage \in {"off", "offer", "ask"}
             /\ t # Loop => turn.stage # "off" /\ turn.conn = server_task[n][t].conn
<1> DEFINE conn == server_task[n][t].conn
<1>1. conn \in Conn
  BY DEF ServerShape, ServerTask
<1>2. Len(PeerList[n]) \in Nat /\ MaxHeight \in Nat
  BY ServerConstants
<1>3. turn_to_peer(n, t, i) =
        IF i <= Len(PeerList[n]) THEN [off EXCEPT !.stage = "ask", !.peer = i, !.conn = conn]
        ELSE IF t = Loop THEN off
        ELSE [off EXCEPT !.stage = "offer", !.conn = conn]
  BY DEF turn_to_peer, Loop
<1> HIDE DEF conn
<1>5. CASE i <= Len(PeerList[n])
  <2>1. turn_to_peer(n, t, i)
          = [stage |-> "ask", conn |-> conn, peer |-> i, our_height |-> 0, last |-> 0]
    BY <1>3, <1>5 DEF off
  <2> QED
    BY <1>1, <1>2, <1>5, <2>1 DEF ServerTask, conn, Runs
<1>6. CASE ~ (i <= Len(PeerList[n])) /\ t = Loop
  <2>1. turn_to_peer(n, t, i) = off
    BY <1>3, <1>6
  <2> QED
    BY <1>2, <1>6, <2>1, OffTask DEF Runs
<1>7. CASE ~ (i <= Len(PeerList[n])) /\ t # Loop
  <2>1. turn_to_peer(n, t, i)
          = [stage |-> "offer", conn |-> conn, peer |-> 0, our_height |-> 0, last |-> 0]
    BY <1>3, <1>7 DEF off
  <2> QED
    BY <1>1, <1>2, <1>7, <2>1 DEF ServerTask, conn, Runs
<1> QED
  BY <1>5, <1>6, <1>7

\* The next peer is such a turn.
LEMMA ServerNextPeer ==
  ASSUME ServerShape, NEW n \in Nodes, NEW t \in ServerTasks
  PROVE  LET turn == next_peer(n, t)
         IN  /\ Runs(n, turn) /\ turn.stage \in {"off", "offer", "ask"}
             /\ t # Loop => turn.stage # "off" /\ turn.conn = server_task[n][t].conn
<1> DEFINE i == server_task[n][t].peer + 1
<1>1. i \in Nat /\ i >= 1
  BY DEF ServerShape, ServerTask
<1>2. next_peer(n, t) = turn_to_peer(n, t, i)
  BY DEF next_peer
<1> HIDE DEF i
<1> QED
  BY <1>1, <1>2, ServerTurn

\* One task changes, and only it.
LEMMA OneTask ==
  ASSUME ServerShape, NEW n \in Nodes, NEW t \in ServerTasks, NEW v, Runs(n, v),
         set_server_task(n, t, v)
  PROVE  /\ server_task' \in [Nodes -> [ServerTasks -> ServerTask]]
         /\ \A p \in Nodes, s \in ServerTasks : Runs(p, server_task'[p][s])
         /\ server_task'[n][t] = v
         /\ \A p \in Nodes, s \in ServerTasks :
              <<p, s>> # <<n, t>> => server_task'[p][s] = server_task[p][s]
<1>1. server_task' = [server_task EXCEPT ![n][t] = v]
  BY DEF set_server_task
<1>2. server_task \in [Nodes -> [ServerTasks -> ServerTask]] /\ v \in ServerTask
  BY DEF ServerShape, Runs
<1>3. server_task' \in [Nodes -> [ServerTasks -> ServerTask]]
  BY <1>1, <1>2
<1>4. /\ server_task'[n][t] = v
      /\ \A p \in Nodes, s \in ServerTasks :
           <<p, s>> # <<n, t>> => server_task'[p][s] = server_task[p][s]
  BY <1>1, <1>2
<1>5. ASSUME NEW p \in Nodes, NEW s \in ServerTasks
      PROVE  Runs(p, server_task'[p][s])
  <2>1. CASE <<p, s>> = <<n, t>>
    BY <1>4, <2>1
  <2>2. CASE <<p, s>> # <<n, t>>
    <3>1. server_task'[p][s] = server_task[p][s]
      BY <1>4, <2>2
    <3> QED
      BY <3>1 DEF ServerShape
  <2> QED
    BY <2>1, <2>2
<1> QED
  BY <1>3, <1>4, <1>5

(***************************************************************************)
(* Slots are counted.                                                      *)
(***************************************************************************)

\* The handlers of an address are finitely many, one more at most than may be.
LEMMA HandlersFinite ==
  ASSUME NEW H \in SUBSET Places
  PROVE  IsFiniteSet(H) /\ Cardinality(H) \in Nat /\ Cardinality(Places) = MAX_P2P_CONNS_PER_IP + 1
         /\ IsFiniteSet(Places)
<1>1. MAX_P2P_CONNS_PER_IP \in Nat
  BY ServerConstants
<1>2. Places = 1 .. (MAX_P2P_CONNS_PER_IP + 1) /\ 1 <= MAX_P2P_CONNS_PER_IP + 1
  BY <1>1 DEF Places
<1>3. IsFiniteSet(Places) /\ Cardinality(Places) = MAX_P2P_CONNS_PER_IP + 1
  BY <1>1, <1>2, FS_Interval
<1>4. IsFiniteSet(H)
  BY <1>3, FS_Subset
<1> QED
  BY <1>3, <1>4, FS_CardinalityType

\* No slot is taken or given back.
LEMMA SlotsSame ==
  ASSUME SlotsCounted, ip_counts' = ip_counts,
         \A p \in Nodes, s \in Slots :
           (server_task'[p][s].stage = "off") <=> (server_task[p][s].stage = "off")
  PROVE  SlotsCounted'
<1>1. ASSUME NEW n \in Nodes, NEW p \in Nodes
      PROVE  handlers(n, p)' = handlers(n, p)
  <2>1. \A k \in Places : <<p, k>> \in Slots
    BY ServerConstants
  <2> QED
    BY <2>1 DEF handlers
<1>2. ASSUME NEW n \in Nodes, NEW p \in Nodes
      PROVE  /\ ip_counts'[n][p] = Cardinality(handlers(n, p)')
             /\ ip_counts'[n][p] <= MAX_P2P_CONNS_PER_IP
  BY <1>1 DEF SlotsCounted
<1> QED
  BY <1>2 DEF SlotsCounted

\* A handler's slot is given back.
LEMMA SlotFreed ==
  ASSUME ServerShape, SlotsCounted,
         NEW n \in Nodes, NEW s \in Slots,
         server_task[n][s].stage # "off", server_task'[n][s].stage = "off",
         \A p \in Nodes, u \in Slots : <<p, u>> # <<n, s>> =>
           ((server_task'[p][u].stage = "off") <=> (server_task[p][u].stage = "off")),
         ip_counts' = guard_dropped(n, s[1])
  PROVE  /\ ip_counts' \in [Nodes -> [Nodes -> Nat]]
         /\ SlotsCounted'
<1>1. PICK a \in Nodes, k \in Places : s = <<a, k>>
  BY ServerConstants
<1>2. s[1] = a /\ MAX_P2P_CONNS_PER_IP \in Nat
  BY <1>1, ServerConstants
<1>3. /\ ip_counts \in [Nodes -> [Nodes -> Nat]]
      /\ ip_counts' = [ip_counts EXCEPT ![n][a] = IF @ <= 1 THEN 0 ELSE @ - 1]
  BY <1>2 DEF ServerShape, guard_dropped
<1>4. ip_counts' \in [Nodes -> [Nodes -> Nat]]
  BY <1>3
<1> DEFINE H == handlers(n, a)
<1>5. H \in SUBSET Places /\ k \in H /\ ip_counts[n][a] = Cardinality(H)
  BY <1>1 DEF handlers, SlotsCounted
<1>6. handlers(n, a)' = H \ {k}
  <2>1. \A j \in Places : <<a, j>> \in Slots
    BY ServerConstants
  <2>2. \A j \in Places : j # k =>
          ((server_task'[n][<<a, j>>].stage = "off") <=> (server_task[n][<<a, j>>].stage = "off"))
    BY <1>1, <2>1
  <2>3. server_task'[n][<<a, k>>].stage = "off"
    BY <1>1
  <2> QED
    BY <2>2, <2>3 DEF handlers
<1> HIDE DEF H
<1>7. IsFiniteSet(H) /\ Cardinality(H) \in Nat
  BY <1>5, HandlersFinite
<1>8. Cardinality(H \ {k}) = Cardinality(H) - 1
  BY <1>5, <1>7, FS_RemoveElement
<1>9. Cardinality(H \ {k}) \in Nat
  <2>1. H \ {k} \in SUBSET Places
    BY <1>5
  <2> QED
    BY <2>1, HandlersFinite
<1>10. ip_counts'[n][a] = Cardinality(H \ {k})
  <2>1. ip_counts'[n][a] = IF Cardinality(H) <= 1 THEN 0 ELSE Cardinality(H) - 1
    BY <1>3, <1>5
  <2> QED
    BY <1>7, <1>8, <1>9, <2>1
<1>11. ASSUME NEW m \in Nodes, NEW p \in Nodes
       PROVE  /\ ip_counts'[m][p] = Cardinality(handlers(m, p)')
              /\ ip_counts'[m][p] <= MAX_P2P_CONNS_PER_IP
  <2>1. CASE m = n /\ p = a
    <3>1. ip_counts[n][a] <= MAX_P2P_CONNS_PER_IP
      BY DEF SlotsCounted
    <3>2. ip_counts'[n][a] <= MAX_P2P_CONNS_PER_IP
      BY <1>2, <1>5, <1>7, <1>8, <1>10, <3>1
    <3> QED
      BY <1>6, <1>10, <2>1, <3>2
  <2>2. CASE m # n \/ p # a
    <3>1. ip_counts'[m][p] = ip_counts[m][p]
      BY <1>3, <2>2
    <3>2. \A j \in Places : <<p, j>> \in Slots
      BY ServerConstants
    <3>3. \A j \in Places : <<m, <<p, j>>>> # <<n, s>>
      BY <1>1, <2>2
    <3>4. handlers(m, p)' = handlers(m, p)
      BY <3>2, <3>3 DEF handlers
    <3> QED
      BY <3>1, <3>4 DEF SlotsCounted
  <2> QED
    BY <2>1, <2>2
<1> QED
  BY <1>4, <1>11 DEF SlotsCounted

\* An address below its limit has a place left, and one of its places is taken.
LEMMA SlotTaken ==
  ASSUME ServerShape, SlotsCounted,
         NEW n \in Nodes, NEW a \in Nodes, try_ip_guard(n, a).granted
  PROVE  LET place == Min(Places \ handlers(n, a))
         IN  /\ place \in Places /\ <<a, place>> \in Slots
             /\ server_task[n][<<a, place>>].stage = "off"
             /\ try_ip_guard(n, a).counts \in [Nodes -> [Nodes -> Nat]]
             /\ ( /\ ip_counts' = try_ip_guard(n, a).counts
                  /\ server_task'[n][<<a, place>>].stage # "off"
                  /\ \A p \in Nodes, u \in Slots : <<p, u>> # <<n, <<a, place>>>> =>
                       server_task'[p][u] = server_task[p][u]
                => SlotsCounted' )
<1> DEFINE H == handlers(n, a)
           place == Min(Places \ H)
<1>1. MAX_P2P_CONNS_PER_IP \in Nat /\ Places = 1 .. MAX_P2P_CONNS_PER_IP + 1
  BY ServerConstants DEF Places
<1>2. ip_counts \in [Nodes -> [Nodes -> Nat]]
  BY DEF ServerShape
<1>3. /\ ip_counts[n][a] < MAX_P2P_CONNS_PER_IP
      /\ try_ip_guard(n, a).counts = [ip_counts EXCEPT ![n][a] = @ + 1]
  BY <1>1, <1>2 DEF try_ip_guard
<1>4. H \in SUBSET Places /\ ip_counts[n][a] = Cardinality(H)
  BY DEF handlers, SlotsCounted
<1>5. /\ IsFiniteSet(H) /\ Cardinality(H) \in Nat
      /\ Cardinality(Places) = MAX_P2P_CONNS_PER_IP + 1
  BY <1>4, HandlersFinite
<1>6. Places \ H # {}
  <2>1. ASSUME Places \ H = {}
        PROVE  FALSE
    <3>1. H = Places
      BY <1>4, <2>1
    <3> HIDE DEF H
    <3> QED
      BY <1>1, <1>3, <1>4, <1>5, <3>1
  <2> QED
    BY <2>1
<1>7. place \in Places \ H
  <2>1. Places \ H \in SUBSET Nat
    BY <1>1
  <2> HIDE DEF H
  <2> QED
    BY <1>6, <2>1, LeastElement
<1>8. <<a, place>> \in Slots
  BY <1>7, ServerConstants
<1>9. server_task[n][<<a, place>>].stage = "off"
  BY <1>7 DEF handlers
<1>10. try_ip_guard(n, a).counts \in [Nodes -> [Nodes -> Nat]]
  BY <1>2, <1>3
<1> HIDE DEF place
<1>11. ASSUME ip_counts' = try_ip_guard(n, a).counts,
              server_task'[n][<<a, place>>].stage # "off",
              \A p \in Nodes, u \in Slots : <<p, u>> # <<n, <<a, place>>>> =>
                server_task'[p][u] = server_task[p][u],
              NEW m \in Nodes, NEW p \in Nodes
       PROVE  /\ ip_counts'[m][p] = Cardinality(handlers(m, p)')
              /\ ip_counts'[m][p] <= MAX_P2P_CONNS_PER_IP
  <2>1. \A j \in Places : <<p, j>> \in Slots
    BY ServerConstants
  <2>2. CASE m = n /\ p = a
    <3>1. handlers(n, a)' = H \cup {place}
      <4>1. \A j \in Places : j # place =>
              server_task'[n][<<a, j>>] = server_task[n][<<a, j>>]
        BY <1>11, <2>1, <2>2
      <4> QED
        BY <1>7, <1>11, <4>1 DEF handlers
    <3>2. ip_counts'[n][a] = Cardinality(H) + 1
      BY <1>2, <1>3, <1>4, <1>11
    <3> HIDE DEF H
    <3>3. Cardinality(H \cup {place}) = Cardinality(H) + 1
      BY <1>5, <1>7, FS_AddElement
    <3>4. ip_counts'[n][a] <= MAX_P2P_CONNS_PER_IP
      BY <1>1, <1>3, <1>4, <1>5, <3>2
    <3> QED
      BY <2>2, <3>1, <3>2, <3>3, <3>4
  <2>3. CASE m # n \/ p # a
    <3>1. ip_counts'[m][p] = ip_counts[m][p]
      BY <1>2, <1>3, <1>11, <2>3
    <3>2. \A j \in Places : <<m, <<p, j>>>> # <<n, <<a, place>>>>
      BY <2>3
    <3>3. handlers(m, p)' = handlers(m, p)
      BY <1>11, <2>1, <3>2 DEF handlers
    <3> QED
      BY <3>1, <3>3 DEF SlotsCounted
  <2> QED
    BY <2>2, <2>3
<1>12. /\ ip_counts' = try_ip_guard(n, a).counts
       /\ server_task'[n][<<a, place>>].stage # "off"
       /\ \A p \in Nodes, u \in Slots : <<p, u>> # <<n, <<a, place>>>> =>
            server_task'[p][u] = server_task[p][u]
       => SlotsCounted'
  BY <1>11 DEF SlotsCounted
<1> QED
  BY <1>7, <1>8, <1>9, <1>10, <1>12 DEF place

(***************************************************************************)
(* Open connections.                                                       *)
(***************************************************************************)

\* No step changes what is a task or a connection.
LEMMA ConstantSets ==
  /\ Loop' = Loop /\ Slots' = Slots /\ ServerTasks' = ServerTasks
  /\ Conn' = Conn /\ ServerTask' = ServerTask
BY DEF Loop, ServerTasks, Slots, Places, Conn, Nobody, ServerTask

\* The connection of a slot, and those of a backlog, are connections.
LEMMA ConnectionsShape ==
  ASSUME ServerShape
  PROVE  /\ \A p \in Nodes, s \in ServerTasks : server_task[p][s].conn \in Conn
         /\ \A p \in Nodes : backlog[p] \in SUBSET Conn
BY DEF ServerShape, ServerTask

\* A caller that does not wait has no open connection.
LEMMA NoneOpen ==
  ASSUME Waited, NEW n \in Nodes, NEW t \in ServerTasks, server_task[n][t].stage # "await",
         NEW p \in Nodes, NEW s \in ServerTasks, NEW c \in Conn, OpenAt(p, s, c)
  PROVE  c.caller # <<n, t>>
<1>1. server_task[c.caller[1]][c.caller[2]].stage = "await"
  BY DEF Waited
<1> QED
  BY <1>1

\* Of the slots, only a handler that has not read its connection has it open.
LEMMA NotOpen ==
  ASSUME ServerShape, Waited, NEW n \in Nodes, NEW s \in Slots,
         server_task[n][s].stage # "read" \/ server_task[n][s].conn.msg = "block"
  PROVE  ~ server_task[n][s].conn.open
<1> DEFINE c == server_task[n][s].conn
<1>1. s \in ServerTasks /\ s # Loop
  BY ServerConstants
<1>2. c \in Conn
  BY <1>1, ConnectionsShape
<1>3. c.open => OpenAt(n, s, c)
  BY <1>1 DEF OpenAt
<1>4. OpenAt(n, s, c) => c.msg = "request" /\ server_task[n][s].stage = "read"
  BY <1>1, <1>2 DEF Waited
<1> QED
  BY <1>3, <1>4

\* Nothing is opened or moved, and whose connection is still open still waits.
LEMMA OpenFewer ==
  ASSUME Waited, OnePlace,
         \A p \in Nodes, s \in ServerTasks, c \in Conn : OpenAt(p, s, c)' =>
           /\ OpenAt(p, s, c)
           /\ server_task'[c.caller[1]][c.caller[2]].stage = "await"
           /\ server_task'[c.caller[1]][c.caller[2]].our_height = c.height
           /\ s # Loop => server_task'[p][s].stage = "read"
  PROVE  Waited' /\ OnePlace'
<1>1. ASSUME NEW p \in Nodes, NEW s \in ServerTasks, NEW c \in Conn, OpenAt(p, s, c)'
      PROVE  /\ c.msg = "request" /\ c.caller \in Nodes \X ServerTasks
             /\ server_task'[c.caller[1]][c.caller[2]].stage = "await"
             /\ server_task'[c.caller[1]][c.caller[2]].our_height = c.height
             /\ s # Loop => server_task'[p][s].stage = "read"
  BY <1>1 DEF Waited
<1>2. ASSUME NEW p \in Nodes, NEW q \in Nodes, NEW s \in ServerTasks, NEW u \in ServerTasks,
             NEW c \in Conn, NEW d \in Conn, OpenAt(p, s, c)', OpenAt(q, u, d)',
             c.caller = d.caller
      PROVE  p = q /\ s = u /\ c = d
  <2>1. OpenAt(p, s, c) /\ OpenAt(q, u, d)
    BY <1>2
  <2> QED
    BY <1>2, <2>1 DEF OnePlace
<1>3. Waited'
  BY <1>1, ConstantSets DEF Waited
<1>4. OnePlace'
  BY <1>2, ConstantSets DEF OnePlace
<1> QED
  BY <1>3, <1>4

\* The same when a task that does not wait changes, and its new state has nothing open.
LEMMA OpenAfterTurn ==
  ASSUME ServerShape, Waited, OnePlace, NEW n \in Nodes, NEW t \in ServerTasks,
         server_task[n][t].stage # "await",
         t # Loop => ~ server_task'[n][t].conn.open,
         \A p \in Nodes, s \in ServerTasks :
           <<p, s>> # <<n, t>> => server_task'[p][s] = server_task[p][s],
         \A p \in Nodes, c \in Conn : c.open /\ c \in backlog'[p] => c \in backlog[p]
  PROVE  Waited' /\ OnePlace'
<1>1. ASSUME NEW p \in Nodes, NEW s \in ServerTasks, NEW c \in Conn, OpenAt(p, s, c)'
      PROVE  /\ OpenAt(p, s, c)
             /\ server_task'[c.caller[1]][c.caller[2]].stage = "await"
             /\ server_task'[c.caller[1]][c.caller[2]].our_height = c.height
             /\ s # Loop => server_task'[p][s].stage = "read"
  <2>1. c.open /\ IF s = Loop THEN c \in backlog'[p] ELSE c = server_task'[p][s].conn
    BY <1>1 DEF OpenAt, Loop
  <2>2. s # Loop => server_task'[p][s] = server_task[p][s]
    BY <2>1
  <2>3. OpenAt(p, s, c)
    BY <2>1, <2>2 DEF OpenAt
  <2>4. /\ c.caller \in Nodes \X ServerTasks
        /\ server_task[c.caller[1]][c.caller[2]].stage = "await"
        /\ server_task[c.caller[1]][c.caller[2]].our_height = c.height
        /\ s # Loop => server_task[p][s].stage = "read"
    BY <2>3 DEF Waited
  <2>5. c.caller # <<n, t>>
    BY <2>3, NoneOpen
  <2>6. /\ c.caller[1] \in Nodes /\ c.caller[2] \in ServerTasks
        /\ <<c.caller[1], c.caller[2]>> = c.caller
    BY <2>4
  <2>7. server_task'[c.caller[1]][c.caller[2]] = server_task[c.caller[1]][c.caller[2]]
    BY <2>5, <2>6
  <2> QED
    BY <2>2, <2>3, <2>4, <2>7
<1>2. \A p \in Nodes, s \in ServerTasks, c \in Conn : OpenAt(p, s, c)' =>
        /\ OpenAt(p, s, c)
        /\ server_task'[c.caller[1]][c.caller[2]].stage = "await"
        /\ server_task'[c.caller[1]][c.caller[2]].our_height = c.height
        /\ s # Loop => server_task'[p][s].stage = "read"
  <2> TAKE p \in Nodes, s \in ServerTasks, c \in Conn
  <2> HAVE OpenAt(p, s, c)'
  <2> QED
    BY <1>1
<1> QED
  BY <1>2, OpenFewer

(***************************************************************************)
(* The steps.                                                              *)
(***************************************************************************)

\* Shapes are kept when each part keeps its own.
LEMMA NextShape ==
  ASSUME height' \in [Nodes -> 0 .. MaxHeight], ip_counts' \in [Nodes -> [Nodes -> Nat]],
         backlog' \in [Nodes -> SUBSET Conn],
         \A p \in Nodes : \A c \in backlog'[p] : c.from \in Nodes,
         server_task' \in [Nodes -> [ServerTasks -> ServerTask]],
         \A p \in Nodes, s \in ServerTasks : Runs(p, server_task'[p][s])
  PROVE  ServerShape'
BY ConstantSets DEF ServerShape, Runs

\* A task that does not wait goes on, without an open connection; a slot that it frees
\* is given back.
LEMMA TurnStep ==
  ASSUME ServerInv, NEW n \in Nodes, NEW t \in ServerTasks, NEW v,
         Runs(n, v), set_server_task(n, t, v), server_task[n][t].stage # "await",
         t # Loop => ~ v.conn.open,
         height' \in [Nodes -> 0 .. MaxHeight], backlog' = backlog,
         \/ ip_counts' = ip_counts /\ (t # Loop => (server_task[n][t].stage # "off" /\ v.stage # "off"))
         \/ /\ t # Loop /\ server_task[n][t].stage # "off" /\ v.stage = "off"
            /\ ip_counts' = guard_dropped(n, t[1])
  PROVE  ServerInv'
<1>1. ServerShape /\ Waited /\ OnePlace /\ SlotsCounted
  BY DEF ServerInv
<1>2. /\ server_task' \in [Nodes -> [ServerTasks -> ServerTask]]
      /\ \A p \in Nodes, s \in ServerTasks : Runs(p, server_task'[p][s])
      /\ server_task'[n][t] = v
      /\ \A p \in Nodes, s \in ServerTasks :
           <<p, s>> # <<n, t>> => server_task'[p][s] = server_task[p][s]
  BY <1>1, OneTask
<1>3. backlog' \in [Nodes -> SUBSET Conn] /\ \A p \in Nodes : \A c \in backlog'[p] : c.from \in Nodes
  BY <1>1 DEF ServerShape
<1>4. Waited' /\ OnePlace'
  <2>1. \A p \in Nodes, c \in Conn : c.open /\ c \in backlog'[p] => c \in backlog[p]
    OBVIOUS
  <2>2. t # Loop => ~ server_task'[n][t].conn.open
    BY <1>2
  <2> QED
    BY <1>1, <1>2, <2>1, <2>2, OpenAfterTurn
<1>5. Slots \subseteq ServerTasks /\ Loop \notin Slots /\ (t # Loop => t \in Slots)
  BY ServerConstants
<1>6. ip_counts' \in [Nodes -> [Nodes -> Nat]] /\ SlotsCounted'
  <2>1. CASE ip_counts' = ip_counts /\ (t # Loop => (server_task[n][t].stage # "off" /\ v.stage # "off"))
    <3>1. \A p \in Nodes, s \in Slots :
            (server_task'[p][s].stage = "off") <=> (server_task[p][s].stage = "off")
      BY <1>2, <1>5, <2>1
    <3>2. SlotsCounted'
      BY <1>1, <2>1, <3>1, SlotsSame
    <3> QED
      BY <1>1, <2>1, <3>2 DEF ServerShape
  <2>2. CASE /\ t # Loop /\ server_task[n][t].stage # "off" /\ v.stage = "off"
             /\ ip_counts' = guard_dropped(n, t[1])
    <3>1. \A p \in Nodes, u \in Slots : <<p, u>> # <<n, t>> =>
            ((server_task'[p][u].stage = "off") <=> (server_task[p][u].stage = "off"))
      BY <1>2, <1>5
    <3>2. server_task'[n][t].stage = "off" /\ t \in Slots
      BY <1>2, <1>5, <2>2
    <3> QED
      BY <1>1, <2>2, <3>1, <3>2, SlotFreed
  <2> QED
    BY <2>1, <2>2
<1> QED
  BY <1>2, <1>3, <1>4, <1>6, NextShape DEF ServerInv

\* The loop wakes up.
LEMMA StartLoopStep ==
  ASSUME ServerInv, NEW n \in Nodes, StartLoop(n)
  PROVE  ServerInv'
<1>1. /\ ServerShape /\ Loop \in ServerTasks /\ server_task[n][Loop].stage = "off"
      /\ set_server_task(n, Loop, turn_to_peer(n, Loop, 1))
      /\ height' = height /\ ip_counts' = ip_counts /\ backlog' = backlog
  BY ServerConstants DEF StartLoop, ServerInv, Loop
<1>2. Runs(n, turn_to_peer(n, Loop, 1))
  BY <1>1, ServerTurn
<1>3. height' \in [Nodes -> 0 .. MaxHeight]
  BY <1>1 DEF ServerShape
<1> HIDE DEF Loop
<1> QED
  BY <1>1, <1>2, <1>3, TurnStep

\* A slot's handler is between calls: nothing is open, and the next peer keeps the slot.
LEMMA NextPeerStep ==
  ASSUME ServerInv, NEW n \in Nodes, NEW t \in ServerTasks,
         server_task[n][t].stage \in {"ask", "apply"},
         set_server_task(n, t, next_peer(n, t)),
         height' = height, ip_counts' = ip_counts, backlog' = backlog
  PROVE  ServerInv'
<1>1. ServerShape /\ Waited
  BY DEF ServerInv
<1> DEFINE v == next_peer(n, t)
<1>2. /\ Runs(n, v) /\ v.stage \in {"off", "offer", "ask"}
      /\ t # Loop => v.stage # "off" /\ v.conn = server_task[n][t].conn
  BY <1>1, ServerNextPeer
<1>3. t # Loop => ~ v.conn.open
  <2>1. t # Loop => t \in Slots
    BY ServerConstants
  <2>2. server_task[n][t].stage # "read"
    OBVIOUS
  <2> HIDE DEF v
  <2> QED
    BY <1>1, <1>2, <2>1, <2>2, NotOpen
<1>4. height' \in [Nodes -> 0 .. MaxHeight]
  BY <1>1 DEF ServerShape
<1>5. server_task[n][t].stage # "await" /\ server_task[n][t].stage # "off"
  OBVIOUS
<1>6. set_server_task(n, t, v)
  OBVIOUS
<1> HIDE DEF v
<1> QED
  BY <1>2, <1>3, <1>4, <1>5, <1>6, TurnStep

\* A peer that cannot be reached is passed over.
LEMMA AskFailsStep ==
  ASSUME ServerInv, NEW n \in Nodes, NEW t \in ServerTasks,
         AskFails(n, t)
  PROVE  ServerInv'
<1>1. /\ server_task[n][t].stage = "ask" /\ set_server_task(n, t, next_peer(n, t))
      /\ height' = height /\ ip_counts' = ip_counts /\ backlog' = backlog
  BY DEF AskFails
<1> QED
  BY <1>1, NextPeerStep

\* A block of an answer is applied, or the answer dropped.
LEMMA AdvanceNextStep ==
  ASSUME ServerInv, NEW n \in Nodes, NEW t \in ServerTasks,
         AdvanceNext(n, t)
  PROVE  ServerInv'
<1> DEFINE this == server_task[n][t]
<1>1. /\ ServerShape /\ Waited
      /\ this \in ServerTask /\ Runs(n, this) /\ height \in [Nodes -> 0 .. MaxHeight]
  BY DEF ServerInv, ServerShape
<1>2. /\ this.stage = "apply" /\ ip_counts' = ip_counts /\ backlog' = backlog
      /\ height' = IF height[n] = this.our_height THEN [height EXCEPT ![n] = @ + 1] ELSE height
      /\ set_server_task(n, t,
           IF height[n] # this.our_height THEN next_peer(n, t)
           ELSE IF height[n] + 1 = this.last THEN turn_to_peer(n, t, this.peer)
           ELSE [this EXCEPT !.our_height = @ + 1])
  BY DEF AdvanceNext
<1>3. /\ this.our_height \in Nat /\ this.last \in Nat /\ this.last <= MaxHeight /\ MaxHeight \in Nat
      /\ this.our_height < this.last /\ this.peer >= 1 /\ this.peer \in Nat
  BY <1>1, <1>2, ServerConstants DEF Runs, ServerTask
<1>4. t # Loop => t \in Slots /\ ~ this.conn.open
  <2>1. t # Loop => t \in Slots
    BY ServerConstants
  <2> QED
    BY <1>1, <1>2, <2>1, NotOpen
<1>5. CASE height[n] # this.our_height
  BY <1>2, <1>5, NextPeerStep
<1>6. CASE height[n] = this.our_height /\ height[n] + 1 = this.last
  <2> DEFINE v == turn_to_peer(n, t, this.peer)
  <2>1. /\ Runs(n, v) /\ v.stage \in {"off", "offer", "ask"}
        /\ t # Loop => v.stage # "off" /\ v.conn = this.conn
    BY <1>1, <1>3, ServerTurn
  <2>2. height' \in [Nodes -> 0 .. MaxHeight]
    BY <1>1, <1>2, <1>3, <1>6
  <2>3. set_server_task(n, t, v) /\ this.stage # "await" /\ this.stage # "off"
    BY <1>2, <1>6
  <2> HIDE DEF v
  <2> QED
    BY <1>2, <1>4, <2>1, <2>2, <2>3, TurnStep
<1>7. CASE height[n] = this.our_height /\ height[n] + 1 # this.last
  <2> DEFINE v == [this EXCEPT !.our_height = @ + 1]
  <2>1. set_server_task(n, t, v) /\ this.stage # "await" /\ this.stage # "off"
    BY <1>2, <1>7
  <2>2. this.our_height + 1 < this.last /\ height[n] + 1 <= MaxHeight
    <3> HIDE DEF this
    <3>1. this.our_height + 1 # this.last
      BY <1>7
    <3>2. this.our_height + 1 < this.last
      BY <1>3, <3>1
    <3> QED
      BY <1>3, <1>7, <3>2
  <2>6. height' \in [Nodes -> 0 .. MaxHeight]
    BY <1>1, <1>2, <1>7, <2>2
  <2>3. /\ v \in ServerTask /\ v.stage = this.stage /\ v.conn = this.conn /\ v.peer = this.peer
        /\ v.our_height = this.our_height + 1 /\ v.last = this.last
    <3> HIDE DEF this
    <3>1. this.our_height + 1 \in 0 .. MaxHeight
      BY <1>3, <2>2
    <3> QED
      BY <1>1, <3>1 DEF ServerTask
  <2> HIDE DEF v
  <2>4. Runs(n, v)
    BY <1>1, <1>3, <2>2, <2>3 DEF Runs
  <2>5. v.stage # "off"
    BY <2>1, <2>3
  <2> QED
    BY <1>2, <1>4, <2>1, <2>3, <2>4, <2>5, <2>6, TurnStep
<1> QED
  BY <1>5, <1>6, <1>7

\* A handler has read a block: it is kept for a catch-up, or offered.
LEMMA ReadBlockStep ==
  ASSUME ServerInv, NEW n \in Nodes, NEW s \in Slots,
         ReadBlock(n, s)
  PROVE  ServerInv'
<1> DEFINE this == server_task[n][s]
           conn == this.conn
<1>1. s \in ServerTasks /\ s # Loop
  BY ServerConstants
<1>2. ServerShape /\ Waited /\ this \in ServerTask /\ Runs(n, this)
  BY <1>1 DEF ServerInv, ServerShape
<1>3. /\ this.stage = "read" /\ conn.msg = "block"
      /\ set_server_task(n, s, IF conn.height > height[n] + 1 THEN turn_to_peer(n, s, 1)
                               ELSE [this EXCEPT !.stage = "offer"])
      /\ height' = height /\ ip_counts' = ip_counts /\ backlog' = backlog
  BY DEF ReadBlock
<1>4. ~ conn.open
  BY <1>2, <1>3, NotOpen
<1>5. height' \in [Nodes -> 0 .. MaxHeight] /\ this.stage # "await" /\ this.stage # "off"
  BY <1>2, <1>3 DEF ServerShape
<1>6. CASE conn.height > height[n] + 1
  <2> DEFINE v == turn_to_peer(n, s, 1)
  <2>1. Runs(n, v) /\ v.stage \in {"off", "offer", "ask"} /\ v.stage # "off" /\ v.conn = conn
    BY <1>1, <1>2, ServerTurn
  <2>2. set_server_task(n, s, v)
    BY <1>3, <1>6
  <2> HIDE DEF v
  <2> QED
    BY <1>1, <1>3, <1>4, <1>5, <2>1, <2>2, TurnStep
<1>7. CASE ~ (conn.height > height[n] + 1)
  <2> DEFINE v == [this EXCEPT !.stage = "offer"]
  <2>1. set_server_task(n, s, v)
    BY <1>3, <1>7
  <2>2. v \in ServerTask /\ v.stage = "offer" /\ v.conn = conn /\ v.peer = this.peer
    <3> HIDE DEF this
    <3> QED
      BY <1>2 DEF ServerTask
  <2> HIDE DEF v
  <2>3. Runs(n, v)
    BY <1>2, <2>2 DEF Runs
  <2> QED
    BY <1>1, <1>3, <1>4, <1>5, <2>1, <2>2, <2>3, TurnStep
<1> QED
  BY <1>6, <1>7

\* A handler ends: its slot is given back.
LEMMA HandlerEnds ==
  ASSUME ServerInv, NEW n \in Nodes, NEW s \in Slots,
         server_task[n][s].stage \in {"read", "offer"}, set_server_task(n, s, off),
         ip_counts' = guard_dropped(n, s[1]), backlog' = backlog,
         height' \in [Nodes -> 0 .. MaxHeight]
  PROVE  ServerInv'
<1>1. s \in ServerTasks /\ s # Loop /\ Len(PeerList[n]) \in Nat
  BY ServerConstants
<1>2. /\ off \in ServerTask /\ off.stage = "off" /\ off.peer = 0
      /\ ~ off.conn.open
  BY OffTask
<1>3. Runs(n, off)
  BY <1>1, <1>2 DEF Runs
<1>4. server_task[n][s].stage # "await" /\ server_task[n][s].stage # "off"
  OBVIOUS
<1> QED
  BY <1>1, <1>2, <1>3, <1>4, TurnStep

\* A handler offers its block to the node.
LEMMA HandBlockOverStep ==
  ASSUME ServerInv, NEW n \in Nodes, NEW s \in Slots,
         HandBlockOver(n, s)
  PROVE  ServerInv'
<1> DEFINE conn == server_task[n][s].conn
<1>1. /\ server_task[n][s].stage = "offer" /\ set_server_task(n, s, off)
      /\ ip_counts' = guard_dropped(n, s[1]) /\ backlog' = backlog
      /\ height' = IF conn.height = height[n] + 1 THEN [height EXCEPT ![n] = @ + 1] ELSE height
  BY DEF HandBlockOver
<1>2. height \in [Nodes -> 0 .. MaxHeight] /\ conn.height \in 0 .. MaxHeight
  <2>1. s \in ServerTasks
    BY ServerConstants
  <2>2. conn \in Conn
    BY <2>1, ConnectionsShape DEF ServerInv
  <2> QED
    BY <2>2 DEF ServerInv, ServerShape, Conn
<1>3. height' \in [Nodes -> 0 .. MaxHeight]
  <2> HIDE DEF conn
  <2>1. MaxHeight \in Nat
    BY ServerConstants
  <2> QED
    BY <1>1, <1>2, <2>1
<1> QED
  BY <1>1, <1>3, HandlerEnds

\* A handler has nothing to read.
LEMMA ReadFailsStep ==
  ASSUME ServerInv, NEW n \in Nodes, NEW s \in Slots,
         ReadFails(n, s)
  PROVE  ServerInv'
<1>1. /\ server_task[n][s].stage = "read" /\ set_server_task(n, s, off)
      /\ ip_counts' = guard_dropped(n, s[1]) /\ backlog' = backlog /\ height' = height
  BY DEF ReadFails
<1>2. height' \in [Nodes -> 0 .. MaxHeight]
  BY <1>1 DEF ServerInv, ServerShape
<1> QED
  BY <1>1, <1>2, HandlerEnds

\* A miner's block is sent: a connection that nobody waits for.
LEMMA MineStep ==
  ASSUME ServerInv, NEW n \in Nodes, Mine(n)
  PROVE  ServerInv'
<1> DEFINE sent == Connection(n, "block", height[n] + 1, Nobody)
<1>1. /\ ServerShape /\ Waited /\ OnePlace /\ SlotsCounted
      /\ height \in [Nodes -> 0 .. MaxHeight] /\ MaxHeight \in Nat
      /\ backlog \in [Nodes -> SUBSET Conn] /\ \A p \in Nodes : \A c \in backlog[p] : c.from \in Nodes
  BY ServerConstants DEF ServerInv, ServerShape
<1>2. PICK reached \in SUBSET ToSet(PeerList[n]) :
        backlog' = [p \in Nodes |-> IF p \in reached THEN backlog[p] \cup {sent} ELSE backlog[p]]
  BY DEF Mine
<1>3. /\ height[n] < MaxHeight /\ height' = [height EXCEPT ![n] = @ + 1]
      /\ ip_counts' = ip_counts /\ server_task' = server_task
  BY DEF Mine
<1>4. height' \in [Nodes -> 0 .. MaxHeight] /\ height[n] + 1 \in 0 .. MaxHeight
  BY <1>1, <1>3
<1>5. sent = [from |-> n, msg |-> "block", height |-> height[n] + 1, caller |-> Nobody, open |-> FALSE]
  BY DEF Connection
<1> HIDE DEF sent
<1>6. sent \in Conn /\ ~ sent.open /\ sent.from \in Nodes
  BY <1>4, <1>5 DEF Conn
<1>7. backlog' \in [Nodes -> SUBSET Conn] /\ \A p \in Nodes : \A c \in backlog'[p] : c.from \in Nodes
  BY <1>1, <1>2, <1>6
<1>8. /\ server_task' \in [Nodes -> [ServerTasks -> ServerTask]]
      /\ \A p \in Nodes, s \in ServerTasks : Runs(p, server_task'[p][s])
      /\ ip_counts' \in [Nodes -> [Nodes -> Nat]]
  BY <1>1, <1>3 DEF ServerShape
<1>9. \A p \in Nodes, s \in ServerTasks, c \in Conn : OpenAt(p, s, c)' =>
        /\ OpenAt(p, s, c)
        /\ server_task'[c.caller[1]][c.caller[2]].stage = "await"
        /\ server_task'[c.caller[1]][c.caller[2]].our_height = c.height
        /\ s # Loop => server_task'[p][s].stage = "read"
  <2> TAKE p \in Nodes, s \in ServerTasks, c \in Conn
  <2> HAVE OpenAt(p, s, c)'
  <2>1. c.open /\ IF s = Loop THEN c \in backlog'[p] ELSE c = server_task'[p][s].conn
    BY ConstantSets DEF OpenAt
  <2>2. OpenAt(p, s, c)
    BY <1>2, <1>3, <1>6, <2>1 DEF OpenAt
  <2> QED
    BY <1>1, <1>3, <2>2 DEF Waited
<1>10. Waited' /\ OnePlace'
  BY <1>1, <1>9, OpenFewer
<1>11. SlotsCounted'
  BY <1>1, <1>3, SlotsSame
<1> QED
  BY <1>4, <1>7, <1>8, <1>10, <1>11, NextShape DEF ServerInv

\* A task asks a peer: its one open connection, in the backlog of the peer.
LEMMA AskStep ==
  ASSUME ServerInv, NEW n \in Nodes, NEW t \in ServerTasks,
         Ask(n, t)
  PROVE  ServerInv'
<1> DEFINE this == server_task[n][t]
           q == PeerList[n][this.peer]
           asked == Connection(n, "request", height[n], <<n, t>>)
           v == [this EXCEPT !.stage = "await", !.our_height = height[n]]
<1>1. /\ ServerShape /\ Waited /\ OnePlace /\ SlotsCounted
      /\ height \in [Nodes -> 0 .. MaxHeight] /\ this \in ServerTask /\ Runs(n, this)
      /\ backlog \in [Nodes -> SUBSET Conn] /\ \A p \in Nodes : \A c \in backlog[p] : c.from \in Nodes
  BY DEF ServerInv, ServerShape
<1>2. /\ this.stage = "ask" /\ backlog' = [backlog EXCEPT ![q] = @ \cup {asked}]
      /\ set_server_task(n, t, v) /\ height' = height /\ ip_counts' = ip_counts
  BY DEF Ask
<1>3. q \in Nodes
  <2>1. this.peer \in 1 .. Len(PeerList[n])
    <3>1. /\ this.peer \in Nat /\ this.peer <= Len(PeerList[n])
          /\ this.stage \in {"ask", "await", "apply"} => this.peer >= 1
      <4> HIDE DEF this
      <4> QED
        BY <1>1 DEF Runs, ServerTask
    <3>2. this.peer >= 1
      BY <1>2, <3>1
    <3> QED
      BY <3>1, <3>2, ServerConstants
  <2> QED
    BY <2>1, ServerConstants
<1>4. asked \in Conn /\ asked.msg = "request" /\ asked.height = height[n]
      /\ asked.caller = <<n, t>> /\ asked.from = n
  <2>1. asked = [from |-> n, msg |-> "request", height |-> height[n], caller |-> <<n, t>>,
                 open |-> <<n, t>> # Nobody]
    BY DEF Connection
  <2> HIDE DEF asked
  <2> QED
    BY <1>1, <2>1 DEF Conn
<1>5. v \in ServerTask /\ v.stage = "await" /\ v.our_height = height[n] /\ v.conn = this.conn
      /\ v.peer = this.peer
  <2> HIDE DEF this
  <2> QED
    BY <1>1 DEF ServerTask
<1> HIDE DEF asked, v, q
<1>6. Runs(n, v)
  BY <1>1, <1>2, <1>5 DEF Runs
<1>7. /\ server_task' \in [Nodes -> [ServerTasks -> ServerTask]]
      /\ \A p \in Nodes, s \in ServerTasks : Runs(p, server_task'[p][s])
      /\ server_task'[n][t] = v
      /\ \A p \in Nodes, s \in ServerTasks :
           <<p, s>> # <<n, t>> => server_task'[p][s] = server_task[p][s]
  BY <1>1, <1>2, <1>6, OneTask
<1>8. /\ backlog' \in [Nodes -> SUBSET Conn] /\ \A p \in Nodes : \A c \in backlog'[p] : c.from \in Nodes
      /\ \A p \in Nodes : \A c \in backlog'[p] : c \in backlog[p] \/ (p = q /\ c = asked)
  BY <1>1, <1>2, <1>3, <1>4
<1>9. \* what is open is the new connection, or was open and is of another caller
      ASSUME NEW p \in Nodes, NEW s \in ServerTasks, NEW c \in Conn, OpenAt(p, s, c)'
      PROVE  \/ p = q /\ s = Loop /\ c = asked
             \/ OpenAt(p, s, c) /\ c.caller # <<n, t>>
  <2>1. c.open /\ IF s = Loop THEN c \in backlog'[p] ELSE c = server_task'[p][s].conn
    BY <1>9, ConstantSets DEF OpenAt
  <2>2. s # Loop => server_task'[p][s].conn = server_task[p][s].conn
    BY <1>5, <1>7
  <2>3. OpenAt(p, s, c) \/ (p = q /\ s = Loop /\ c = asked)
    BY <1>8, <2>1, <2>2 DEF OpenAt
  <2>4. this.stage # "await"
    BY <1>2
  <2> QED
    BY <1>1, <2>3, <2>4, NoneOpen
<1>10. Waited'
  <2>1. ASSUME NEW p \in Nodes, NEW s \in ServerTasks, NEW c \in Conn, OpenAt(p, s, c)'
        PROVE  /\ c.msg = "request" /\ c.caller \in Nodes \X ServerTasks
               /\ server_task'[c.caller[1]][c.caller[2]].stage = "await"
               /\ server_task'[c.caller[1]][c.caller[2]].our_height = c.height
               /\ s # Loop => server_task'[p][s].stage = "read"
    <3>1. CASE p = q /\ s = Loop /\ c = asked
      <4>1. /\ c.caller[1] = n /\ c.caller[2] = t /\ c.caller \in Nodes \X ServerTasks
            /\ c.msg = "request" /\ c.height = height[n]
        <5>1. c.caller = <<n, t>> /\ c.msg = "request" /\ c.height = height[n]
          BY <1>4, <3>1
        <5> QED
          BY <5>1
      <4>2. server_task'[c.caller[1]][c.caller[2]] = v
        BY <1>7, <4>1
      <4> QED
        BY <1>5, <3>1, <4>1, <4>2
    <3>2. CASE OpenAt(p, s, c) /\ c.caller # <<n, t>>
      <4>1. /\ c.msg = "request" /\ c.caller \in Nodes \X ServerTasks
            /\ server_task[c.caller[1]][c.caller[2]].stage = "await"
            /\ server_task[c.caller[1]][c.caller[2]].our_height = c.height
            /\ s # Loop => server_task[p][s].stage = "read"
        BY <1>1, <3>2 DEF Waited
      <4>2. server_task'[c.caller[1]][c.caller[2]] = server_task[c.caller[1]][c.caller[2]]
        <5>1. /\ c.caller[1] \in Nodes /\ c.caller[2] \in ServerTasks
              /\ <<c.caller[1], c.caller[2]>> = c.caller
          BY <4>1
        <5> QED
          BY <1>7, <3>2, <5>1
      <4>3. s # Loop => server_task'[p][s] = server_task[p][s]
        <5>1. s # Loop => <<p, s>> # <<n, t>>
          BY <1>2, <4>1
        <5> QED
          BY <1>7, <5>1
      <4> QED
        BY <4>1, <4>2, <4>3
    <3> QED
      BY <1>9, <2>1, <3>1, <3>2
  <2> QED
    BY <2>1, ConstantSets DEF Waited
<1>11. OnePlace'
  <2>1. ASSUME NEW p1 \in Nodes, NEW p2 \in Nodes, NEW s1 \in ServerTasks, NEW s2 \in ServerTasks,
               NEW c \in Conn, NEW d \in Conn, OpenAt(p1, s1, c)', OpenAt(p2, s2, d)',
               c.caller = d.caller
        PROVE  p1 = p2 /\ s1 = s2 /\ c = d
    <3>1. \/ p1 = q /\ s1 = Loop /\ c = asked
          \/ OpenAt(p1, s1, c) /\ c.caller # <<n, t>>
      BY <1>9, <2>1
    <3>2. \/ p2 = q /\ s2 = Loop /\ d = asked
          \/ OpenAt(p2, s2, d) /\ d.caller # <<n, t>>
      BY <1>9, <2>1
    <3> QED
      BY <1>1, <1>4, <2>1, <3>1, <3>2 DEF OnePlace
  <2> QED
    BY <2>1, ConstantSets DEF OnePlace
<1>12. SlotsCounted'
  <2>1. Slots \subseteq ServerTasks
    BY ServerConstants
  <2>2. \A p \in Nodes, s \in Slots :
          (server_task'[p][s].stage = "off") <=> (server_task[p][s].stage = "off")
    BY <1>2, <1>5, <1>7, <2>1
  <2> QED
    BY <1>1, <1>2, <2>2, SlotsSame
<1>13. height' \in [Nodes -> 0 .. MaxHeight] /\ ip_counts' \in [Nodes -> [Nodes -> Nat]]
  BY <1>1, <1>2 DEF ServerShape
<1> QED
  BY <1>7, <1>8, <1>10, <1>11, <1>12, <1>13, NextShape DEF ServerInv

\* A connection that its caller has closed is as it was, but not open; another is as
\* it was.
LEMMA HungUp ==
  ASSUME NEW n, NEW t, NEW c \in Conn
  PROVE  /\ hung_up(n, t, c) \in Conn /\ hung_up(n, t, c).from = c.from
         /\ hung_up(n, t, c).open => c.caller # <<n, t>> /\ hung_up(n, t, c) = c
<1>1. CASE c.caller = <<n, t>>
  <2>1. hung_up(n, t, c) = [c EXCEPT !.open = FALSE]
    BY <1>1 DEF hung_up
  <2>2. [c EXCEPT !.open = FALSE] \in Conn /\ ~ [c EXCEPT !.open = FALSE].open
        /\ [c EXCEPT !.open = FALSE].from = c.from
    BY DEF Conn
  <2> QED
    BY <2>1, <2>2
<1>2. CASE c.caller # <<n, t>>
  BY <1>2 DEF hung_up
<1> QED
  BY <1>1, <1>2

\* A request is given up, and its connection closed wherever it is.
LEMMA GivesUpStep ==
  ASSUME ServerInv, NEW n \in Nodes, NEW t \in ServerTasks,
         GivesUp(n, t)
  PROVE  ServerInv'
<1> DEFINE v == next_peer(n, t)
<1>1. /\ ServerShape /\ Waited /\ OnePlace /\ SlotsCounted
      /\ height \in [Nodes -> 0 .. MaxHeight] /\ ip_counts \in [Nodes -> [Nodes -> Nat]]
      /\ backlog \in [Nodes -> SUBSET Conn] /\ \A p \in Nodes : \A c \in backlog[p] : c.from \in Nodes
      /\ \A p \in Nodes, s \in ServerTasks :
           server_task[p][s] \in ServerTask /\ Runs(p, server_task[p][s])
  BY DEF ServerInv, ServerShape
<1>2. /\ server_task[n][t].stage = "await"
      /\ backlog' = [p \in Nodes |-> {hung_up(n, t, c) : c \in backlog[p]}]
      /\ server_task' = [p \in Nodes |-> [s \in ServerTasks |->
           IF <<p, s>> = <<n, t>> THEN v
           ELSE [server_task[p][s] EXCEPT !.conn = hung_up(n, t, @)]]]
      /\ height' = height /\ ip_counts' = ip_counts
  BY DEF GivesUp, hang_up, ServerTasks
<1>3. /\ Runs(n, v) /\ v \in ServerTask
      /\ t # Loop => v.stage # "off" /\ v.conn = server_task[n][t].conn
  BY <1>1, ServerNextPeer DEF Runs
<1> HIDE DEF v
<1>4. /\ server_task'[n][t] = v
      /\ \A p \in Nodes, s \in ServerTasks : <<p, s>> # <<n, t>> =>
           /\ Runs(p, server_task'[p][s]) /\ server_task'[p][s] \in ServerTask
           /\ server_task'[p][s].stage = server_task[p][s].stage
           /\ server_task'[p][s].our_height = server_task[p][s].our_height
           /\ server_task'[p][s].conn = hung_up(n, t, server_task[p][s].conn)
  <2>1. server_task'[n][t] = v
    BY <1>2
  <2>2. ASSUME NEW p \in Nodes, NEW s \in ServerTasks, <<p, s>> # <<n, t>>
        PROVE  /\ Runs(p, server_task'[p][s]) /\ server_task'[p][s] \in ServerTask
               /\ server_task'[p][s].stage = server_task[p][s].stage
               /\ server_task'[p][s].our_height = server_task[p][s].our_height
               /\ server_task'[p][s].conn = hung_up(n, t, server_task[p][s].conn)
    <3> DEFINE old == server_task[p][s]
               c == hung_up(n, t, old.conn)
    <3>1. server_task'[p][s] = [old EXCEPT !.conn = c]
      BY <1>2, <2>2
    <3>2. c \in Conn
      BY <1>1, ConnectionsShape, HungUp
    <3>3. old \in ServerTask /\ Runs(p, old)
      BY <1>1
    <3> HIDE DEF old, c
    <3>4. /\ [old EXCEPT !.conn = c] \in ServerTask /\ [old EXCEPT !.conn = c].stage = old.stage
          /\ [old EXCEPT !.conn = c].our_height = old.our_height
          /\ [old EXCEPT !.conn = c].conn = c /\ [old EXCEPT !.conn = c].peer = old.peer
          /\ [old EXCEPT !.conn = c].last = old.last
      BY <3>2, <3>3 DEF ServerTask
    <3>5. Runs(p, [old EXCEPT !.conn = c])
      BY <3>3, <3>4 DEF Runs
    <3> QED
      BY <3>1, <3>4, <3>5 DEF old, c
  <2> QED
    BY <2>1, <2>2
<1>5. /\ server_task' \in [Nodes -> [ServerTasks -> ServerTask]]
      /\ \A p \in Nodes, s \in ServerTasks : Runs(p, server_task'[p][s])
  <2>1. \A p \in Nodes, s \in ServerTasks :
          server_task'[p][s] \in ServerTask /\ Runs(p, server_task'[p][s])
    BY <1>3, <1>4
  <2>2. /\ DOMAIN server_task' = Nodes
        /\ server_task' = [p \in Nodes |-> server_task'[p]]
        /\ \A p \in Nodes : server_task'[p] = [s \in ServerTasks |-> server_task'[p][s]]
    BY <1>2
  <2>3. \A p \in Nodes : server_task'[p] \in [ServerTasks -> ServerTask]
    BY <2>1, <2>2
  <2> QED
    BY <2>1, <2>2, <2>3
<1>6. /\ backlog' \in [Nodes -> SUBSET Conn] /\ \A p \in Nodes : \A c \in backlog'[p] : c.from \in Nodes
      /\ \A p \in Nodes : \A c \in backlog'[p] : c.open => c \in backlog[p] /\ c.caller # <<n, t>>
  <2>1. ASSUME NEW p \in Nodes, NEW c \in backlog'[p]
        PROVE  c \in Conn /\ c.from \in Nodes /\ (c.open => c \in backlog[p] /\ c.caller # <<n, t>>)
    <3>1. PICK b \in backlog[p] : c = hung_up(n, t, b)
      BY <1>2
    <3>2. b \in Conn /\ b.from \in Nodes
      BY <1>1
    <3>3. /\ hung_up(n, t, b) \in Conn /\ hung_up(n, t, b).from = b.from
          /\ hung_up(n, t, b).open => b.caller # <<n, t>> /\ hung_up(n, t, b) = b
      BY <3>2, HungUp
    <3> QED
      BY <3>1, <3>2, <3>3
  <2>2. backlog' = [p \in Nodes |-> backlog'[p]]
    BY <1>2
  <2> QED
    BY <2>1, <2>2
<1>7. \A p \in Nodes, s \in ServerTasks, c \in Conn : OpenAt(p, s, c)' =>
        /\ OpenAt(p, s, c)
        /\ server_task'[c.caller[1]][c.caller[2]].stage = "await"
        /\ server_task'[c.caller[1]][c.caller[2]].our_height = c.height
        /\ s # Loop => server_task'[p][s].stage = "read"
  <2> TAKE p \in Nodes, s \in ServerTasks, c \in Conn
  <2> HAVE OpenAt(p, s, c)'
  <2>1. c.open /\ IF s = Loop THEN c \in backlog'[p] ELSE c = server_task'[p][s].conn
    BY ConstantSets DEF OpenAt
  <2>2. OpenAt(p, s, c) /\ c.caller # <<n, t>> /\ (s # Loop => <<p, s>> # <<n, t>>)
    <3>1. CASE s = Loop
      BY <1>6, <2>1, <3>1 DEF OpenAt
    <3>2. CASE s # Loop /\ <<p, s>> # <<n, t>>
      <4>1. PICK b \in Conn : b = server_task[p][s].conn /\ c = hung_up(n, t, b)
        BY <1>1, <1>4, <2>1, <3>2, ConnectionsShape
      <4>3. hung_up(n, t, b).open => b.caller # <<n, t>> /\ hung_up(n, t, b) = b
        BY HungUp
      <4>2. c = server_task[p][s].conn /\ c.caller # <<n, t>>
        BY <2>1, <4>1, <4>3
      <4> QED
        BY <2>1, <3>2, <4>2 DEF OpenAt
    <3>3. CASE s # Loop /\ <<p, s>> = <<n, t>>
      <4>1. t \in Slots /\ t # Loop /\ p = n /\ s = t
        BY <3>3, ServerConstants
      <4>2. ~ server_task[n][t].conn.open
        BY <1>1, <1>2, <4>1, NotOpen
      <4> QED
        BY <1>3, <1>4, <2>1, <3>3, <4>1, <4>2
    <3> QED
      BY <3>1, <3>2, <3>3
  <2>3. /\ c.caller \in Nodes \X ServerTasks
        /\ server_task[c.caller[1]][c.caller[2]].stage = "await"
        /\ server_task[c.caller[1]][c.caller[2]].our_height = c.height
        /\ s # Loop => server_task[p][s].stage = "read"
    BY <1>1, <2>2 DEF Waited
  <2>4. /\ c.caller[1] \in Nodes /\ c.caller[2] \in ServerTasks
        /\ <<c.caller[1], c.caller[2]>> # <<n, t>>
    BY <2>2, <2>3
  <2> QED
    BY <1>4, <2>2, <2>3, <2>4
<1>8. Waited' /\ OnePlace'
  BY <1>1, <1>7, OpenFewer
<1>9. SlotsCounted'
  <2>1. Slots \subseteq ServerTasks /\ Loop \notin Slots
    BY ServerConstants
  <2>2. \A p \in Nodes, s \in Slots :
          (server_task'[p][s].stage = "off") <=> (server_task[p][s].stage = "off")
    <3> TAKE p \in Nodes, s \in Slots
    <3>1. CASE <<p, s>> = <<n, t>>
      BY <1>2, <1>3, <1>4, <2>1, <3>1
    <3>2. CASE <<p, s>> # <<n, t>>
      BY <1>4, <2>1, <3>2
    <3> QED
      BY <3>1, <3>2
  <2> QED
    BY <1>1, <1>2, <2>2, SlotsSame
<1>10. height' \in [Nodes -> 0 .. MaxHeight] /\ ip_counts' \in [Nodes -> [Nodes -> Nat]]
  BY <1>1, <1>2
<1> QED
  BY <1>5, <1>6, <1>8, <1>9, <1>10, NextShape DEF ServerInv

\* Task w of m, which waits on a connection that task s of n has (the backlog, for the
\* loop), moves on, and the connection is there no more.
CallerMoves(n, s, conn, m, w) ==
  /\ OpenAt(n, s, conn) /\ conn.caller = <<m, w>>
  /\ IF s = Loop THEN conn \notin backlog'[n] ELSE ~ server_task'[n][s].conn.open
  /\ \A p \in Nodes : backlog'[p] \subseteq backlog[p]
  /\ w # Loop => server_task'[m][w].conn = server_task[m][w].conn
  /\ \A p \in Nodes, u \in ServerTasks :
       <<p, u>> # <<m, w>> /\ (s # Loop => <<p, u>> # <<n, s>>) =>
         server_task'[p][u] = server_task[p][u]

\* Then whose connection is still open still waits.
LEMMA CallerMovesOn ==
  ASSUME ServerShape, Waited, OnePlace,
         NEW n \in Nodes, NEW s \in ServerTasks, NEW conn \in Conn,
         NEW m \in Nodes, NEW w \in ServerTasks, CallerMoves(n, s, conn, m, w)
  PROVE  Waited' /\ OnePlace'
<1>0. /\ OpenAt(n, s, conn) /\ conn.caller = <<m, w>>
      /\ IF s = Loop THEN conn \notin backlog'[n] ELSE ~ server_task'[n][s].conn.open
      /\ \A p \in Nodes : backlog'[p] \subseteq backlog[p]
      /\ w # Loop => server_task'[m][w].conn = server_task[m][w].conn
      /\ \A p \in Nodes, u \in ServerTasks :
           <<p, u>> # <<m, w>> /\ (s # Loop => <<p, u>> # <<n, s>>) =>
             server_task'[p][u] = server_task[p][u]
  BY DEF CallerMoves
<1>1. /\ server_task[m][w].stage = "await"
      /\ s # Loop => server_task[n][s].stage = "read"
  <2>1. conn.caller[1] = m /\ conn.caller[2] = w
    BY <1>0
  <2> QED
    BY <1>0, <2>1 DEF Waited
<1>3. w # Loop => ~ server_task[m][w].conn.open
  <2>1. w # Loop => w \in Slots
    BY ServerConstants
  <2>2. server_task[m][w].stage # "read"
    BY <1>1
  <2> QED
    BY <2>1, <2>2, NotOpen
<1>4. \A p \in Nodes, u \in ServerTasks, c \in Conn : OpenAt(p, u, c)' =>
        /\ OpenAt(p, u, c)
        /\ server_task'[c.caller[1]][c.caller[2]].stage = "await"
        /\ server_task'[c.caller[1]][c.caller[2]].our_height = c.height
        /\ u # Loop => server_task'[p][u].stage = "read"
  <2> TAKE p \in Nodes, u \in ServerTasks, c \in Conn
  <2> HAVE OpenAt(p, u, c)'
  <2>1. c.open /\ IF u = Loop THEN c \in backlog'[p] ELSE c = server_task'[p][u].conn
    BY ConstantSets DEF OpenAt
  <2>2. u # Loop => <<p, u>> # <<m, w>> /\ <<p, u>> # <<n, s>>
    <3>1. u # Loop /\ <<p, u>> = <<n, s>> => FALSE
      BY <1>0, <2>1
    <3>2. u # Loop /\ <<p, u>> = <<m, w>> => FALSE
      BY <1>0, <1>3, <2>1
    <3> QED
      BY <3>1, <3>2
  <2>3. u # Loop => server_task'[p][u] = server_task[p][u]
    BY <1>0, <2>2
  <2>4. OpenAt(p, u, c)
    <3>1. CASE u = Loop
      <4>1. c \in backlog[p]
        BY <1>0, <2>1, <3>1
      <4> QED
        BY <2>1, <3>1, <4>1 DEF OpenAt
    <3>2. CASE u # Loop
      BY <2>1, <2>3, <3>2 DEF OpenAt
    <3> QED
      BY <3>1, <3>2
  <2>5. c.caller # <<m, w>>
    <3>1. c.caller = <<m, w>> => p = n /\ u = s /\ c = conn
      BY <1>0, <2>4 DEF OnePlace
    <3>2. p = n /\ u = s /\ c = conn => FALSE
      BY <1>0, <2>1
    <3> QED
      BY <3>1, <3>2
  <2>6. /\ c.caller \in Nodes \X ServerTasks
        /\ server_task[c.caller[1]][c.caller[2]].stage = "await"
        /\ server_task[c.caller[1]][c.caller[2]].our_height = c.height
        /\ u # Loop => server_task[p][u].stage = "read"
    BY <1>0, <2>4 DEF Waited
  <2>7. /\ c.caller[1] \in Nodes /\ c.caller[2] \in ServerTasks
        /\ <<c.caller[1], c.caller[2]>> = c.caller
    BY <2>6
  <2>8. s # Loop => c.caller # <<n, s>>
    <3>1. c.caller = <<n, s>> => server_task[c.caller[1]][c.caller[2]] = server_task[n][s]
      BY <1>0
    <3> QED
      BY <1>1, <2>6, <3>1
  <2>9. server_task'[c.caller[1]][c.caller[2]] = server_task[c.caller[1]][c.caller[2]]
    BY <1>0, <2>5, <2>7, <2>8
  <2> QED
    BY <2>3, <2>4, <2>6, <2>9
<1> QED
  BY <1>4, OpenFewer

\* A handler's request is answered, if its caller still waits; the slot is given back.
LEMMA ServeStep ==
  ASSUME ServerInv, NEW n \in Nodes, NEW s \in Slots,
         Serve(n, s)
  PROVE  ServerInv'
<1>0. PICK conn \in Conn : conn = server_task[n][s].conn
  <2>1. s \in ServerTasks
    BY ServerConstants
  <2> QED
    BY <2>1, ConnectionsShape DEF ServerInv
<1> DEFINE m == conn.caller[1]
           u == conn.caller[2]
           freed == [server_task EXCEPT ![n][s] = off]
           v == answered(n, conn)
<1>1. /\ ServerShape /\ Waited /\ OnePlace /\ SlotsCounted
      /\ height \in [Nodes -> 0 .. MaxHeight]
      /\ server_task \in [Nodes -> [ServerTasks -> ServerTask]]
      /\ backlog \in [Nodes -> SUBSET Conn] /\ \A p \in Nodes : \A c \in backlog[p] : c.from \in Nodes
      /\ \A p \in Nodes, t \in ServerTasks : Runs(p, server_task[p][t])
  BY DEF ServerInv, ServerShape
<1>2. /\ server_task[n][s].stage = "read" /\ height' = height /\ backlog' = backlog
      /\ server_task' = IF conn.open THEN [freed EXCEPT ![m][u] = v] ELSE freed
      /\ ip_counts' = guard_dropped(n, s[1])
  BY <1>0 DEF Serve
<1>3. s \in ServerTasks /\ s # Loop /\ Slots \subseteq ServerTasks /\ MaxHeight \in Nat
      /\ MAX_BLOCKS_PER_RESPONSE \in Nat /\ MAX_BLOCKS_PER_RESPONSE > 0
      /\ \A p \in Nodes : Len(PeerList[p]) \in Nat
  BY ServerConstants
<1>4. height' \in [Nodes -> 0 .. MaxHeight]
  BY <1>1, <1>2
<1>5. CASE ~ conn.open
  <2>1. set_server_task(n, s, off)
    BY <1>2, <1>5 DEF set_server_task
  <2>2. server_task[n][s].stage \in {"read", "offer"}
    BY <1>2
  <2> QED
    BY <1>2, <1>4, <2>1, <2>2, HandlerEnds
<1>6. CASE conn.open
  <2>1. OpenAt(n, s, conn)
    BY <1>0, <1>3, <1>6 DEF OpenAt
  <2>2. /\ conn.caller \in Nodes \X ServerTasks /\ server_task[m][u].stage = "await"
        /\ server_task[m][u].our_height = conn.height
    BY <1>1, <1>3, <2>1 DEF Waited
  <2>3. m \in Nodes /\ u \in ServerTasks /\ conn.caller = <<m, u>> /\ <<m, u>> # <<n, s>>
    <3>1. m \in Nodes /\ u \in ServerTasks /\ conn.caller = <<m, u>>
      BY <2>2
    <3>2. server_task[m][u] # server_task[n][s]
      BY <1>2, <2>2
    <3> QED
      BY <3>1, <3>2
  <2>4. /\ off \in ServerTask /\ off.stage = "off" /\ off.peer = 0
        /\ ~ off.conn.open
    BY OffTask
  <2>5. /\ Runs(m, v) /\ v \in ServerTask
        /\ u # Loop => v.stage # "off" /\ v.conn = server_task[m][u].conn
    <3>1. CASE height[n] <= conn.height
      <4>1. v = next_peer(m, u)
        BY <3>1 DEF answered
      <4> HIDE DEF m, u, v
      <4>2. /\ Runs(m, next_peer(m, u))
            /\ u # Loop => /\ next_peer(m, u).stage # "off"
                           /\ next_peer(m, u).conn = server_task[m][u].conn
        BY <1>1, <2>3, ServerNextPeer
      <4> QED
        BY <4>1, <4>2 DEF Runs
    <3>2. CASE ~ (height[n] <= conn.height)
      <4> DEFINE old == server_task[m][u]
                 last == Min({height[n], conn.height + MAX_BLOCKS_PER_RESPONSE})
      <4>1. v = [old EXCEPT !.stage = "apply", !.last = last]
        BY <3>2 DEF answered
      <4>2. conn.height \in 0 .. MaxHeight /\ height[n] \in 0 .. MaxHeight
        BY <1>1, <1>3 DEF Conn
      <4>3. last \in {height[n], conn.height + MAX_BLOCKS_PER_RESPONSE} /\ last <= height[n]
        <5>1. {height[n], conn.height + MAX_BLOCKS_PER_RESPONSE} \in SUBSET Nat
          <6>1. height[n] \in Nat /\ conn.height + MAX_BLOCKS_PER_RESPONSE \in Nat
            BY <1>3, <4>2
          <6> QED
            BY <6>1
        <5> QED
          BY <5>1, LeastElement
      <4> HIDE DEF last, v
      <4>4. last \in 0 .. MaxHeight /\ conn.height < last
        BY <1>3, <3>2, <4>2, <4>3
      <4>5. old \in ServerTask /\ Runs(m, old) /\ old.stage = "await" /\ old.our_height = conn.height
        BY <1>1, <2>2, <2>3
      <4> HIDE DEF old
      <4>6. /\ v \in ServerTask /\ v.stage = "apply" /\ v.last = last /\ v.conn = old.conn
            /\ v.peer = old.peer /\ v.our_height = old.our_height
        BY <4>1, <4>4, <4>5 DEF ServerTask
      <4>7. Runs(m, v)
        BY <4>4, <4>5, <4>6 DEF Runs
      <4> QED
        BY <4>6, <4>7 DEF old
    <3> QED
      BY <3>1, <3>2
  <2> HIDE DEF v
  <2>6. /\ server_task' \in [Nodes -> [ServerTasks -> ServerTask]]
        /\ server_task'[n][s] = off /\ server_task'[m][u] = v
        /\ \A p \in Nodes, t \in ServerTasks : <<p, t>> # <<m, u>> /\ <<p, t>> # <<n, s>> =>
             server_task'[p][t] = server_task[p][t]
    <3>1. /\ freed \in [Nodes -> [ServerTasks -> ServerTask]] /\ freed[n][s] = off
          /\ \A p \in Nodes, t \in ServerTasks : <<p, t>> # <<n, s>> =>
               freed[p][t] = server_task[p][t]
      BY <1>1, <1>3, <2>4
    <3>2. server_task' = [freed EXCEPT ![m][u] = v]
      BY <1>2, <1>6
    <3> HIDE DEF freed, m, u
    <3>3. /\ server_task' \in [Nodes -> [ServerTasks -> ServerTask]] /\ server_task'[m][u] = v
          /\ \A p \in Nodes, t \in ServerTasks : <<p, t>> # <<m, u>> =>
               server_task'[p][t] = freed[p][t]
      BY <2>3, <2>5, <3>1, <3>2
    <3> QED
      BY <1>3, <2>3, <3>1, <3>3
  <2>7. \A p \in Nodes, t \in ServerTasks : Runs(p, server_task'[p][t])
    <3>1. Runs(n, off)
      BY <1>3, <2>4 DEF Runs
    <3> TAKE p \in Nodes, t \in ServerTasks
    <3>2. CASE <<p, t>> = <<m, u>>
      BY <2>5, <2>6, <3>2
    <3>3. CASE <<p, t>> = <<n, s>>
      BY <2>6, <3>1, <3>3
    <3>4. CASE <<p, t>> # <<m, u>> /\ <<p, t>> # <<n, s>>
      BY <1>1, <2>6, <3>4
    <3> QED
      BY <3>2, <3>3, <3>4
  <2>8. Waited' /\ OnePlace'
    <3>1. ~ server_task'[n][s].conn.open
      BY <2>4, <2>6
    <3>3. \A p \in Nodes : backlog'[p] \subseteq backlog[p]
      BY <1>2
    <3>4. u # Loop => server_task'[m][u].conn = server_task[m][u].conn
      BY <2>5, <2>6
    <3>5. \A p \in Nodes, t \in ServerTasks :
            <<p, t>> # <<m, u>> /\ (s # Loop => <<p, t>> # <<n, s>>) =>
              server_task'[p][t] = server_task[p][t]
      BY <1>3, <2>3, <2>6
    <3>6. ServerShape /\ Waited /\ OnePlace /\ s \in ServerTasks
      BY <1>1, <1>3
    <3>7. m \in Nodes /\ u \in ServerTasks /\ conn.caller = <<m, u>>
      BY <2>3
    <3>8. CallerMoves(n, s, conn, m, u)
      BY <1>3, <2>1, <2>3, <3>1, <3>3, <3>4, <3>5 DEF CallerMoves
    <3> HIDE DEF m, u
    <3> QED
      BY <3>6, <3>7, <3>8, CallerMovesOn
  <2>9. ip_counts' \in [Nodes -> [Nodes -> Nat]] /\ SlotsCounted'
    <3>1. server_task[n][s].stage # "off" /\ server_task'[n][s].stage = "off"
      BY <1>2, <2>4, <2>6
    <3>2. \A p \in Nodes, t \in Slots : <<p, t>> # <<n, s>> =>
            ((server_task'[p][t].stage = "off") <=> (server_task[p][t].stage = "off"))
      <4> TAKE p \in Nodes, t \in Slots
      <4> HAVE <<p, t>> # <<n, s>>
      <4>1. t \in ServerTasks /\ t # Loop
        BY ServerConstants
      <4>2. CASE <<p, t>> = <<m, u>>
        <5>1. p = m /\ t = u
          BY <4>2
        <5>2. server_task'[p][t] = v /\ v.stage # "off" /\ server_task[p][t].stage = "await"
          BY <2>2, <2>5, <2>6, <4>1, <5>1
        <5> QED
          BY <5>2
      <4>3. CASE <<p, t>> # <<m, u>>
        BY <2>6, <4>1, <4>3
      <4> QED
        BY <4>2, <4>3
    <3>3. ip_counts' = guard_dropped(n, s[1])
      BY <1>2
    <3> QED
      BY <1>1, <3>1, <3>2, <3>3, SlotFreed
  <2>10. backlog' \in [Nodes -> SUBSET Conn] /\ \A p \in Nodes : \A c \in backlog'[p] : c.from \in Nodes
    BY <1>1, <1>2
  <2> QED
    BY <1>4, <2>6, <2>7, <2>8, <2>9, <2>10, NextShape DEF ServerInv
<1> QED
  BY <1>5, <1>6

\* A handler starts with its connection.
LEMMA HandlerStarts ==
  ASSUME NEW conn, NEW v, v = [off EXCEPT !.stage = "read", !.conn = conn]
  PROVE  v = [stage |-> "read", conn |-> conn, peer |-> 0, our_height |-> 0, last |-> 0]
BY DEF off

\* The accept loop takes a connection in, or closes it.
LEMMA AcceptStep ==
  ASSUME ServerInv, NEW n \in Nodes, NEW conn \in backlog[n],
         Accept(n, conn)
  PROVE  ServerInv'
<1> DEFINE guard == try_ip_guard(n, conn.from)
           place == Min(Places \ handlers(n, conn.from))
           s == <<conn.from, place>>
           v == [off EXCEPT !.stage = "read", !.conn = conn]
           m == conn.caller[1]
           u == conn.caller[2]
<1>1. /\ ServerShape /\ Waited /\ OnePlace /\ SlotsCounted
      /\ height \in [Nodes -> 0 .. MaxHeight] /\ ip_counts \in [Nodes -> [Nodes -> Nat]]
      /\ server_task \in [Nodes -> [ServerTasks -> ServerTask]]
      /\ backlog \in [Nodes -> SUBSET Conn] /\ \A p \in Nodes : \A c \in backlog[p] : c.from \in Nodes
      /\ \A p \in Nodes, t \in ServerTasks : Runs(p, server_task[p][t])
  BY DEF ServerInv, ServerShape
<1>2. /\ backlog' = [backlog EXCEPT ![n] = @ \ {conn}] /\ ip_counts' = guard.counts
      /\ height' = height
      /\ guard.granted => set_server_task(n, s, v)
      /\ ~ guard.granted /\ conn.open => set_server_task(m, u, next_peer(m, u))
      /\ ~ guard.granted /\ ~ conn.open => server_task' = server_task
  BY DEF Accept
<1>3. /\ Loop \in ServerTasks /\ Loop \notin Slots /\ Slots \subseteq ServerTasks
      /\ \A t \in ServerTasks : t # Loop => t \in Slots
      /\ \A p \in Nodes : Len(PeerList[p]) \in Nat
  BY ServerConstants
<1>4. conn \in Conn /\ conn.from \in Nodes
  BY <1>1
<1>5. /\ backlog' \in [Nodes -> SUBSET Conn] /\ \A p \in Nodes : \A c \in backlog'[p] : c.from \in Nodes
      /\ \A p \in Nodes : backlog'[p] \subseteq backlog[p]
      /\ conn \notin backlog'[n]
      /\ height' \in [Nodes -> 0 .. MaxHeight]
  BY <1>1, <1>2
<1>6. conn.open => OpenAt(n, Loop, conn)
  BY DEF OpenAt
<1>7. CASE guard.granted
  <2>1. /\ place \in Places /\ s \in Slots /\ server_task[n][s].stage = "off"
        /\ guard.counts \in [Nodes -> [Nodes -> Nat]]
        /\ ( /\ ip_counts' = guard.counts /\ server_task'[n][s].stage # "off"
             /\ \A p \in Nodes, t \in Slots : <<p, t>> # <<n, s>> =>
                  server_task'[p][t] = server_task[p][t]
           => SlotsCounted' )
    BY <1>1, <1>4, <1>7, SlotTaken
  <2>2. PICK k \in Slots : k = s
    BY <2>1
  <2>3. v = [stage |-> "read", conn |-> conn, peer |-> 0, our_height |-> 0, last |-> 0]
    BY HandlerStarts
  <2>4. v \in ServerTask /\ v.stage = "read" /\ v.conn = conn /\ v.peer = 0
    <3>1. MaxHeight \in Nat
      BY ServerConstants
    <3> HIDE DEF v
    <3> QED
      BY <1>4, <2>3, <3>1 DEF ServerTask
  <2> HIDE DEF v, guard, s
  <2>5. Runs(n, v)
    BY <1>3, <2>4 DEF Runs
  <2>6. /\ server_task' \in [Nodes -> [ServerTasks -> ServerTask]]
        /\ \A p \in Nodes, t \in ServerTasks : Runs(p, server_task'[p][t])
        /\ server_task'[n][k] = v
        /\ \A p \in Nodes, t \in ServerTasks :
             <<p, t>> # <<n, k>> => server_task'[p][t] = server_task[p][t]
    <3>1. set_server_task(n, k, v) /\ k \in ServerTasks
      BY <1>2, <1>3, <1>7, <2>2
    <3> QED
      BY <1>1, <2>5, <3>1, OneTask
  <2>7. \* what is open was open, and of another caller, or is the one that was taken in
        ASSUME NEW p \in Nodes, NEW t \in ServerTasks, NEW c \in Conn, OpenAt(p, t, c)'
        PROVE  \/ p = n /\ t = k /\ c = conn /\ OpenAt(n, Loop, conn)
               \/ OpenAt(p, t, c) /\ <<p, t>> # <<n, k>> /\ ~ (p = n /\ t = Loop /\ c = conn)
    <3>1. c.open /\ IF t = Loop THEN c \in backlog'[p] ELSE c = server_task'[p][t].conn
      BY <2>7, ConstantSets DEF OpenAt
    <3>2. CASE t = Loop
      <4>1. c \in backlog[p] /\ ~ (p = n /\ c = conn) /\ t # k
        BY <1>3, <1>5, <3>1, <3>2
      <4> QED
        BY <3>1, <3>2, <4>1 DEF OpenAt
    <3>3. CASE t # Loop /\ <<p, t>> = <<n, k>>
      BY <1>6, <2>4, <2>6, <3>1, <3>3
    <3>4. CASE t # Loop /\ <<p, t>> # <<n, k>>
      <4>1. server_task'[p][t] = server_task[p][t]
        BY <2>6, <3>4
      <4> QED
        BY <3>1, <3>4, <4>1 DEF OpenAt
    <3> QED
      BY <3>2, <3>3, <3>4
  <2>8. \* every such caller waits, and is not the handler that starts
        ASSUME NEW p \in Nodes, NEW t \in ServerTasks, NEW c \in Conn, OpenAt(p, t, c)
        PROVE  /\ c.msg = "request" /\ c.caller \in Nodes \X ServerTasks
               /\ server_task'[c.caller[1]][c.caller[2]].stage = "await"
               /\ server_task'[c.caller[1]][c.caller[2]].our_height = c.height
               /\ t # Loop => server_task[p][t].stage = "read"
    <3>1. /\ c.msg = "request" /\ c.caller \in Nodes \X ServerTasks
          /\ server_task[c.caller[1]][c.caller[2]].stage = "await"
          /\ server_task[c.caller[1]][c.caller[2]].our_height = c.height
          /\ t # Loop => server_task[p][t].stage = "read"
      BY <1>1, <2>8 DEF Waited
    <3>2. /\ c.caller[1] \in Nodes /\ c.caller[2] \in ServerTasks
          /\ <<c.caller[1], c.caller[2]>> = c.caller
      BY <3>1
    <3>3. <<c.caller[1], c.caller[2]>> # <<n, k>>
      <4>1. server_task[n][k].stage = "off"
        BY <2>1, <2>2
      <4> QED
        BY <3>1, <4>1
    <3>4. server_task'[c.caller[1]][c.caller[2]] = server_task[c.caller[1]][c.caller[2]]
      BY <2>6, <3>2, <3>3
    <3> QED
      BY <3>1, <3>4
  <2>9. Waited'
    <3>1. ASSUME NEW p \in Nodes, NEW t \in ServerTasks, NEW c \in Conn, OpenAt(p, t, c)'
          PROVE  /\ c.msg = "request" /\ c.caller \in Nodes \X ServerTasks
                 /\ server_task'[c.caller[1]][c.caller[2]].stage = "await"
                 /\ server_task'[c.caller[1]][c.caller[2]].our_height = c.height
                 /\ t # Loop => server_task'[p][t].stage = "read"
      <4>1. CASE p = n /\ t = k /\ c = conn /\ OpenAt(n, Loop, conn)
        <5>1. /\ c.msg = "request" /\ c.caller \in Nodes \X ServerTasks
              /\ server_task'[c.caller[1]][c.caller[2]].stage = "await"
              /\ server_task'[c.caller[1]][c.caller[2]].our_height = c.height
          <6>1. OpenAt(n, Loop, c) /\ Loop \in ServerTasks
            BY <1>3, <4>1
          <6> QED
            BY <2>8, <6>1
        <5>2. server_task'[p][t].stage = "read"
          BY <2>4, <2>6, <4>1
        <5> QED
          BY <5>1, <5>2
      <4>2. CASE OpenAt(p, t, c) /\ <<p, t>> # <<n, k>>
        <5>1. server_task'[p][t] = server_task[p][t]
          BY <2>6, <4>2
        <5>2. /\ c.msg = "request" /\ c.caller \in Nodes \X ServerTasks
              /\ server_task'[c.caller[1]][c.caller[2]].stage = "await"
              /\ server_task'[c.caller[1]][c.caller[2]].our_height = c.height
              /\ t # Loop => server_task[p][t].stage = "read"
          BY <2>8, <4>2
        <5> QED
          BY <5>1, <5>2
      <4> QED
        BY <2>7, <3>1, <4>1, <4>2
    <3> QED
      BY <3>1, ConstantSets DEF Waited
  <2>10. OnePlace'
    <3>1. ASSUME NEW p \in Nodes, NEW q \in Nodes, NEW t \in ServerTasks, NEW w \in ServerTasks,
                 NEW c \in Conn, NEW d \in Conn, OpenAt(p, t, c)', OpenAt(q, w, d)',
                 c.caller = d.caller
          PROVE  p = q /\ t = w /\ c = d
      <4>1. \/ p = n /\ t = k /\ c = conn /\ OpenAt(n, Loop, conn)
            \/ OpenAt(p, t, c) /\ ~ (p = n /\ t = Loop /\ c = conn)
        BY <2>7, <3>1
      <4>2. \/ q = n /\ w = k /\ d = conn /\ OpenAt(n, Loop, conn)
            \/ OpenAt(q, w, d) /\ ~ (q = n /\ w = Loop /\ d = conn)
        BY <2>7, <3>1
      <4>3. CASE OpenAt(p, t, c) /\ OpenAt(q, w, d)
        BY <1>1, <3>1, <4>3 DEF OnePlace
      <4>4. \A b \in Conn, r \in Nodes, x \in ServerTasks :
              OpenAt(n, Loop, conn) /\ OpenAt(r, x, b) /\ b.caller = conn.caller =>
                r = n /\ x = Loop /\ b = conn
        BY <1>1, <1>3, <1>4 DEF OnePlace
      <4>5. CASE p = n /\ t = k /\ c = conn /\ OpenAt(n, Loop, conn)
        BY <3>1, <4>2, <4>4, <4>5
      <4>6. CASE q = n /\ w = k /\ d = conn /\ OpenAt(n, Loop, conn)
        BY <3>1, <4>1, <4>4, <4>6
      <4> QED
        BY <4>1, <4>2, <4>3, <4>5, <4>6
    <3> QED
      BY <3>1, ConstantSets DEF OnePlace
  <2>11. ip_counts' \in [Nodes -> [Nodes -> Nat]] /\ SlotsCounted'
    <3>1. server_task'[n][s].stage # "off"
      BY <2>2, <2>4, <2>6
    <3>2. \A p \in Nodes, t \in Slots : <<p, t>> # <<n, s>> =>
            server_task'[p][t] = server_task[p][t]
      BY <1>3, <2>2, <2>6
    <3> QED
      BY <1>2, <2>1, <3>1, <3>2
  <2> QED
    BY <1>5, <2>6, <2>9, <2>10, <2>11, NextShape DEF ServerInv
<1>8. CASE ~ guard.granted
  <2>1. ip_counts' = ip_counts
    <3>1. guard.counts = ip_counts
      BY <1>8 DEF try_ip_guard
    <3> QED
      BY <1>2, <3>1
  <2> HIDE DEF guard
  <2>2. CASE ~ conn.open
    <3>1. server_task' = server_task
      BY <1>2, <1>8, <2>2
    <3>2. /\ server_task' \in [Nodes -> [ServerTasks -> ServerTask]]
          /\ \A p \in Nodes, t \in ServerTasks : Runs(p, server_task'[p][t])
          /\ ip_counts' \in [Nodes -> [Nodes -> Nat]]
      BY <1>1, <2>1, <3>1
    <3>3. \A p \in Nodes, t \in ServerTasks, c \in Conn : OpenAt(p, t, c)' =>
            /\ OpenAt(p, t, c)
            /\ server_task'[c.caller[1]][c.caller[2]].stage = "await"
            /\ server_task'[c.caller[1]][c.caller[2]].our_height = c.height
            /\ t # Loop => server_task'[p][t].stage = "read"
      <4> TAKE p \in Nodes, t \in ServerTasks, c \in Conn
      <4> HAVE OpenAt(p, t, c)'
      <4>1. c.open /\ IF t = Loop THEN c \in backlog'[p] ELSE c = server_task'[p][t].conn
        BY ConstantSets DEF OpenAt
      <4>2. OpenAt(p, t, c)
        BY <1>5, <3>1, <4>1 DEF OpenAt
      <4> QED
        BY <1>1, <3>1, <4>2 DEF Waited
    <3>4. Waited' /\ OnePlace'
      BY <1>1, <3>3, OpenFewer
    <3>5. SlotsCounted'
      BY <1>1, <2>1, <3>1, SlotsSame
    <3> QED
      BY <1>5, <3>2, <3>4, <3>5, NextShape DEF ServerInv
  <2>3. CASE conn.open
    <3>1. OpenAt(n, Loop, conn)
      BY <1>6, <2>3
    <3>2. conn.caller \in Nodes \X ServerTasks /\ server_task[m][u].stage = "await"
      BY <1>1, <1>3, <1>4, <3>1 DEF Waited
    <3>3. m \in Nodes /\ u \in ServerTasks /\ conn.caller = <<m, u>>
      BY <3>2
    <3> DEFINE turn == next_peer(m, u)
    <3>4. /\ Runs(m, turn)
          /\ u # Loop => turn.stage # "off" /\ turn.conn = server_task[m][u].conn
      BY <1>1, <3>3, ServerNextPeer
    <3>5. set_server_task(m, u, turn)
      BY <1>2, <1>8, <2>3
    <3> HIDE DEF turn
    <3>6. /\ server_task' \in [Nodes -> [ServerTasks -> ServerTask]]
          /\ \A p \in Nodes, t \in ServerTasks : Runs(p, server_task'[p][t])
          /\ server_task'[m][u] = turn
          /\ \A p \in Nodes, t \in ServerTasks :
               <<p, t>> # <<m, u>> => server_task'[p][t] = server_task[p][t]
      <4> HIDE DEF m, u
      <4> QED
        BY <1>1, <3>3, <3>4, <3>5, OneTask
    <3>7. Waited' /\ OnePlace'
      <4>2. u # Loop => server_task'[m][u].conn = server_task[m][u].conn
        BY <3>4, <3>6
      <4>3. CallerMoves(n, Loop, conn, m, u)
        BY <1>5, <3>1, <3>3, <3>6, <4>2 DEF CallerMoves
      <4> HIDE DEF m, u
      <4> QED
        BY <1>1, <1>3, <1>4, <3>3, <4>3, CallerMovesOn
    <3>8. SlotsCounted'
      <4>1. \A p \in Nodes, t \in Slots :
              (server_task'[p][t].stage = "off") <=> (server_task[p][t].stage = "off")
        <5> TAKE p \in Nodes, t \in Slots
        <5>1. t \in ServerTasks /\ t # Loop
          BY <1>3
        <5>2. CASE <<p, t>> = <<m, u>>
          <6>1. p = m /\ t = u
            BY <5>2
          <6> QED
            BY <3>2, <3>4, <3>6, <5>1, <6>1
        <5>3. CASE <<p, t>> # <<m, u>>
          BY <3>6, <5>1, <5>3
        <5> QED
          BY <5>2, <5>3
      <4> QED
        BY <1>1, <2>1, <4>1, SlotsSame
    <3>9. ip_counts' \in [Nodes -> [Nodes -> Nat]]
      BY <1>1, <2>1
    <3> QED
      BY <1>5, <3>6, <3>7, <3>8, <3>9, NextShape DEF ServerInv
  <2> QED
    BY <2>2, <2>3
<1> QED
  BY <1>7, <1>8

(***************************************************************************)
(* The theorems.                                                           *)
(***************************************************************************)

\* At the start nothing runs and nothing is sent.
LEMMA ServerInit == ListenerInit => ServerInv
<1> SUFFICES ASSUME ListenerInit
             PROVE  ServerInv
  OBVIOUS
<1>1. /\ height = StartHeight /\ ip_counts = [n \in Nodes |-> [p \in Nodes |-> 0]]
      /\ backlog = [n \in Nodes |-> {}]
      /\ server_task = [n \in Nodes |-> [t \in ServerTasks |-> off]]
  BY DEF ListenerInit, ServerTasks
<1>2. /\ StartHeight \in [Nodes -> 0 .. MaxHeight] /\ MAX_P2P_CONNS_PER_IP \in Nat
      /\ \A n \in Nodes : Len(PeerList[n]) \in Nat
      /\ \A p \in Nodes, k \in Places : <<p, k>> \in ServerTasks
  BY ServerConstants
<1>3. /\ off \in ServerTask /\ off.stage = "off" /\ off.peer = 0
      /\ ~ off.conn.open
  BY OffTask
<1>4. \A n \in Nodes, t \in ServerTasks : server_task[n][t] = off
  BY <1>1
<1>5. ServerShape
  <2>1. \A n \in Nodes : Runs(n, off)
    BY <1>2, <1>3 DEF Runs
  <2> QED
    BY <1>1, <1>2, <1>3, <1>4, <2>1 DEF ServerShape
<1>6. ASSUME NEW p \in Nodes, NEW s \in ServerTasks, NEW c \in Conn, OpenAt(p, s, c)
      PROVE  FALSE
  BY <1>1, <1>3, <1>4, <1>6 DEF OpenAt
<1>7. Waited /\ OnePlace
  BY <1>6 DEF Waited, OnePlace
<1>8. SlotsCounted
  <2>1. ASSUME NEW n \in Nodes, NEW p \in Nodes
        PROVE  /\ ip_counts[n][p] = Cardinality(handlers(n, p))
               /\ ip_counts[n][p] <= MAX_P2P_CONNS_PER_IP
    <3>1. handlers(n, p) = {}
      BY <1>2, <1>3, <1>4 DEF handlers
    <3>2. ip_counts[n][p] = 0
      BY <1>1
    <3> QED
      BY <1>2, <3>1, <3>2, FS_EmptySet
  <2> QED
    BY <2>1 DEF SlotsCounted
<1> QED
  BY <1>5, <1>7, <1>8 DEF ServerInv

\* Every step keeps the invariant.
LEMMA ServerStep ==
  ServerInv /\ [ListenerNext]_listener_vars => ServerInv'
<1> SUFFICES ASSUME ServerInv, [ListenerNext]_listener_vars
             PROVE  ServerInv'
  OBVIOUS
<1>1. ASSUME NEW n \in Nodes, Mine(n)
      PROVE  ServerInv'
  BY <1>1, MineStep
<1>2. ASSUME NEW n \in Nodes, StartLoop(n)
      PROVE  ServerInv'
  BY <1>2, StartLoopStep
<1>3. ASSUME NEW n \in Nodes, NEW conn \in backlog[n], Accept(n, conn)
      PROVE  ServerInv'
  BY <1>3, AcceptStep
<1>4. ASSUME NEW n \in Nodes, NEW t \in ServerTasks, CallPeers(n, t)
      PROVE  ServerInv'
  <2>1. CASE Ask(n, t)
    BY <2>1, AskStep
  <2>2. CASE AskFails(n, t)
    BY <2>2, AskFailsStep
  <2>3. CASE GivesUp(n, t)
    BY <2>3, GivesUpStep
  <2>4. CASE AdvanceNext(n, t)
    BY <2>4, AdvanceNextStep
  <2> QED
    BY <1>4, <2>1, <2>2, <2>3, <2>4 DEF CallPeers
<1>5. ASSUME NEW n \in Nodes, NEW s \in Slots, Handle(n, s)
      PROVE  ServerInv'
  <2>1. CASE Serve(n, s)
    BY <2>1, ServeStep
  <2>2. CASE ReadBlock(n, s)
    BY <2>2, ReadBlockStep
  <2>3. CASE HandBlockOver(n, s)
    BY <2>3, HandBlockOverStep
  <2>4. CASE ReadFails(n, s)
    BY <2>4, ReadFailsStep
  <2> QED
    BY <1>5, <2>1, <2>2, <2>3, <2>4 DEF Handle
<1>6. CASE UNCHANGED listener_vars
  <2>1. height' = height /\ ip_counts' = ip_counts /\ backlog' = backlog /\ server_task' = server_task
    BY <1>6 DEF listener_vars
  <2>2. ServerShape'
    BY <2>1, NextShape DEF ServerInv, ServerShape
  <2>3. \A p \in Nodes, s \in ServerTasks, c \in Conn : OpenAt(p, s, c)' =>
          /\ OpenAt(p, s, c)
          /\ server_task'[c.caller[1]][c.caller[2]].stage = "await"
          /\ server_task'[c.caller[1]][c.caller[2]].our_height = c.height
          /\ s # Loop => server_task'[p][s].stage = "read"
    <3> TAKE p \in Nodes, s \in ServerTasks, c \in Conn
    <3> HAVE OpenAt(p, s, c)'
    <3>1. OpenAt(p, s, c)
      BY <2>1, ConstantSets DEF OpenAt
    <3> QED
      BY <2>1, <3>1 DEF ServerInv, Waited
  <2>4. Waited' /\ OnePlace'
    BY <2>3, OpenFewer DEF ServerInv
  <2>5. SlotsCounted'
    BY <2>1, SlotsSame DEF ServerInv
  <2> QED
    BY <2>2, <2>4, <2>5 DEF ServerInv
<1> QED
  BY <1>1, <1>2, <1>3, <1>4, <1>5, <1>6 DEF ListenerNext, ServerTasks, Slots

\* The invariant holds in every reachable state.
LEMMA ServerAlways == ListenerSpec => []ServerInv
<1>1. ListenerInit => ServerInv
  BY ServerInit
<1>2. ServerInv /\ [ListenerNext]_listener_vars => ServerInv'
  BY ServerStep
<1> QED
  BY <1>1, <1>2, PTL DEF ListenerSpec

\* "Releases an IP's connection slot when dropped" (network.rs): what is counted for
\* an address is what is open from it, never more than the limit, on whichever path
\* each handler ends, for any number of nodes, peers and slots.
THEOREM ListenerSlotsCounted == ListenerSpec => []SlotsCounted
<1>1. ListenerSpec => []ServerInv
  BY ServerAlways
<1>2. ServerInv => SlotsCounted
  BY DEF ServerInv
<1> QED
  BY <1>1, <1>2, PTL

\* A task has one open connection at most, and only while it waits.
LEMMA OneOpen ==
  ASSUME ServerInv, NEW n \in Nodes, NEW t \in ServerTasks
  PROVE  Cardinality({c \in connections(n, t) : c.open}) <=
           IF server_task[n][t].stage = "await" THEN 1 ELSE 0
<1> DEFINE Open == {c \in connections(n, t) : c.open}
<1>1. ServerShape /\ Waited /\ OnePlace
  BY DEF ServerInv
<1>2. ASSUME NEW c \in Open
      PROVE  /\ c \in Conn /\ c.caller = <<n, t>>
             /\ \E p \in Nodes, s \in ServerTasks : OpenAt(p, s, c)
  <2> DEFINE Sent == UNION {backlog[p] : p \in Nodes}
             Taken == {server_task[p][s].conn : p \in Nodes, s \in Slots}
  <2>1. /\ c \in Sent \cup Taken
        /\ c.caller = <<n, t>> /\ c.open
    <3>1. c \in connections(n, t) /\ c.open
      OBVIOUS
    <3>2. connections(n, t) = {x \in Sent \cup Taken : x.caller = <<n, t>>}
      BY DEF connections, Slots
    <3> HIDE DEF Sent, Taken, Open
    <3> QED
      BY <3>1, <3>2
  <2>2. CASE c \in Sent
    <3>1. PICK p \in Nodes : c \in backlog[p]
      BY <2>2
    <3>2. Loop \in ServerTasks /\ c \in Conn
      BY <1>1, <3>1, ServerConstants, ConnectionsShape
    <3>3. OpenAt(p, Loop, c)
      BY <2>1, <3>1 DEF OpenAt
    <3> QED
      BY <2>1, <3>2, <3>3
  <2>3. CASE c \in Taken
    <3>1. PICK p \in Nodes, s \in Slots : c = server_task[p][s].conn
      BY <2>3
    <3>2. s \in ServerTasks /\ s # Loop
      BY ServerConstants
    <3>3. c \in Conn
      BY <1>1, <3>1, <3>2, ConnectionsShape
    <3>4. OpenAt(p, s, c)
      BY <2>1, <3>1, <3>2 DEF OpenAt
    <3> QED
      BY <2>1, <3>2, <3>3, <3>4
  <2> HIDE DEF Sent, Taken
  <2> QED
    BY <2>1, <2>2, <2>3
<1>3. ASSUME NEW c \in Open, NEW d \in Open
      PROVE  c = d
  <2> HIDE DEF Open
  <2>1. PICK p \in Nodes, s \in ServerTasks : OpenAt(p, s, c)
    BY <1>2
  <2>2. PICK q \in Nodes, u \in ServerTasks : OpenAt(q, u, d)
    BY <1>2
  <2>3. c \in Conn /\ d \in Conn /\ c.caller = d.caller
    BY <1>2
  <2> QED
    BY <1>1, <2>1, <2>2, <2>3 DEF OnePlace
<1>4. Open # {} => server_task[n][t].stage = "await"
  <2> SUFFICES ASSUME NEW c \in Open
               PROVE  server_task[n][t].stage = "await"
    OBVIOUS
  <2>1. PICK p \in Nodes, s \in ServerTasks : OpenAt(p, s, c)
    BY <1>2
  <2>2. c \in Conn /\ c.caller[1] = n /\ c.caller[2] = t
    BY <1>2
  <2> HIDE DEF Open
  <2> QED
    BY <1>1, <2>1, <2>2 DEF Waited
<1> HIDE DEF Open
<1>5. CASE Open = {}
  <2>1. Cardinality(Open) = 0
    BY <1>5, FS_EmptySet
  <2> QED
    BY <2>1 DEF Open
<1>6. CASE Open # {}
  <2>1. PICK c \in Open : TRUE
    BY <1>6
  <2>2. Open = {c}
    BY <1>3, <2>1
  <2>3. Cardinality(Open) = 1
    BY <2>2, FS_Singleton
  <2> QED
    BY <1>4, <1>6, <2>3 DEF Open
<1> QED
  BY <1>5, <1>6

\* Heights, connections and tasks have their shapes, and a task that waits for an
\* answer waits on one connection at most, however requests are given up, refused or
\* left unanswered.
THEOREM ListenerTypeCorrect == ListenerSpec => []ListenerTypeOK
<1>1. ListenerSpec => []ServerInv
  BY ServerAlways
<1>2. ServerInv => ListenerTypeOK
  <2> SUFFICES ASSUME ServerInv
               PROVE  ListenerTypeOK
    OBVIOUS
  <2>1. height \in [Nodes -> 0 .. MaxHeight] /\ ip_counts \in [Nodes -> [Nodes -> Nat]]
    BY DEF ServerInv, ServerShape
  <2>2. ASSUME NEW n \in Nodes, NEW t \in ServerTasks
        PROVE  /\ server_task[n][t].stage \in {"off", "read", "offer", "ask", "await", "apply"}
               /\ server_task[n][t].peer \in 0 .. Len(PeerList[n])
               /\ server_task[n][t].stage = "apply" =>
                    server_task[n][t].our_height < server_task[n][t].last
               /\ Cardinality({c \in connections(n, t) : c.open}) <=
                    IF server_task[n][t].stage = "await" THEN 1 ELSE 0
    <3>1. Runs(n, server_task[n][t])
      BY DEF ServerInv, ServerShape
    <3>2. /\ server_task[n][t].stage \in {"off", "read", "offer", "ask", "await", "apply"}
          /\ server_task[n][t].peer \in Nat /\ server_task[n][t].peer <= Len(PeerList[n])
          /\ server_task[n][t].stage = "apply" =>
               server_task[n][t].our_height < server_task[n][t].last
      BY <3>1 DEF Runs, ServerTask
    <3>3. Len(PeerList[n]) \in Nat
      BY ServerConstants
    <3>4. server_task[n][t].peer \in 0 .. Len(PeerList[n])
      BY <3>2, <3>3
    <3> QED
      BY <3>2, <3>4, OneOpen
  <2> QED
    BY <2>1, <2>2 DEF ListenerTypeOK, ServerTasks
<1> QED
  BY <1>1, <1>2, PTL
=============================================================================
