----------------------------- MODULE MinerProofs ---------------------------
(***************************************************************************)
(* Theorems about Miner and Pow: for every size of a hash and every        *)
(* precision of the fixed-point difficulty, targets are ordered as their   *)
(* difficulties are and agree with leading zero bits at whole bits; and    *)
(* for every number of threads, with every interleaving of them, what the  *)
(* miner submits is what it found, and fails no test it could have known.  *)
(***************************************************************************)
EXTENDS Miner, DifficultyProofs

(***************************************************************************)
(* Powers of two.                                                          *)
(***************************************************************************)

\* The table of the powers up to n satisfies the recursion; the tables agree.
Table(f, n) == f = [i \in 0 .. n |-> IF i = 0 THEN 1 ELSE 2 * f[i - 1]]

\* Every n has a table.
LEMMA TableExists == \A n \in Nat : \E f : Table(f, n)
<1> DEFINE S == {n \in Nat : \E f : Table(f, n)}
<1>1. 0 \in S
  <2>1. Table([i \in 0 .. 0 |-> 1], 0)
    BY DEF Table
  <2> QED
    BY <2>1
<1>2. ASSUME NEW n \in Nat, n \in S
      PROVE  n + 1 \in S
  <2>1. PICK f : Table(f, n)
    BY <1>2
  <2> DEFINE g == [i \in 0 .. n + 1 |-> IF i = n + 1 THEN 2 * f[n] ELSE f[i]]
  <2>2. ASSUME NEW i \in 0 .. n + 1
        PROVE  g[i] = IF i = 0 THEN 1 ELSE 2 * g[i - 1]
    <3>1. CASE i = n + 1
      BY <3>1
    <3>2. CASE i \in 0 .. n
      BY <2>1, <3>2 DEF Table
    <3> QED
      BY <3>1, <3>2
  <2>3. Table(g, n + 1)
    BY <2>2 DEF Table
  <2>4. \E h : Table(h, n + 1)
    BY <2>3
  <2> QED
    BY <2>4
<1> HIDE DEF S
<1>3. \A n \in Nat : n \in S
  BY <1>1, <1>2, NatSetInduction
<1> QED
  BY <1>3 DEF S

\* Two tables agree where both are defined.
LEMMA TablesAgree ==
  ASSUME NEW m \in Nat, NEW n \in Nat, NEW f, NEW g, Table(f, m), Table(g, n)
  PROVE  \A i \in Nat : i <= m /\ i <= n => f[i] = g[i]
<1> DEFINE S == {i \in Nat : i <= m /\ i <= n => f[i] = g[i]}
<1>1. 0 \in S
  BY DEF Table
<1>2. ASSUME NEW i \in Nat, i \in S
      PROVE  i + 1 \in S
  <2>1. i + 1 <= m => f[i + 1] = 2 * f[i]
    BY DEF Table
  <2>2. i + 1 <= n => g[i + 1] = 2 * g[i]
    BY DEF Table
  <2> QED
    BY <1>2, <2>1, <2>2
<1> HIDE DEF S
<1>3. \A i \in Nat : i \in S
  BY <1>1, <1>2, NatSetInduction
<1> QED
  BY <1>3 DEF S

\* pow2 meets its own recursive equation.
LEMMA Pow2Unfold == pow2[0] = 1 /\ \A n \in Nat : pow2[n + 1] = 2 * pow2[n]
<1> DEFINE table(n) == CHOOSE f : Table(f, n)
           g == [n \in Nat |-> table(n)[n]]
<1>1. \A n \in Nat : Table(table(n), n)
  BY TableExists
<1> HIDE DEF table
<1>2. ASSUME NEW n \in Nat
      PROVE  g[n] = IF n = 0 THEN 1 ELSE 2 * g[n - 1]
  <2>1. CASE n = 0
    <3>1. Table(table(0), 0)
      BY <1>1
    <3> QED
      BY <2>1, <3>1 DEF Table
  <2>2. CASE n # 0
    <3>1. n - 1 \in Nat /\ Table(table(n), n) /\ Table(table(n - 1), n - 1)
      BY <1>1, <2>2
    <3>2. table(n)[n - 1] = table(n - 1)[n - 1]
      BY <3>1, TablesAgree
    <3>3. table(n)[n] = 2 * table(n)[n - 1]
      BY <2>2, <3>1 DEF Table
    <3> QED
      BY <2>2, <3>1, <3>2, <3>3
  <2> QED
    BY <2>1, <2>2
<1>3. g = [n \in Nat |-> IF n = 0 THEN 1 ELSE 2 * g[n - 1]]
  BY <1>2
<1> HIDE DEF g
<1>4. pow2 = [n \in Nat |-> IF n = 0 THEN 1 ELSE 2 * pow2[n - 1]]
  BY <1>3 DEF pow2
<1> HIDE DEF pow2
<1>5. \A n \in Nat : pow2[n] = IF n = 0 THEN 1 ELSE 2 * pow2[n - 1]
  BY <1>4
<1>6. ASSUME NEW n \in Nat PROVE pow2[n + 1] = 2 * pow2[n]
  <2>1. n + 1 \in Nat /\ n + 1 # 0 /\ n + 1 - 1 = n
    OBVIOUS
  <2> QED
    BY <1>5, <2>1
<1> QED
  BY <1>5, <1>6

\* A power of two is a natural number, and not 0.
LEMMA Pow2Positive == \A n \in Nat : pow2[n] \in Nat /\ pow2[n] >= 1
<1> DEFINE S == {n \in Nat : pow2[n] \in Nat /\ pow2[n] >= 1}
<1>1. 0 \in S
  BY Pow2Unfold
<1>2. ASSUME NEW n \in Nat, n \in S
      PROVE  n + 1 \in S
  BY <1>2, Pow2Unfold
<1> HIDE DEF S
<1>3. \A n \in Nat : n \in S
  BY <1>1, <1>2, NatSetInduction
<1> QED
  BY <1>3 DEF S

\* Shifting twice is shifting once.
LEMMA Pow2Sum == \A a, b \in Nat : pow2[a + b] = pow2[a] * pow2[b]
<1>1. SUFFICES ASSUME NEW a \in Nat PROVE \A b \in Nat : pow2[a + b] = pow2[a] * pow2[b]
  OBVIOUS
<1> DEFINE S == {b \in Nat : pow2[a + b] = pow2[a] * pow2[b]}
<1>2. 0 \in S
  BY Pow2Unfold, Pow2Positive
<1>3. ASSUME NEW b \in Nat, b \in S
      PROVE  b + 1 \in S
  <2>1. pow2[a + (b + 1)] = 2 * pow2[a + b] /\ pow2[b + 1] = 2 * pow2[b]
    <3>1. a + b \in Nat /\ a + (b + 1) = (a + b) + 1
      OBVIOUS
    <3> QED
      BY <3>1, Pow2Unfold
  <2>2. pow2[a] \in Nat /\ pow2[b] \in Nat
    BY Pow2Positive
  <2>3. \A x, y \in Nat : 2 * (x * y) = x * (2 * y)
    OBVIOUS
  <2> QED
    BY <1>3, <2>1, <2>2, <2>3
<1> HIDE DEF S
<1>4. \A b \in Nat : b \in S
  BY <1>2, <1>3, NatSetInduction
<1> QED
  BY <1>4 DEF S

\* A longer shift gives no smaller number.
LEMMA Pow2Monotone ==
  ASSUME NEW a \in Nat, NEW b \in Nat, a <= b
  PROVE  pow2[a] <= pow2[b]
<1>1. b - a \in Nat /\ a + (b - a) = b
  OBVIOUS
<1>2. pow2[b] = pow2[a] * pow2[b - a]
  BY <1>1, Pow2Sum
<1>3. pow2[a] \in Nat /\ pow2[b - a] \in Nat /\ pow2[b - a] >= 1
  BY <1>1, Pow2Positive
<1>4. \A x, y \in Nat : y >= 1 => x <= x * y
  OBVIOUS
<1> QED
  BY <1>2, <1>3, <1>4

(***************************************************************************)
(* Division.                                                               *)
(***************************************************************************)

\* Quotient and remainder exist...
LEMMA Division ==
  ASSUME NEW n \in Nat, NEW d \in Nat, d > 0
  PROVE  \E q \in Nat, r \in 0 .. d - 1 : q = n \div d /\ r = n % d /\ n = d * q + r
<1> DEFINE x == n \div d
           s == n % d
<1>1. x \in Nat /\ s \in 0 .. d - 1 /\ n - d * x = s
  OBVIOUS
<1> HIDE DEF x, s
<1>2. \A u, v \in Nat : u * v \in Nat
  OBVIOUS
<1>3. n = d * x + s
  BY <1>1, <1>2
<1>4. x = n \div d /\ s = n % d
  BY DEF x, s
<1> QED
  BY <1>1, <1>3, <1>4

\* ... and are the only ones.
LEMMA DivisionUnique ==
  ASSUME NEW d \in Nat, d > 0, NEW q \in Nat, NEW r \in 0 .. d - 1
  PROVE  (d * q + r) \div d = q /\ (d * q + r) % d = r
<1> DEFINE n == d * q + r
           x == n \div d
           s == n % d
<1>1. \A a, b \in Nat : a * b \in Nat
  OBVIOUS
<1>2. n \in Nat
  BY <1>1
<1>3. x \in Nat /\ s \in 0 .. d - 1 /\ n = d * x + s
  <2> HIDE DEF n
  <2>1. PICK y \in Nat, z \in 0 .. d - 1 : y = n \div d /\ z = n % d /\ n = d * y + z
    BY <1>2, Division
  <2>2. y = x /\ z = s
    BY <2>1
  <2> HIDE DEF x, s
  <2> QED
    BY <2>1, <2>2
<1> HIDE DEF x, s
<1>4. d * x + s = d * q + r /\ r \in Nat /\ s \in Nat /\ r < d /\ s < d
  BY <1>3
<1>5. \A a, b \in Nat : a < b => d * a + d <= d * b
  <2>1. \A a, b \in Nat : a < b => a + 1 <= b /\ d * (a + 1) = d * a + d
    OBVIOUS
  <2>2. \A a, b \in Nat : a <= b => d * a <= d * b
    OBVIOUS
  <2> QED
    BY <2>1, <2>2
<1>6. x = q
  <2>0. d * x \in Nat /\ d * q \in Nat
    BY <1>1, <1>3
  <2>1. ~ (x < q)
    BY <1>3, <1>4, <1>5, <2>0
  <2>2. ~ (q < x)
    BY <1>3, <1>4, <1>5, <2>0
  <2> QED
    BY <1>3, <2>1, <2>2
<1>7. s = r
  BY <1>1, <1>4, <1>6
<1> QED
  BY <1>6, <1>7 DEF x, s

\* Dividing by a product is dividing by one factor, then by the other.
LEMMA NestedDivision ==
  ASSUME NEW n \in Nat, NEW a \in Nat, a > 0, NEW b \in Nat, b > 0
  PROVE  n \div (a * b) = (n \div a) \div b
<1> DEFINE x == n \div a
           r == n % a
           y == x \div b
           s == x % b
<1>1. x \in Nat /\ r \in 0 .. a - 1 /\ n = a * x + r
  <2>1. PICK u \in Nat, v \in 0 .. a - 1 : u = n \div a /\ v = n % a /\ n = a * u + v
    BY Division
  <2>2. u = x /\ v = r
    BY <2>1
  <2> HIDE DEF x, r
  <2> QED
    BY <2>1, <2>2
<1>2. y \in Nat /\ s \in 0 .. b - 1 /\ x = b * y + s
  <2> HIDE DEF x
  <2>1. PICK u \in Nat, v \in 0 .. b - 1 : u = x \div b /\ v = x % b /\ x = b * u + v
    BY <1>1, Division
  <2>2. u = y /\ v = s
    BY <2>1
  <2> HIDE DEF y, s
  <2> QED
    BY <2>1, <2>2
<1> HIDE DEF x, r, y, s
<1>3. \A u, v \in Nat : u * v \in Nat
  OBVIOUS
<1>4. a * s + r \in 0 .. a * b - 1
  <2>1. s + 1 <= b /\ s + 1 \in Nat /\ s \in Nat /\ r \in Nat /\ r < a
    BY <1>1, <1>2
  <2>2. a * (s + 1) <= a * b /\ a * (s + 1) = a * s + a
    BY <2>1
  <2>3. a * s \in Nat /\ a * b \in Nat
    BY <1>3, <2>1
  <2> QED
    BY <2>1, <2>2, <2>3
<1>5. n = (a * b) * y + (a * s + r)
  <2>1. s \in Nat /\ r \in Nat
    BY <1>1, <1>2
  <2>2. a * (b * y + s) = (a * b) * y + a * s
    BY <1>2, <2>1
  <2>3. (a * b) * y \in Nat /\ a * s \in Nat
    BY <1>2, <1>3, <2>1
  <2> QED
    BY <1>1, <1>2, <2>1, <2>2, <2>3
<1> DEFINE d == a * b
           t == a * s + r
<1>6. d \in Nat /\ d > 0
  BY <1>3
<1>7. t \in 0 .. d - 1 /\ n = d * y + t
  BY <1>4, <1>5
<1> HIDE DEF d, t
<1>8. n \div d = y
  BY <1>2, <1>6, <1>7, DivisionUnique
<1> QED
  BY <1>8 DEF d, y, x

(***************************************************************************)
(* A number is compared with another as its bytes are.                     *)
(***************************************************************************)

WIDTH == pow2[BYTE_BITS]

\* The number that the first i bytes of n make.
prefix(n, i) == n \div pow2[BYTE_BITS * (BYTES - i)]

\* The sizes of a hash and of a fixed-point bit are natural numbers, none of them 0.
LEMMA Sizes ==
  /\ BYTES \in Nat /\ BYTES > 0 /\ BYTE_BITS \in Nat /\ BYTE_BITS > 0
  /\ FP_SHIFT \in Nat /\ FP_SHIFT > 0 /\ FP_ONE = pow2[FP_SHIFT]
  /\ FP_ONE \in Nat /\ FP_ONE > 0 /\ WIDTH \in Nat /\ WIDTH > 0
  /\ HASH_BITS \in Nat /\ FP_SHIFT <= HASH_BITS
<1>1. /\ BYTES \in Nat /\ BYTES > 0 /\ BYTE_BITS \in Nat /\ BYTE_BITS > 0
      /\ FP_SHIFT \in Nat /\ FP_SHIFT > 0 /\ FP_ONE = pow2[FP_SHIFT]
      /\ FORK2_MAX_BITS + FP_SHIFT <= HASH_BITS
  BY PowAssumption
<1>2. HASH_BITS \in Nat
  <2>1. \A u, v \in Nat : u * v \in Nat
    OBVIOUS
  <2> QED
    BY <1>1, <2>1 DEF HASH_BITS
<1>3. FORK2_MAX_BITS \in Nat
  BY Constants_are_natural
<1> QED
  BY <1>1, <1>2, <1>3, Pow2Positive DEF WIDTH

\* A longer prefix is the shorter one, with one more byte.
LEMMA Prefixes ==
  ASSUME NEW n \in Nat, NEW i \in 0 .. BYTES
  PROVE  /\ prefix(n, i) \in Nat
         /\ i # 0 => /\ bytes_of(n)[i] \in 0 .. WIDTH - 1
                     /\ prefix(n, i) = WIDTH * prefix(n, i - 1) + bytes_of(n)[i]
<1>0. \A u, v \in Nat : u * v \in Nat
  OBVIOUS
<1>1. ASSUME NEW j \in 0 .. BYTES
      PROVE  /\ BYTE_BITS * (BYTES - j) \in Nat
             /\ pow2[BYTE_BITS * (BYTES - j)] \in Nat /\ pow2[BYTE_BITS * (BYTES - j)] > 0
  <2>1. BYTES - j \in Nat
    BY Sizes
  <2>2. BYTE_BITS * (BYTES - j) \in Nat
    BY <1>0, <2>1, Sizes
  <2> QED
    BY <2>2, Pow2Positive
<1>2. prefix(n, i) \in Nat
  BY <1>1, Division DEF prefix
<1>3. ASSUME i # 0
      PROVE  /\ bytes_of(n)[i] \in 0 .. WIDTH - 1
             /\ prefix(n, i) = WIDTH * prefix(n, i - 1) + bytes_of(n)[i]
  <2> DEFINE low == BYTE_BITS * (BYTES - i)
             high == BYTE_BITS * (BYTES - (i - 1))
  <2>1. i - 1 \in 0 .. BYTES /\ i \in 1 .. BYTES
    BY <1>3, Sizes
  <2>2. low \in Nat /\ pow2[low] \in Nat /\ pow2[low] > 0
    BY <1>1
  <2>3. high = low + BYTE_BITS
    <3>1. \A x \in Int : BYTE_BITS * (x + 1) = BYTE_BITS * x + BYTE_BITS
      BY Sizes
    <3>2. BYTES - i \in Int /\ BYTES - (i - 1) = (BYTES - i) + 1
      BY Sizes
    <3> QED
      BY <3>1, <3>2
  <2> HIDE DEF low, high
  <2>4. pow2[high] = pow2[low] * WIDTH
    BY <2>2, <2>3, Pow2Sum, Sizes DEF WIDTH
  <2>5. n \div pow2[high] = (n \div pow2[low]) \div WIDTH
    BY <2>2, <2>4, NestedDivision, Sizes
  <2>6. prefix(n, i) = n \div pow2[low] /\ prefix(n, i - 1) = prefix(n, i) \div WIDTH
    BY <2>5 DEF prefix, low, high
  <2>7. bytes_of(n)[i] = prefix(n, i) % WIDTH
    BY <2>1, <2>6 DEF bytes_of, low, WIDTH
  <2> DEFINE p == prefix(n, i)
  <2> HIDE DEF p
  <2>8. p \in Nat /\ WIDTH \in Nat /\ WIDTH > 0
    BY <1>2, Sizes DEF p
  <2>9. PICK u \in Nat, v \in 0 .. WIDTH - 1 :
          u = p \div WIDTH /\ v = p % WIDTH /\ p = WIDTH * u + v
    BY <2>8, Division
  <2>10. u = prefix(n, i - 1) /\ v = bytes_of(n)[i] /\ p = prefix(n, i)
    BY <2>6, <2>7, <2>9 DEF p
  <2> QED
    BY <2>9, <2>10
<1> QED
  BY <1>2, <1>3

\* What all the bytes make is the number itself, and what none make is nothing.
LEMMA WholePrefix ==
  ASSUME NEW n \in Nat, n < pow2[HASH_BITS]
  PROVE  prefix(n, 0) = 0
<1>1. BYTE_BITS * (BYTES - 0) = HASH_BITS
  BY Sizes DEF HASH_BITS
<1>2. pow2[HASH_BITS] \in Nat /\ pow2[HASH_BITS] > 0
  BY Pow2Positive, Sizes
<1>3. n = pow2[HASH_BITS] * 0 + n /\ n \in 0 .. pow2[HASH_BITS] - 1
  BY <1>2
<1>4. n \div pow2[HASH_BITS] = 0
  <2> DEFINE d == pow2[HASH_BITS]
  <2> HIDE DEF d
  <2>1. (d * 0 + n) \div d = 0
    BY <1>2, <1>3, DivisionUnique DEF d
  <2> QED
    BY <1>3, <2>1 DEF d
<1> QED
  BY <1>1, <1>4 DEF prefix

\* Of two numbers the smaller has the smaller bytes, or the same.
LEMMA BytesOrdered ==
  ASSUME NEW m \in Nat, NEW n \in Nat, m <= n, n < pow2[HASH_BITS]
  PROVE  \/ \A i \in 1 .. BYTES : bytes_of(m)[i] = bytes_of(n)[i]
         \/ hash_below_target(bytes_of(m), bytes_of(n))
<1> DEFINE a == bytes_of(m)
           b == bytes_of(n)
           Same(i) == prefix(m, i) = prefix(n, i) /\ \A j \in 1 .. i : a[j] = b[j]
           Less(i) == \E j \in 1 .. i : a[j] < b[j] /\ \A k \in 1 .. j - 1 : a[k] = b[k]
           S == {i \in Nat : i <= BYTES => Same(i) \/ Less(i)}
<1> HIDE DEF a, b
<1>1. 0 \in S
  <2>1. pow2[HASH_BITS] \in Nat
    BY Pow2Positive, Sizes
  <2>2. prefix(m, 0) = 0 /\ prefix(n, 0) = 0
    BY <2>1, WholePrefix
  <2>3. Same(0)
    BY <2>2
  <2> QED
    BY <2>3
<1>2. ASSUME NEW i \in Nat, i \in S
      PROVE  i + 1 \in S
  <2>1. SUFFICES ASSUME i + 1 <= BYTES PROVE Same(i + 1) \/ Less(i + 1)
    OBVIOUS
  <2>2. BYTES \in Nat /\ i \in 0 .. BYTES /\ i + 1 \in 0 .. BYTES /\ i + 1 # 0 /\ (i + 1) - 1 = i
    BY <2>1, Sizes
  <2>3. Same(i) \/ Less(i)
    BY <1>2, <2>2
  <2>4. CASE Less(i)
    BY <2>2, <2>4
  <2>5. CASE Same(i)
    <3> DEFINE p == prefix(m, i)
               q == prefix(m, i + 1)
               r == prefix(n, i + 1)
    <3>1. /\ p \in Nat /\ q \in Nat /\ r \in Nat /\ WIDTH \in Nat
          /\ a[i + 1] \in 0 .. WIDTH - 1 /\ b[i + 1] \in 0 .. WIDTH - 1
          /\ q = WIDTH * p + a[i + 1] /\ r = WIDTH * p + b[i + 1]
      <4>1. /\ p \in Nat /\ q \in Nat /\ a[i + 1] \in 0 .. WIDTH - 1 /\ q = WIDTH * p + a[i + 1]
        BY <2>2, Prefixes DEF a
      <4>2. /\ r \in Nat /\ b[i + 1] \in 0 .. WIDTH - 1 /\ r = WIDTH * prefix(n, i) + b[i + 1]
        BY <2>2, Prefixes DEF b
      <4> QED
        BY <2>5, <4>1, <4>2, Sizes
    <3>2. q <= r
      <4>1. BYTES - (i + 1) \in Nat
        BY <2>2
      <4>2. BYTE_BITS * (BYTES - (i + 1)) \in Nat
        <5>1. \A u, v \in Nat : u * v \in Nat
          OBVIOUS
        <5> QED
          BY <4>1, <5>1, Sizes
      <4>3. /\ pow2[BYTE_BITS * (BYTES - (i + 1))] \in Nat
            /\ pow2[BYTE_BITS * (BYTES - (i + 1))] > 0
        BY <4>2, Pow2Positive
      <4> QED
        BY <4>3, DivisionMonotonic DEF prefix
    <3> HIDE DEF p, q, r
    <3>3. a[i + 1] <= b[i + 1]
      <4>1. WIDTH * p \in Nat
        <5>1. \A u, v \in Nat : u * v \in Nat
          OBVIOUS
        <5> QED
          BY <3>1, <5>1
      <4> QED
        BY <3>1, <3>2, <4>1
    <3>4. CASE a[i + 1] = b[i + 1]
      <4>1. q = r
        BY <3>1, <3>4
      <4>2. \A j \in 1 .. i + 1 : a[j] = b[j]
        BY <2>2, <2>5, <3>4
      <4>3. Same(i + 1)
        BY <4>1, <4>2 DEF q, r
      <4> QED
        BY <4>3
    <3>5. CASE a[i + 1] # b[i + 1]
      <4>1. a[i + 1] < b[i + 1]
        BY <3>1, <3>3, <3>5
      <4>2. i + 1 \in 1 .. i + 1 /\ \A k \in 1 .. (i + 1) - 1 : a[k] = b[k]
        BY <2>2, <2>5
      <4>3. Less(i + 1)
        BY <4>1, <4>2
      <4> QED
        BY <4>3
    <3> QED
      BY <3>4, <3>5
  <2> QED
    BY <2>3, <2>4, <2>5
<1> HIDE DEF S
<1>3. BYTES \in S
  BY <1>1, <1>2, NatSetInduction, Sizes
<1>4. Same(BYTES) \/ Less(BYTES)
  <2>1. BYTES <= BYTES
    BY Sizes
  <2> QED
    BY <1>3, <2>1 DEF S
<1> QED
  BY <1>4 DEF a, b, hash_below_target

\* A hash below a target is below every larger one.
LEMMA BelowLarger ==
  ASSUME NEW hash \in Hashes, NEW m \in Nat, NEW n \in Nat, m <= n, n < pow2[HASH_BITS],
         hash_below_target(hash, bytes_of(m))
  PROVE  hash_below_target(hash, bytes_of(n))
<1> DEFINE a == bytes_of(m)
           b == bytes_of(n)
<1>1. \A i \in 1 .. BYTES : a[i] \in Nat /\ b[i] \in Nat /\ hash[i] \in Nat
  <2> SUFFICES ASSUME NEW i \in 1 .. BYTES PROVE a[i] \in Nat /\ b[i] \in Nat /\ hash[i] \in Nat
    OBVIOUS
  <2>1. i \in 0 .. BYTES /\ i # 0
    BY Sizes
  <2>2. a[i] \in 0 .. WIDTH - 1 /\ b[i] \in 0 .. WIDTH - 1
    BY <2>1, Prefixes
  <2>3. hash[i] \in 0 .. WIDTH - 1
    BY DEF Hashes, WIDTH
  <2> QED
    BY <2>2, <2>3, Sizes
<1>2. PICK i \in 1 .. BYTES : hash[i] < a[i] /\ \A j \in 1 .. i - 1 : hash[j] = a[j]
  BY DEF hash_below_target
<1>3. CASE \A j \in 1 .. BYTES : a[j] = b[j]
  <2>1. hash[i] < b[i] /\ \A j \in 1 .. i - 1 : hash[j] = b[j]
    BY <1>2, <1>3, Sizes
  <2> QED
    BY <2>1 DEF hash_below_target
<1>4. CASE hash_below_target(a, b)
  <2>1. PICK k \in 1 .. BYTES : a[k] < b[k] /\ \A j \in 1 .. k - 1 : a[j] = b[j]
    BY <1>4 DEF hash_below_target
  <2>2. CASE i <= k
    <3>1. hash[i] < b[i]
      BY <1>1, <1>2, <2>1, <2>2, Sizes
    <3>2. \A j \in 1 .. i - 1 : hash[j] = b[j]
      BY <1>2, <2>1, <2>2, Sizes
    <3> QED
      BY <3>1, <3>2 DEF hash_below_target
  <2>3. CASE k < i
    <3>1. hash[k] < b[k]
      BY <1>2, <2>1, <2>3, Sizes
    <3>2. \A j \in 1 .. k - 1 : hash[j] = b[j]
      BY <1>2, <2>1, <2>3, Sizes
    <3> QED
      BY <3>1, <3>2 DEF hash_below_target
  <2> QED
    BY <2>2, <2>3, Sizes
<1> HIDE DEF a, b
<1>5. (\A j \in 1 .. BYTES : a[j] = b[j]) \/ hash_below_target(a, b)
  BY BytesOrdered DEF a, b
<1> QED
  BY <1>3, <1>4, <1>5 DEF a, b

(***************************************************************************)
(* The target of a difficulty.                                             *)
(***************************************************************************)

exponent(fine) == HASH_BITS * FP_ONE - clamp(fine, FP_ONE, (HASH_BITS - 1) * FP_ONE)
target_number(e) == (mantissa(e) * pow2[e \div FP_ONE]) \div FP_ONE

\* Products of natural numbers: their order, and their terms.
LEMMA Products ==
  /\ \A a, b \in Nat : a * b \in Nat
  /\ \A a, b, c \in Nat : b <= c => a * b <= a * c
  /\ \A a, b, c \in Nat : a > 0 /\ a * b < a * c => b < c
  /\ \A a, b \in Nat : b > 0 => a <= a * b
  OBVIOUS

\* The table of the fractions of a bit is ordered, for it is so from entry to entry.
LEMMA FactorGrows ==
  ASSUME NEW f \in 0 .. FP_ONE - 1, NEW g \in 0 .. FP_ONE - 1, f <= g
  PROVE  exp2_factor(f) <= exp2_factor(g)
<1> DEFINE S == {d \in Nat : f + d \in 0 .. FP_ONE - 1 => exp2_factor(f) <= exp2_factor(f + d)}
<1>1. \A x \in 0 .. FP_ONE - 1 : exp2_factor(x) \in Nat
  BY FactorAssumption, Constants_are_natural
<1>2. 0 \in S
  BY <1>1
<1>3. ASSUME NEW d \in Nat, d \in S
      PROVE  d + 1 \in S
  <2>1. SUFFICES ASSUME f + (d + 1) \in 0 .. FP_ONE - 1
                 PROVE  exp2_factor(f) <= exp2_factor(f + (d + 1))
    OBVIOUS
  <2> DEFINE x == f + d
             y == f + (d + 1)
  <2>2. x \in 0 .. FP_ONE - 1 /\ y \in 1 .. FP_ONE - 1 /\ x = y - 1
    BY <2>1, Constants_are_natural
  <2>3. exp2_factor(f) <= exp2_factor(x)
    BY <1>3, <2>2
  <2> HIDE DEF x, y
  <2>4. exp2_factor(y - 1) <= exp2_factor(y)
    BY <2>2, FactorAssumption
  <2>5. exp2_factor(x) <= exp2_factor(y)
    BY <2>2, <2>4
  <2>6. y \in 0 .. FP_ONE - 1
    BY <2>2
  <2>7. exp2_factor(f) <= exp2_factor(y)
    BY <1>1, <2>2, <2>3, <2>5, <2>6
  <2> QED
    BY <2>7 DEF y
<1> HIDE DEF S
<1>4. g - f \in Nat /\ f + (g - f) = g
  OBVIOUS
<1>5. g - f \in S
  BY <1>2, <1>3, <1>4, NatSetInduction
<1> QED
  BY <1>4, <1>5 DEF S

\* An exponent has a whole part and a fraction, and so has its target number.
LEMMA Exponent ==
  ASSUME NEW e \in Nat
  PROVE  \E q \in Nat, f \in 0 .. FP_ONE - 1 :
           /\ e = FP_ONE * q + f /\ q = e \div FP_ONE
           /\ mantissa(e) = FP_ONE + exp2_factor(f)
           /\ mantissa(e) \in FP_ONE .. 2 * FP_ONE - 1
           /\ target_number(e) = (mantissa(e) * pow2[q]) \div FP_ONE
           /\ target_number(e) \in Nat
           /\ FP_ONE * target_number(e) <= mantissa(e) * pow2[q]
<1>1. FP_ONE \in Nat /\ FP_ONE > 0
  BY Sizes
<1>2. PICK q \in Nat, f \in 0 .. FP_ONE - 1 : q = e \div FP_ONE /\ f = e % FP_ONE /\ e = FP_ONE * q + f
  BY <1>1, Division
<1>3. mantissa(e) = FP_ONE + exp2_factor(f) /\ exp2_factor(f) \in 0 .. FP_ONE - 1
  BY <1>2, FactorAssumption DEF mantissa
<1>4. mantissa(e) \in FP_ONE .. 2 * FP_ONE - 1
  BY <1>1, <1>3
<1> DEFINE p == mantissa(e) * pow2[q]
<1>5. p \in Nat
  <2>1. mantissa(e) \in Nat /\ pow2[q] \in Nat
    BY <1>1, <1>4, Pow2Positive
  <2> QED
    BY <2>1, Products
<1>6. target_number(e) = p \div FP_ONE
  BY <1>2 DEF target_number
<1> HIDE DEF p
<1>7. PICK x \in Nat, r \in 0 .. FP_ONE - 1 : x = p \div FP_ONE /\ r = p % FP_ONE /\ p = FP_ONE * x + r
  BY <1>1, <1>5, Division
<1>8. target_number(e) = x /\ FP_ONE * x <= p
  <2>1. FP_ONE * x \in Nat /\ r \in Nat
    BY <1>1, <1>7, Products
  <2> QED
    BY <1>6, <1>7, <2>1
<1> QED
  BY <1>2, <1>3, <1>4, <1>6, <1>7, <1>8 DEF p

\* A larger exponent gives a larger target, and none of them leaves the width of a hash.
LEMMA TargetsGrow ==
  ASSUME NEW d \in Nat, NEW e \in Nat, d <= e, e < HASH_BITS * FP_ONE
  PROVE  /\ target_number(d) \in Nat /\ target_number(e) \in Nat
         /\ target_number(d) <= target_number(e)
         /\ target_number(e) < pow2[HASH_BITS]
<1>0. FP_ONE \in Nat /\ FP_ONE > 0 /\ HASH_BITS \in Nat
  BY Sizes
<1>1. PICK q \in Nat, f \in 0 .. FP_ONE - 1 :
        /\ d = FP_ONE * q + f
        /\ mantissa(d) = FP_ONE + exp2_factor(f) /\ mantissa(d) \in FP_ONE .. 2 * FP_ONE - 1
        /\ target_number(d) = (mantissa(d) * pow2[q]) \div FP_ONE /\ target_number(d) \in Nat
  BY Exponent
<1>2. PICK r \in Nat, g \in 0 .. FP_ONE - 1 :
        /\ e = FP_ONE * r + g
        /\ mantissa(e) = FP_ONE + exp2_factor(g) /\ mantissa(e) \in FP_ONE .. 2 * FP_ONE - 1
        /\ target_number(e) = (mantissa(e) * pow2[r]) \div FP_ONE /\ target_number(e) \in Nat
        /\ FP_ONE * target_number(e) <= mantissa(e) * pow2[r]
  BY Exponent
<1>3. q <= r
  <2>1. SUFFICES ASSUME r + 1 <= q PROVE FALSE
    OBVIOUS
  <2>2. FP_ONE * (r + 1) <= FP_ONE * q
    BY <1>0, <2>1, Products
  <2>3. FP_ONE * (r + 1) = FP_ONE * r + FP_ONE
    BY <1>0
  <2>4. FP_ONE * r \in Nat /\ FP_ONE * q \in Nat
    BY <1>0, Products
  <2> QED
    BY <1>0, <1>1, <1>2, <2>2, <2>3, <2>4
<1>4. r < HASH_BITS
  <2>1. FP_ONE * r <= e /\ HASH_BITS * FP_ONE = FP_ONE * HASH_BITS
    <3>1. FP_ONE * r \in Nat
      BY <1>0, Products
    <3> QED
      BY <1>0, <1>2, <3>1
  <2>2. FP_ONE * r < FP_ONE * HASH_BITS
    <3>1. FP_ONE * r \in Nat /\ FP_ONE * HASH_BITS \in Nat
      BY <1>0, Products
    <3> QED
      BY <2>1, <3>1
  <2> QED
    BY <1>0, <2>2, Products
<1>5. /\ pow2[q] \in Nat /\ pow2[r] \in Nat /\ pow2[r] > 0 /\ pow2[r + 1] = 2 * pow2[r]
      /\ pow2[HASH_BITS] \in Nat /\ mantissa(d) \in Nat /\ mantissa(e) \in Nat
  BY <1>0, <1>1, <1>2, Pow2Positive, Pow2Unfold
<1>6. mantissa(d) * pow2[q] <= mantissa(e) * pow2[r]
  <2>1. CASE q = r
    <3>1. FP_ONE * q \in Nat
      BY <1>0, Products
    <3>2. f <= g
      BY <1>0, <1>1, <1>2, <2>1, <3>1
    <3>3. exp2_factor(f) <= exp2_factor(g) /\ exp2_factor(f) \in Nat /\ exp2_factor(g) \in Nat
      BY <1>0, <3>2, FactorGrows, FactorAssumption
    <3>4. mantissa(d) <= mantissa(e)
      BY <1>0, <1>1, <1>2, <3>3
    <3>5. \A a, b, c \in Nat : a <= b => a * c <= b * c
      OBVIOUS
    <3> QED
      BY <1>5, <2>1, <3>4, <3>5
  <2>2. CASE q # r
    <3>1. q + 1 \in Nat /\ q + 1 <= r /\ pow2[q + 1] = 2 * pow2[q]
      BY <1>3, <2>2, Pow2Unfold
    <3>2. 2 * pow2[q] <= pow2[r]
      BY <3>1, Pow2Monotone
    <3>3. mantissa(d) * pow2[q] <= (2 * FP_ONE) * pow2[q]
      <4>1. \A a, b, c \in Nat : a <= b => a * c <= b * c
        OBVIOUS
      <4>2. mantissa(d) <= 2 * FP_ONE /\ 2 * FP_ONE \in Nat
        BY <1>0, <1>1
      <4> QED
        BY <1>5, <4>1, <4>2
    <3>4. (2 * FP_ONE) * pow2[q] = FP_ONE * (2 * pow2[q])
      BY <1>0, <1>5
    <3>5. FP_ONE * (2 * pow2[q]) <= FP_ONE * pow2[r]
      <4>1. 2 * pow2[q] \in Nat
        BY <1>5
      <4> QED
        BY <1>0, <1>5, <3>2, <4>1, Products
    <3>6. FP_ONE * pow2[r] <= mantissa(e) * pow2[r]
      <4>1. \A a, b, c \in Nat : a <= b => a * c <= b * c
        OBVIOUS
      <4> QED
        BY <1>0, <1>2, <1>5, <4>1
    <3>7. /\ mantissa(d) * pow2[q] \in Nat /\ FP_ONE * (2 * pow2[q]) \in Nat
          /\ FP_ONE * pow2[r] \in Nat /\ mantissa(e) * pow2[r] \in Nat
      <4>1. 2 * pow2[q] \in Nat
        BY <1>5
      <4> QED
        BY <1>0, <1>5, <4>1, Products
    <3> QED
      BY <3>3, <3>4, <3>5, <3>6, <3>7
  <2> QED
    BY <2>1, <2>2
<1>7. target_number(d) <= target_number(e)
  <2> DEFINE x == mantissa(d) * pow2[q]
             y == mantissa(e) * pow2[r]
  <2>1. x \in Nat /\ y \in Nat /\ x <= y
    BY <1>5, <1>6, Products
  <2> HIDE DEF x, y
  <2>2. x \div FP_ONE <= y \div FP_ONE
    BY <1>0, <2>1, DivisionMonotonic
  <2> QED
    BY <1>1, <1>2, <2>2 DEF x, y
<1>8. target_number(e) < pow2[HASH_BITS]
  <2>1. mantissa(e) * pow2[r] < FP_ONE * pow2[HASH_BITS]
    <3>1. r + 1 \in Nat /\ r + 1 <= HASH_BITS
      BY <1>0, <1>4
    <3>2. 2 * pow2[r] <= pow2[HASH_BITS]
      BY <1>0, <1>5, <3>1, Pow2Monotone
    <3>3. mantissa(e) * pow2[r] < (2 * FP_ONE) * pow2[r]
      <4>1. \A a, b, c \in Nat : a < b /\ c > 0 => a * c < b * c
        OBVIOUS
      <4>2. mantissa(e) < 2 * FP_ONE /\ 2 * FP_ONE \in Nat
        BY <1>0, <1>2
      <4> QED
        BY <1>5, <4>1, <4>2
    <3>4. (2 * FP_ONE) * pow2[r] = FP_ONE * (2 * pow2[r])
      BY <1>0, <1>5
    <3>5. FP_ONE * (2 * pow2[r]) <= FP_ONE * pow2[HASH_BITS]
      <4>1. 2 * pow2[r] \in Nat
        BY <1>5
      <4> QED
        BY <1>0, <1>5, <3>2, <4>1, Products
    <3>6. /\ mantissa(e) * pow2[r] \in Nat /\ FP_ONE * (2 * pow2[r]) \in Nat
          /\ FP_ONE * pow2[HASH_BITS] \in Nat
      <4>1. 2 * pow2[r] \in Nat
        BY <1>5
      <4> QED
        BY <1>0, <1>5, <4>1, Products
    <3> QED
      BY <3>3, <3>4, <3>5, <3>6
  <2>2. FP_ONE * target_number(e) < FP_ONE * pow2[HASH_BITS]
    <3>1. /\ mantissa(e) * pow2[r] \in Nat /\ FP_ONE * target_number(e) \in Nat
          /\ FP_ONE * pow2[HASH_BITS] \in Nat
      BY <1>0, <1>2, <1>5, Products
    <3> QED
      BY <1>2, <2>1, <3>1
  <2> QED
    BY <1>0, <1>2, <1>5, <2>2, Products
<1> QED
  BY <1>1, <1>2, <1>7, <1>8

\* The exponent of a difficulty lies within the width of a hash, and falls as the
\* difficulty grows.
LEMMA ExponentFalls ==
  ASSUME NEW fine \in Nat, NEW more \in Nat, fine <= more
  PROVE  /\ exponent(more) \in Nat /\ exponent(fine) \in Nat
         /\ exponent(more) <= exponent(fine) /\ exponent(fine) < HASH_BITS * FP_ONE
<1> DEFINE all == HASH_BITS * FP_ONE
           top == (HASH_BITS - 1) * FP_ONE
<1>0. FP_ONE \in Nat /\ FP_ONE > 0 /\ HASH_BITS \in Nat /\ HASH_BITS >= 1
  BY Sizes
<1>1. all \in Nat /\ top \in Nat /\ all = top + FP_ONE
  <2>1. HASH_BITS - 1 \in Nat /\ HASH_BITS * FP_ONE = (HASH_BITS - 1) * FP_ONE + FP_ONE
    BY <1>0
  <2> QED
    BY <1>0, <2>1, Products
<1>2. /\ exponent(fine) = all - clamp(fine, FP_ONE, top)
      /\ exponent(more) = all - clamp(more, FP_ONE, top)
  BY DEF exponent
<1> HIDE DEF all, top
<1>3. /\ clamp(fine, FP_ONE, top) \in FP_ONE .. all /\ clamp(more, FP_ONE, top) \in FP_ONE .. all
      /\ clamp(fine, FP_ONE, top) <= clamp(more, FP_ONE, top)
  <2>1. HASH_BITS # 1 => FP_ONE <= top
    <3>1. HASH_BITS # 1 => HASH_BITS - 1 \in Nat /\ HASH_BITS - 1 > 0
      BY <1>0
    <3>2. HASH_BITS # 1 => FP_ONE <= FP_ONE * (HASH_BITS - 1)
      BY <1>0, <3>1, Products
    <3>3. \A x \in Int : x * FP_ONE = FP_ONE * x
      BY <1>0
    <3> QED
      BY <1>0, <3>2, <3>3 DEF top
  <2> QED
    BY <1>0, <1>1, <2>1 DEF clamp, lesser, greater
<1>4. /\ exponent(more) \in Nat /\ exponent(fine) \in Nat
      /\ exponent(more) <= exponent(fine) /\ exponent(fine) < all
  BY <1>0, <1>1, <1>2, <1>3
<1> QED
  BY <1>4 DEF all

\* What meets a difficulty meets every lower one: the target of meets_target only
\* widens as the difficulty is eased, through every rounding of the mantissa and
\* whichever byte decides.
THEOREM EasierTargetIsMet ==
  ASSUME NEW hash \in Hashes, NEW fine \in Nat, NEW more \in Nat, fine <= more,
         meets_target(hash, more)
  PROVE  meets_target(hash, fine)
<1> DEFINE d == exponent(more)
           e == exponent(fine)
<1>1. d \in Nat /\ e \in Nat /\ d <= e /\ e < HASH_BITS * FP_ONE
  BY ExponentFalls
<1>2. /\ target_from_fine(more) = bytes_of(target_number(d))
      /\ target_from_fine(fine) = bytes_of(target_number(e))
  BY DEF target_from_fine, target_number, exponent
<1> HIDE DEF d, e
<1>3. /\ target_number(d) \in Nat /\ target_number(e) \in Nat
      /\ target_number(d) <= target_number(e) /\ target_number(e) < pow2[HASH_BITS]
  BY <1>1, TargetsGrow
<1>4. hash_below_target(hash, bytes_of(target_number(d)))
  BY <1>2 DEF meets_target
<1>5. hash_below_target(hash, bytes_of(target_number(e)))
  BY <1>3, <1>4, BelowLarger
<1> QED
  BY <1>2, <1>5 DEF meets_target

(***************************************************************************)
(* Whole bits.                                                             *)
(***************************************************************************)

\* The leading bits that meets_difficulty asks of the i-th byte.
leading_bits(k, i) == clamp(k - (i - 1) * BYTE_BITS, 0, BYTE_BITS)

\* So many leading bits are 0 exactly when each byte is small enough.
LEMMA LeadingZeros ==
  ASSUME NEW hash \in Hashes, NEW k \in Nat
  PROVE  /\ \A i \in 1 .. BYTES :
              /\ leading_bits(k, i) \in 0 .. BYTE_BITS
              /\ pow2[BYTE_BITS - leading_bits(k, i)] \in Nat
              /\ hash[i] \in Nat /\ hash[i] < WIDTH
         /\ meets_difficulty(hash, k) <=>
              \A i \in 1 .. BYTES : hash[i] < pow2[BYTE_BITS - leading_bits(k, i)]
<1>1. ASSUME NEW i \in 1 .. BYTES
      PROVE  /\ leading_bits(k, i) \in 0 .. BYTE_BITS
             /\ pow2[BYTE_BITS - leading_bits(k, i)] \in Nat
             /\ hash[i] \in Nat /\ hash[i] < WIDTH
             /\ hash[i] \div pow2[BYTE_BITS - leading_bits(k, i)] = 0
                  <=> hash[i] < pow2[BYTE_BITS - leading_bits(k, i)]
  <2>1. (i - 1) * BYTE_BITS \in Int
    <3>1. i - 1 \in Nat
      BY Sizes
    <3> QED
      BY <3>1, Products, Sizes
  <2>2. leading_bits(k, i) \in 0 .. BYTE_BITS
    BY <2>1, Sizes DEF leading_bits, clamp, lesser, greater
  <2> DEFINE p == pow2[BYTE_BITS - leading_bits(k, i)]
             x == hash[i]
  <2>3. p \in Nat /\ p > 0
    <3>1. BYTE_BITS - leading_bits(k, i) \in Nat
      BY <2>2, Sizes
    <3> QED
      BY <3>1, Pow2Positive
  <2>4. x \in Nat /\ x < WIDTH
    <3>1. x \in 0 .. WIDTH - 1
      BY DEF Hashes, WIDTH
    <3> QED
      BY <3>1, Sizes
  <2> HIDE DEF p, x
  <2>5. PICK q \in Nat, r \in 0 .. p - 1 : q = x \div p /\ r = x % p /\ x = p * q + r
    BY <2>3, <2>4, Division
  <2>6. x < p <=> q = 0
    <3>1. q # 0 => p <= p * q
      BY <2>3, Products
    <3>2. p * q \in Nat /\ (q = 0 => p * q = 0)
      BY <2>3, Products
    <3> QED
      BY <2>3, <2>4, <2>5, <3>1, <3>2
  <2> QED
    BY <2>2, <2>3, <2>4, <2>5, <2>6 DEF p, x
<1>2. meets_difficulty(hash, k) <=>
        \A i \in 1 .. BYTES : hash[i] \div pow2[BYTE_BITS - leading_bits(k, i)] = 0
  BY DEF meets_difficulty, leading_bits
<1> QED
  BY <1>1, <1>2

\* More leading zeros are also fewer.
LEMMA FewerZeros ==
  ASSUME NEW hash \in Hashes, NEW k \in Nat, NEW more \in Nat, k <= more,
         meets_difficulty(hash, more)
  PROVE  meets_difficulty(hash, k)
<1> SUFFICES ASSUME NEW i \in 1 .. BYTES
             PROVE  hash[i] < pow2[BYTE_BITS - leading_bits(k, i)]
  BY LeadingZeros
<1>1. hash[i] < pow2[BYTE_BITS - leading_bits(more, i)] /\ hash[i] \in Nat
  BY LeadingZeros
<1>2. leading_bits(k, i) <= leading_bits(more, i)
  <2>1. (i - 1) * BYTE_BITS \in Int
    <3>1. i - 1 \in Nat
      BY Sizes
    <3> QED
      BY <3>1, Products, Sizes
  <2> QED
    BY <2>1, Sizes DEF leading_bits, clamp, lesser, greater
<1>3. leading_bits(k, i) \in 0 .. BYTE_BITS /\ leading_bits(more, i) \in 0 .. BYTE_BITS
  BY LeadingZeros
<1>4. pow2[BYTE_BITS - leading_bits(more, i)] <= pow2[BYTE_BITS - leading_bits(k, i)]
  <2>1. /\ BYTE_BITS - leading_bits(more, i) \in Nat /\ BYTE_BITS - leading_bits(k, i) \in Nat
        /\ BYTE_BITS - leading_bits(more, i) <= BYTE_BITS - leading_bits(k, i)
    BY <1>2, <1>3, Sizes
  <2> QED
    BY <2>1, Pow2Monotone
<1>5. /\ pow2[BYTE_BITS - leading_bits(more, i)] \in Nat
      /\ pow2[BYTE_BITS - leading_bits(k, i)] \in Nat
  BY LeadingZeros
<1> QED
  BY <1>1, <1>4, <1>5

\* Leading bits are asked of the bytes up to one, whole of those before it.
LEMMA BitsOfBytes ==
  ASSUME NEW i \in 1 .. BYTES, NEW r \in 1 .. BYTE_BITS
  PROVE  LET k == (i - 1) * BYTE_BITS + r
         IN  /\ k \in Nat /\ HASH_BITS - k = BYTE_BITS * (BYTES - i) + (BYTE_BITS - r)
             /\ \A j \in 1 .. BYTES :
                  leading_bits(k, j) = IF j < i THEN BYTE_BITS ELSE IF j = i THEN r ELSE 0
<1> DEFINE k == (i - 1) * BYTE_BITS + r
<1>0. BYTES \in Nat /\ BYTE_BITS \in Nat /\ i - 1 \in Nat /\ i \in Nat /\ r \in Nat
  BY Sizes
<1>1. \A x, y \in Int : /\ x * BYTE_BITS \in Int
                        /\ x * BYTE_BITS - y * BYTE_BITS = (x - y) * BYTE_BITS
  BY <1>0
<1>2. k \in Nat
  <2>1. (i - 1) * BYTE_BITS \in Nat
    BY <1>0, Products
  <2> QED
    BY <1>0, <2>1
<1>3. HASH_BITS - k = BYTE_BITS * (BYTES - i) + (BYTE_BITS - r)
  <2>1. (BYTES - (i - 1)) * BYTE_BITS = BYTES * BYTE_BITS - (i - 1) * BYTE_BITS
    BY <1>0, <1>1
  <2>2. (BYTES - (i - 1)) * BYTE_BITS = BYTE_BITS * (BYTES - i) + BYTE_BITS
    <3>1. \A x \in Int : (x + 1) * BYTE_BITS = BYTE_BITS * x + BYTE_BITS
      BY <1>0
    <3>2. BYTES - i \in Int /\ BYTES - (i - 1) = (BYTES - i) + 1
      BY <1>0
    <3> QED
      BY <3>1, <3>2
  <2>3. BYTES * BYTE_BITS \in Int /\ (i - 1) * BYTE_BITS \in Int /\ BYTE_BITS * (BYTES - i) \in Int
    BY <1>0
  <2> QED
    BY <1>0, <2>1, <2>2, <2>3 DEF HASH_BITS
<1>4. ASSUME NEW j \in 1 .. BYTES
      PROVE  leading_bits(k, j) = IF j < i THEN BYTE_BITS ELSE IF j = i THEN r ELSE 0
  <2> DEFINE x == (i - j) * BYTE_BITS
  <2>0. j - 1 \in Int /\ i - j \in Int /\ (i - 1) - (j - 1) = i - j
    BY <1>0
  <2>1. k - (j - 1) * BYTE_BITS = x + r /\ x \in Int
    <3>1. (i - 1) * BYTE_BITS - (j - 1) * BYTE_BITS = x
      BY <1>0, <1>1, <2>0
    <3>2. (i - 1) * BYTE_BITS \in Int /\ (j - 1) * BYTE_BITS \in Int /\ x \in Int
      BY <1>0, <1>1, <2>0
    <3> HIDE DEF x
    <3> QED
      BY <1>0, <3>1, <3>2
  <2>2. j < i => x >= BYTE_BITS
    <3>1. j < i => i - j \in Nat /\ i - j > 0
      BY <1>0
    <3>2. \A y \in Nat : y > 0 => y * BYTE_BITS >= BYTE_BITS
      BY <1>0
    <3> QED
      BY <3>1, <3>2
  <2>3. j = i => x = 0
    <3>1. 0 * BYTE_BITS = 0
      BY <1>0
    <3>2. j = i => i - j = 0
      BY <1>0
    <3> QED
      BY <3>1, <3>2
  <2>4. j > i => x <= -BYTE_BITS
    <3>1. j > i => j - i \in Nat /\ j - i > 0 /\ i - j = -(j - i)
      BY <1>0
    <3>2. \A y \in Nat : y > 0 => (-y) * BYTE_BITS <= -BYTE_BITS
      BY <1>0
    <3> QED
      BY <3>1, <3>2
  <2> HIDE DEF x, k
  <2>5. leading_bits(k, j) = clamp(x + r, 0, BYTE_BITS)
    BY <2>1 DEF leading_bits
  <2> QED
    BY <1>0, <2>1, <2>2, <2>3, <2>4, <2>5 DEF clamp, lesser, greater
<1> QED
  BY <1>2, <1>3, <1>4

\* A smaller power is strictly smaller; a quotient of powers is a power, or 0.
LEMMA PowersDivide ==
  ASSUME NEW a \in Nat, NEW b \in Nat
  PROVE  /\ a < b => pow2[a] < pow2[b] /\ pow2[a] \div pow2[b] = 0
         /\ pow2[a + b] \div pow2[b] = pow2[a]
         /\ pow2[a + b] % pow2[b] = 0
<1>1. pow2[a] \in Nat /\ pow2[a] > 0 /\ pow2[b] \in Nat /\ pow2[b] > 0
  BY Pow2Positive
<1>2. pow2[a + b] = pow2[b] * pow2[a] + 0
  <2>1. pow2[a + b] = pow2[a] * pow2[b]
    BY Pow2Sum
  <2> QED
    BY <1>1, <2>1
<1>3. 0 \in 0 .. pow2[b] - 1
  BY <1>1
<1>4. (pow2[b] * pow2[a] + 0) \div pow2[b] = pow2[a] /\ (pow2[b] * pow2[a] + 0) % pow2[b] = 0
  BY <1>1, <1>3, DivisionUnique
<1>5. ASSUME a < b
      PROVE  pow2[a] < pow2[b] /\ pow2[a] \div pow2[b] = 0
  <2>1. a + 1 \in Nat /\ a + 1 <= b /\ pow2[a + 1] = 2 * pow2[a]
    BY <1>5, Pow2Unfold
  <2>2. 2 * pow2[a] <= pow2[b]
    BY <2>1, Pow2Monotone
  <2>3. pow2[a] < pow2[b]
    BY <1>1, <2>2
  <2> DEFINE x == pow2[a]
             d == pow2[b]
  <2>4. x \in 0 .. d - 1 /\ d \in Nat /\ d > 0
    BY <1>1, <2>3
  <2> HIDE DEF x, d
  <2>5. (d * 0 + x) \div d = 0
    BY <2>4, DivisionUnique
  <2>6. d * 0 + x = x
    BY <2>4
  <2> QED
    BY <2>3, <2>5, <2>6 DEF x, d
<1> QED
  BY <1>2, <1>4, <1>5

\* The bytes of a power of two: one of them is a power, the others are 0.
LEMMA BytesOfPower ==
  ASSUME NEW i \in 1 .. BYTES, NEW c \in 0 .. BYTE_BITS - 1, NEW j \in 1 .. BYTES
  PROVE  bytes_of(pow2[BYTE_BITS * (BYTES - i) + c])[j] = IF j = i THEN pow2[c] ELSE 0
<1> DEFINE p == BYTE_BITS * (BYTES - i) + c
           s == BYTE_BITS * (BYTES - j)
<1>0. /\ BYTES \in Nat /\ BYTE_BITS \in Nat /\ BYTE_BITS > 0 /\ c \in Nat /\ c < BYTE_BITS
      /\ BYTES - i \in Nat /\ BYTES - j \in Nat /\ i \in Nat /\ j \in Nat
      /\ WIDTH \in Nat /\ WIDTH > 0
  BY Sizes
<1>1. p \in Nat /\ s \in Nat
  BY <1>0, Products
<1>2. bytes_of(pow2[p])[j] = (pow2[p] \div pow2[s]) % WIDTH
  BY DEF bytes_of, WIDTH
<1>3. ASSUME NEW m \in Nat, NEW n \in Nat, m < n
      PROVE  \E d \in Nat : BYTE_BITS * n = BYTE_BITS * m + BYTE_BITS + d
  <2>1. n - m - 1 \in Nat /\ n = m + 1 + (n - m - 1)
    BY <1>3
  <2>2. BYTE_BITS * (n - m - 1) \in Nat
    BY <1>0, <2>1, Products
  <2>3. \A u, v \in Nat : BYTE_BITS * (u + 1 + v) = BYTE_BITS * u + BYTE_BITS + BYTE_BITS * v
    BY <1>0
  <2>4. BYTE_BITS * n = BYTE_BITS * m + BYTE_BITS + BYTE_BITS * (n - m - 1)
    BY <2>1, <2>3
  <2> QED
    BY <2>2, <2>4
<1>4. CASE j = i
  <2>1. p = c + s
    BY <1>0, <1>1, <1>4
  <2>2. pow2[p] \div pow2[s] = pow2[c]
    <3> HIDE DEF p, s
    <3>1. pow2[c + s] \div pow2[s] = pow2[c]
      BY <1>0, <1>1, PowersDivide
    <3> QED
      BY <2>1, <3>1
  <2>3. pow2[c] \in Nat /\ pow2[c] < WIDTH
    BY <1>0, PowersDivide, Pow2Positive DEF WIDTH
  <2>4. pow2[c] % WIDTH = pow2[c]
    <3> DEFINE x == pow2[c]
    <3>1. x \in 0 .. WIDTH - 1 /\ x \in Nat
      BY <1>0, <2>3
    <3> HIDE DEF x
    <3>2. (WIDTH * 0 + x) % WIDTH = x /\ WIDTH * 0 + x = x
      BY <1>0, <3>1, DivisionUnique
    <3> QED
      BY <3>2 DEF x
  <2> QED
    BY <1>2, <1>4, <2>2, <2>4
<1>5. CASE j < i
  <2>1. BYTES - i < BYTES - j
    BY <1>0, <1>5
  <2>2. PICK d \in Nat : s = BYTE_BITS * (BYTES - i) + BYTE_BITS + d
    BY <1>0, <1>3, <2>1
  <2>3. BYTE_BITS * (BYTES - i) \in Nat
    BY <1>0, Products
  <2>4. p < s
    BY <1>0, <2>2, <2>3
  <2>5. pow2[p] \div pow2[s] = 0
    BY <1>1, <2>4, PowersDivide
  <2>6. 0 % WIDTH = 0
    BY <1>0
  <2> QED
    BY <1>0, <1>2, <1>5, <2>5, <2>6
<1>6. CASE j > i
  <2>1. BYTES - j < BYTES - i
    BY <1>0, <1>6
  <2>2. PICK d \in Nat : BYTE_BITS * (BYTES - i) = s + BYTE_BITS + d
    BY <1>0, <1>3, <2>1
  <2> DEFINE e == d + c
  <2>3. e \in Nat /\ p = (e + BYTE_BITS) + s /\ e + BYTE_BITS \in Nat
    BY <1>0, <1>1, <2>2
  <2> HIDE DEF e, p, s
  <2>4. pow2[p] \div pow2[s] = pow2[e + BYTE_BITS]
    BY <1>1, <2>3, PowersDivide
  <2>5. pow2[e + BYTE_BITS] % WIDTH = 0
    BY <1>0, <2>3, PowersDivide DEF WIDTH
  <2>6. bytes_of(pow2[p])[j] = 0
    BY <1>2, <2>4, <2>5
  <2> QED
    BY <1>0, <1>6, <2>6 DEF p
<1> QED
  BY <1>0, <1>4, <1>5, <1>6

\* A number of bits ends in one byte.
LEMMA LastByte ==
  ASSUME NEW k \in 1 .. HASH_BITS
  PROVE  \E i \in 1 .. BYTES, r \in 1 .. BYTE_BITS : k = (i - 1) * BYTE_BITS + r
<1>0. /\ BYTES \in Nat /\ BYTE_BITS \in Nat /\ BYTE_BITS > 0 /\ HASH_BITS \in Nat
      /\ k - 1 \in Nat /\ k \in Nat /\ HASH_BITS = BYTE_BITS * BYTES
  <2>1. BYTES \in Nat /\ BYTE_BITS \in Nat /\ BYTE_BITS > 0 /\ HASH_BITS \in Nat
    BY Sizes
  <2> QED
    BY <2>1 DEF HASH_BITS
<1>1. PICK q \in Nat, s \in 0 .. BYTE_BITS - 1 : k - 1 = BYTE_BITS * q + s
  <2> DEFINE n == k - 1
  <2>1. n \in Nat
    BY <1>0
  <2> HIDE DEF n
  <2>2. \E q \in Nat, s \in 0 .. BYTE_BITS - 1 :
          q = n \div BYTE_BITS /\ s = n % BYTE_BITS /\ n = BYTE_BITS * q + s
    BY <1>0, <2>1, Division
  <2> QED
    BY <2>2 DEF n
<1>2. BYTE_BITS * q \in Nat /\ q * BYTE_BITS = BYTE_BITS * q
  BY <1>0, Products
<1>3. q < BYTES
  <2>1. BYTE_BITS * q < BYTE_BITS * BYTES
    BY <1>0, <1>1, <1>2
  <2> QED
    BY <1>0, <2>1, Products
<1>4. q + 1 \in 1 .. BYTES /\ s + 1 \in 1 .. BYTE_BITS /\ (q + 1) - 1 = q
  BY <1>0, <1>1, <1>3
<1>5. k = ((q + 1) - 1) * BYTE_BITS + (s + 1)
  BY <1>0, <1>1, <1>2, <1>4
<1> QED
  BY <1>4, <1>5

\* The target of k whole bits is a power of two.
LEMMA TargetOfBits ==
  ASSUME NEW k \in 1 .. HASH_BITS - 1
  PROVE  target_from_fine(k * FP_ONE) = bytes_of(pow2[HASH_BITS - k])
<1> DEFINE x == HASH_BITS - k
           e == FP_ONE * x
<1>0. FP_ONE \in Nat /\ FP_ONE > 0 /\ HASH_BITS \in Nat /\ k \in Nat /\ x \in Nat
  BY Sizes
<1>1. exponent(k * FP_ONE) = e
  <2>1. FP_ONE <= k * FP_ONE /\ k * FP_ONE <= (HASH_BITS - 1) * FP_ONE
    <3>1. k >= 1 /\ HASH_BITS - 1 \in Nat /\ k <= HASH_BITS - 1
      BY <1>0
    <3>2. \A u, v, w \in Nat : u <= v => u * w <= v * w
      OBVIOUS
    <3>3. 1 * FP_ONE = FP_ONE
      BY <1>0
    <3> QED
      BY <1>0, <3>1, <3>2, <3>3
  <2>2. HASH_BITS * FP_ONE - k * FP_ONE = FP_ONE * (HASH_BITS - k)
    BY <1>0
  <2>3. k * FP_ONE \in Int /\ (HASH_BITS - 1) * FP_ONE \in Int
    BY <1>0
  <2> QED
    BY <1>0, <2>1, <2>2, <2>3 DEF exponent, clamp, lesser, greater
<1>2. e \div FP_ONE = x /\ e % FP_ONE = 0
  <2>1. 0 \in 0 .. FP_ONE - 1
    BY <1>0
  <2>2. e + 0 = e
    BY <1>0, Products
  <2> HIDE DEF x
  <2>3. (FP_ONE * x + 0) \div FP_ONE = x /\ (FP_ONE * x + 0) % FP_ONE = 0
    BY <1>0, <2>1, DivisionUnique
  <2> QED
    BY <2>2, <2>3
<1>3. mantissa(e) = FP_ONE
  BY <1>0, <1>2, FactorAssumption DEF mantissa
<1>4. pow2[x] \in Nat
  BY <1>0, Pow2Positive
<1>5. (FP_ONE * pow2[x]) \div FP_ONE = pow2[x]
  <2> DEFINE y == pow2[x]
  <2>1. y \in Nat /\ 0 \in 0 .. FP_ONE - 1
    BY <1>0, <1>4
  <2> HIDE DEF y
  <2>2. (FP_ONE * y + 0) \div FP_ONE = y /\ FP_ONE * y + 0 = FP_ONE * y
    BY <1>0, <2>1, DivisionUnique, Products
  <2> QED
    BY <2>2 DEF y
<1>6. target_number(exponent(k * FP_ONE)) = pow2[x]
  <2> HIDE DEF x, e
  <2> QED
    BY <1>1, <1>2, <1>3, <1>5 DEF target_number
<1> QED
  BY <1>6 DEF target_from_fine, target_number, exponent

\* At whole bits the two tests of a proof of work agree on every hash: below the
\* target of k bits are exactly the hashes with k leading zero bits.  So a chain
\* may switch from one test to the other, and a miner may use one of them where
\* its server uses the other.
THEOREM WholeBitsAgree ==
  ASSUME NEW hash \in Hashes, NEW k \in 1 .. HASH_BITS - 1
  PROVE  meets_target(hash, k * FP_ONE) <=> meets_difficulty(hash, k)
<1>0. /\ BYTES \in Nat /\ BYTE_BITS \in Nat /\ BYTE_BITS > 0 /\ HASH_BITS \in Nat
      /\ k \in 1 .. HASH_BITS /\ k \in Nat
  BY Sizes
<1>1. PICK i \in 1 .. BYTES, r \in 1 .. BYTE_BITS : k = (i - 1) * BYTE_BITS + r
  BY <1>0, LastByte
<1> DEFINE c == BYTE_BITS - r
           target == bytes_of(pow2[HASH_BITS - k])
<1>2. /\ HASH_BITS - k = BYTE_BITS * (BYTES - i) + c /\ c \in 0 .. BYTE_BITS - 1
      /\ \A j \in 1 .. BYTES : leading_bits(k, j) = IF j < i THEN BYTE_BITS ELSE IF j = i THEN r ELSE 0
  <2> DEFINE m == (i - 1) * BYTE_BITS + r
  <2>1. /\ HASH_BITS - m = BYTE_BITS * (BYTES - i) + (BYTE_BITS - r)
        /\ \A j \in 1 .. BYTES :
             leading_bits(m, j) = IF j < i THEN BYTE_BITS ELSE IF j = i THEN r ELSE 0
    BY BitsOfBytes
  <2>2. k = m
    BY <1>1
  <2> HIDE DEF m
  <2>3. BYTE_BITS - r \in 0 .. BYTE_BITS - 1
    BY <1>0
  <2> QED
    BY <2>1, <2>2, <2>3
<1>3. \A j \in 1 .. BYTES : target[j] = IF j = i THEN pow2[c] ELSE 0
  <2> HIDE DEF c
  <2> QED
    BY <1>2, BytesOfPower
<1>4. \A j \in 1 .. BYTES : hash[j] \in Nat /\ hash[j] < WIDTH
  BY <1>0, LeadingZeros
<1>5. i \in Nat /\ \A j \in 1 .. i - 1 : j \in 1 .. BYTES /\ j # i /\ j < i
  BY <1>0
<1> HIDE DEF target, c
<1>6. hash_below_target(hash, target) <=>
        hash[i] < pow2[c] /\ \A j \in 1 .. i - 1 : hash[j] = 0
  <2>1. ASSUME hash_below_target(hash, target)
        PROVE  hash[i] < pow2[c] /\ \A j \in 1 .. i - 1 : hash[j] = 0
    <3>1. PICK n \in 1 .. BYTES : hash[n] < target[n] /\ \A j \in 1 .. n - 1 : hash[j] = target[j]
      BY <2>1 DEF hash_below_target
    <3>2. n = i
      BY <1>3, <1>4, <3>1
    <3> QED
      BY <1>3, <1>5, <3>1, <3>2
  <2>2. ASSUME hash[i] < pow2[c], \A j \in 1 .. i - 1 : hash[j] = 0
        PROVE  hash_below_target(hash, target)
    BY <1>3, <1>5, <2>2 DEF hash_below_target
  <2> QED
    BY <2>1, <2>2
<1>7. meets_difficulty(hash, k) <=>
        hash[i] < pow2[c] /\ \A j \in 1 .. i - 1 : hash[j] = 0
  <2>1. meets_difficulty(hash, k) <=>
          \A j \in 1 .. BYTES : hash[j] < pow2[BYTE_BITS - leading_bits(k, j)]
    BY <1>0, LeadingZeros
  <2>2. \A j \in 1 .. BYTES :
          pow2[BYTE_BITS - leading_bits(k, j)] = IF j < i THEN 1 ELSE IF j = i THEN pow2[c] ELSE WIDTH
    <3> SUFFICES ASSUME NEW j \in 1 .. BYTES
                 PROVE  pow2[BYTE_BITS - leading_bits(k, j)]
                          = IF j < i THEN 1 ELSE IF j = i THEN pow2[c] ELSE WIDTH
      OBVIOUS
    <3>1. BYTE_BITS - BYTE_BITS = 0 /\ BYTE_BITS - 0 = BYTE_BITS
      BY <1>0
    <3> QED
      BY <1>2, <3>1, Pow2Unfold DEF c, WIDTH
  <2>3. \A j \in 1 .. BYTES : j < i => (hash[j] < 1 <=> hash[j] = 0)
    BY <1>4
  <2>4. \A j \in 1 .. BYTES : j < i => j \in 1 .. i - 1
    BY <1>5
  <2>5. i \in 1 .. BYTES /\ ~ (i < i)
    BY <1>5
  <2>6. \A j \in 1 .. BYTES : j < i \/ j = i \/ hash[j] < WIDTH
    BY <1>4
  <2> QED
    BY <1>5, <2>1, <2>2, <2>3, <2>4, <2>5, <2>6
<1>8. target_from_fine(k * FP_ONE) = target
  BY TargetOfBits DEF target
<1> QED
  BY <1>6, <1>7, <1>8 DEF meets_target

(***************************************************************************)
(* The inductive invariant of the miner.                                   *)
(***************************************************************************)

\* The node's rule as a function of what it looks at.
asks(k, h, a) ==
  IF k = "old node" THEN effective_difficulty_bits(BASE_BITS, h, a) * FP_ONE
  ELSE required(IF h <= FORK2_ACTIVATION_HEIGHT THEN BASE_BITS ELSE BASE_FP, h, a)

\* The server, and what the loop takes from it.
ServerInv ==
  /\ kind \in Servers /\ height \in 1 .. MaxHeight /\ age \in 0 .. MaxAge
  /\ pool_template.height \in 1 .. height /\ pool_template.fp \in Nat
  /\ claimed \subseteq Nonces
  /\ height = pool_template.height => node_asks <= pool_template.fp

LoopInv ==
  /\ stage \in {"fetch", "search", "submit", "sleep"}
  /\ sleep \in 0 .. greater(2, MIN_BLOCK_INTERVAL_SECS)
  /\ template.height \in 0 .. height /\ template.bits \in Nat
  /\ template.fp \in Nat \cup {NotSent}

\* The threads; one that still searches has a nonce left to try.
ThreadInv ==
  /\ thread \in [Threads -> [stage : {"search", "won", "stored", "done"},
                             nonce : Nonces, tried : 0 .. BATCH]]
  /\ \A t \in Threads : /\ thread[t].stage = "search" => thread[t].tried < BATCH
                        /\ stage # "search" => thread[t].stage = "done"

\* The nonce that a thread won with, and the one that is stored, are good ones of the
\* template: several threads may store, each a good nonce over the other's.
FoundInv ==
  /\ found_flag \in BOOLEAN /\ winning_nonce \in Nonces
  /\ \A t \in Threads : thread[t].stage \in {"won", "stored"} => passes(thread[t].nonce)
  /\ (\E t \in Threads : thread[t].stage = "stored") \/ found_flag => passes(winning_nonce)
  /\ stage = "submit" => found_flag

\* While the server's block is the one that is searched for, it asks for no more
\* than the template does; and up to Fork 2 a node's template asks for whole bits.
AsksNoMore ==
  /\ kind = "pool" => pool_difficulty_bits <= template.bits
  /\ kind = "old node" => node_asks <= template.bits * FP_ONE
  /\ kind = "node" => /\ node_asks <= template.fp
                      /\ fork2_active(height) \/ \E k \in 0 .. BASE_BITS : template.fp = k * FP_ONE

TemplateInv ==
  stage \in {"search", "submit"} =>
    /\ template.height \in 1 .. server_height /\ template.address = hash_address
    /\ template.fp \in IF kind = "node" THEN Nat ELSE {NotSent}
    /\ template.height = server_height => AsksNoMore

MinerInv == ServerInv /\ LoopInv /\ ThreadInv /\ FoundInv /\ TemplateInv

\* The miner's constants are numbers, and the next nonce, which wraps, is a nonce.
LEMMA MinerConstants ==
  /\ BASE_BITS \in Nat /\ BASE_FP \in Nat /\ MIN_BLOCK_INTERVAL_SECS \in Nat
  /\ POOL_DIFFICULTY_REDUCTION_BITS \in Nat /\ POOL_MIN_BITS \in Nat /\ MaxAge \in Nat
  /\ BATCH \in Nat /\ BATCH > 0 /\ MaxHeight \in Nat /\ MaxHeight > 0
  /\ 0 \in Nonces
  /\ \A n \in Nonces : (n + 1) % Cardinality(Nonces) \in Nonces
<1>1. Nonces = 0 .. Cardinality(Nonces) - 1 /\ Cardinality(Nonces) \in Nat /\ Nonces # {}
  BY MinerAssumption, FS_CardinalityType
<1> DEFINE c == Cardinality(Nonces)
<1> HIDE DEF c
<1>2. c \in Nat /\ Nonces = 0 .. c - 1 /\ c > 0
  BY <1>1 DEF c
<1>3. 0 \in Nonces /\ \A n \in Nonces : (n + 1) % c \in Nonces
  <2>1. \A x \in Nat : x % c \in 0 .. c - 1
    BY <1>2
  <2>2. \A n \in Nonces : n + 1 \in Nat
    BY <1>2
  <2> QED
    BY <1>2, <2>1, <2>2
<1>4. /\ {BASE_BITS, BASE_FP, MIN_BLOCK_INTERVAL_SECS, POOL_DIFFICULTY_REDUCTION_BITS, POOL_MIN_BITS,
          MaxAge} \subseteq Nat
      /\ {BATCH, MaxHeight} \subseteq Nat \ {0}
  BY MinerAssumption
<1>5. /\ BASE_BITS \in Nat /\ BASE_FP \in Nat /\ MIN_BLOCK_INTERVAL_SECS \in Nat
      /\ POOL_DIFFICULTY_REDUCTION_BITS \in Nat /\ POOL_MIN_BITS \in Nat /\ MaxAge \in Nat
      /\ BATCH \in Nat /\ BATCH > 0 /\ MaxHeight \in Nat /\ MaxHeight > 0
  BY <1>4
<1> QED
  BY <1>3, <1>5 DEF c

\* For one block the node asks less and less as time passes.
LEMMA Asks ==
  ASSUME NEW k, NEW h \in Nat, NEW a \in Nat, NEW b \in Nat, a <= b
  PROVE  /\ asks(k, h, a) \in Nat /\ asks(k, h, b) \in Nat
         /\ asks(k, h, b) <= asks(k, h, a)
<1> DEFINE base == IF h <= FORK2_ACTIVATION_HEIGHT THEN BASE_BITS ELSE BASE_FP
<1>1. base \in Nat /\ BASE_BITS \in Nat /\ FP_ONE \in Nat
  BY MinerConstants, Sizes
<1>2. CASE k = "old node"
  <2> DEFINE x == effective_difficulty_bits(BASE_BITS, h, a)
             y == effective_difficulty_bits(BASE_BITS, h, b)
  <2>1. x \in Nat /\ y \in Nat /\ y <= x
    <3>1. x \in 0 .. BASE_BITS /\ y \in 0 .. BASE_BITS /\ y <= x
      BY <1>1, EffectiveBits
    <3> QED
      BY <1>1, <3>1
  <2> HIDE DEF x, y
  <2>2. \A u, v, w \in Nat : u <= v => u * w \in Nat /\ v * w \in Nat /\ u * w <= v * w
    OBVIOUS
  <2>3. x * FP_ONE \in Nat /\ y * FP_ONE \in Nat /\ y * FP_ONE <= x * FP_ONE
    BY <1>1, <2>1, <2>2
  <2> QED
    BY <1>2, <2>3 DEF asks, x, y
<1>3. CASE k # "old node"
  <2> HIDE DEF base
  <2>1. /\ required(base, h, a) \in Nat /\ required(base, h, b) \in Nat
        /\ required(base, h, b) <= required(base, h, a)
    <3>1. a \in Int /\ b \in Int
      OBVIOUS
    <3> QED
      BY <1>1, <3>1, Required
  <2> QED
    BY <1>3, <2>1 DEF asks, base
<1> QED
  BY <1>2, <1>3

\* Up to Fork 2 the node asks for whole bits, no more than are stored.
LEMMA AsksWholeBits ==
  ASSUME NEW k \in Servers, NEW h \in Nat, NEW a \in Nat
  PROVE  ~ fork2_active(h) \/ k = "old node" =>
           \E n \in 0 .. BASE_BITS : asks(k, h, a) = n * FP_ONE
<1>1. effective_difficulty_bits(BASE_BITS, h, a) \in 0 .. BASE_BITS
  <2>1. a \in Int /\ a <= a /\ BASE_BITS \in Nat
    BY MinerConstants
  <2> QED
    BY <2>1, EffectiveBits
<1>2. ~ fork2_active(h) => h <= FORK2_ACTIVATION_HEIGHT
  <2>1. FORK2_ACTIVATION_HEIGHT \in Nat
    BY Constants_are_natural
  <2> QED
    BY <2>1 DEF fork2_active
<1>3. ~ fork2_active(h) \/ k = "old node" =>
        asks(k, h, a) = effective_difficulty_bits(BASE_BITS, h, a) * FP_ONE
  BY <1>2 DEF asks, required
<1> QED
  BY <1>1, <1>3

\* What a step does to the server.
Moved ==
  /\ kind' = kind
  /\ \/ pool_template' = pool_template /\ height' = height /\ age' \in Nat /\ age <= age'
     \/ pool_template' = pool_template /\ height' = height + 1
     \/ /\ pool_template' = [height |-> height, fp |-> node_asks]
        /\ height' = height /\ age' = age

\* The server as it is at first.
LEMMA ServerInit == Init => ServerInv
<1> SUFFICES ASSUME Init PROVE ServerInv
  OBVIOUS
<1>1. node_asks = asks(kind, 1, 0) /\ node_asks \in Nat
  <2>1. node_asks = asks(kind, 1, 0)
    BY DEF Init, node_asks, asks
  <2>2. asks(kind, 1, 0) \in Nat
    <3>1. 0 \in Nat /\ 1 \in Nat /\ 0 <= 0
      OBVIOUS
    <3> QED
      BY <3>1, Asks
  <2> QED
    BY <2>1, <2>2
<1> QED
  BY <1>1, MinerConstants DEF Init, ServerInv

\* The server's part of the invariant rests on itself alone: the pool's template is
\* as hard as the block it is for, or harder.
LEMMA ServerStep ==
  ASSUME ServerInv, Moved, height' \in 1 .. MaxHeight, age' \in 0 .. MaxAge,
         claimed' \subseteq Nonces
  PROVE  ServerInv'
<1>0. /\ kind \in Servers /\ height \in 1 .. MaxHeight /\ age \in 0 .. MaxAge
      /\ pool_template.height \in 1 .. height /\ pool_template.fp \in Nat
      /\ height = pool_template.height => node_asks <= pool_template.fp
  BY DEF ServerInv
<1>1. MaxHeight \in Nat /\ MaxAge \in Nat
  BY MinerConstants
<1>2. node_asks = asks(kind, height, age) /\ node_asks' = asks(kind', height', age') /\ kind' = kind
  BY DEF node_asks, asks, Moved
<1>3. node_asks \in Nat /\ node_asks' \in Nat
  BY <1>0, <1>1, <1>2, Asks
<1>4. CASE pool_template' = pool_template /\ height' = height /\ age' \in Nat /\ age <= age'
  <2>1. node_asks' <= node_asks
    BY <1>0, <1>1, <1>2, <1>4, Asks
  <2>2. height' = pool_template'.height => node_asks' <= pool_template'.fp
    BY <1>0, <1>3, <1>4, <2>1
  <2> QED
    BY <1>0, <1>2, <1>4, <2>2 DEF ServerInv
<1>5. CASE pool_template' = pool_template /\ height' = height + 1
  <2>1. pool_template'.height \in 1 .. height' /\ height' # pool_template'.height
    BY <1>0, <1>1, <1>5
  <2> QED
    BY <1>0, <1>2, <1>5, <2>1 DEF ServerInv
<1>6. CASE /\ pool_template' = [height |-> height, fp |-> node_asks]
           /\ height' = height /\ age' = age
  <2>1. /\ pool_template'.height = height /\ pool_template'.fp = node_asks
        /\ node_asks' = node_asks
    BY <1>2, <1>6
  <2> QED
    BY <1>0, <1>1, <1>2, <1>3, <1>6, <2>1 DEF ServerInv
<1> QED
  BY <1>4, <1>5, <1>6 DEF Moved

\* A template keeps asking for enough: the node only eases its rule until it has a
\* block, and then the template is for a block that is past.
LEMMA TemplateKept ==
  ASSUME ServerInv, ServerInv', LoopInv, TemplateInv, Moved, template' = template,
         stage' \in {"search", "submit"} => stage \in {"search", "submit"}
  PROVE  TemplateInv'
<1> SUFFICES ASSUME stage' \in {"search", "submit"}
             PROVE  /\ template'.height \in 1 .. server_height' /\ template'.address = hash_address'
                    /\ template'.fp \in IF kind' = "node" THEN Nat ELSE {NotSent}
                    /\ template'.height = server_height' => AsksNoMore'
  BY DEF TemplateInv, NotSent
<1>0. /\ height \in 1 .. MaxHeight /\ age \in 0 .. MaxAge
      /\ pool_template.height \in 1 .. height /\ pool_template.fp \in Nat
      /\ height = pool_template.height => node_asks <= pool_template.fp
      /\ template.bits \in Nat /\ MaxHeight \in Nat /\ MaxAge \in Nat
      /\ POOL_DIFFICULTY_REDUCTION_BITS \in Nat /\ POOL_MIN_BITS \in Nat /\ FP_ONE \in Nat /\ FP_ONE > 0
  BY MinerConstants, Sizes DEF ServerInv, LoopInv
<1>1. /\ template.height \in 1 .. server_height /\ template.address = hash_address
      /\ template.fp \in IF kind = "node" THEN Nat ELSE {NotSent}
      /\ template.height = server_height => AsksNoMore
  BY DEF TemplateInv
<1>2. kind' = kind
  BY DEF Moved
<1>3. hash_address' = hash_address
  BY <1>2 DEF hash_address
<1>4. node_asks = asks(kind, height, age) /\ node_asks' = asks(kind', height', age')
  BY DEF node_asks, asks
<1>5. node_asks \in Nat /\ template.bits * FP_ONE \in Nat
  BY <1>0, <1>4, Asks, Products
<1>6. server_height \in Nat /\ server_height' \in Nat /\ server_height <= server_height'
  BY <1>0, <1>2 DEF Moved, server_height
<1>7. ASSUME template.height = server_height'
      PROVE  AsksNoMore'
  <2>1. server_height' = server_height /\ AsksNoMore
    BY <1>1, <1>6, <1>7
  <2>2. CASE kind = "pool"
    <3>1. pool_template'.height = pool_template.height
      BY <1>2, <2>1, <2>2 DEF server_height
    <3>2. pool_template'.fp \in Nat /\ pool_template'.fp <= pool_template.fp
      BY <1>0, <1>5, <3>1 DEF Moved
    <3>3. pool_difficulty_bits' <= pool_difficulty_bits /\ pool_difficulty_bits \in Nat
          /\ pool_difficulty_bits' \in Nat
      <4> DEFINE x == pool_template.fp \div FP_ONE
                 y == pool_template'.fp \div FP_ONE
      <4>1. x \in Nat /\ y \in Nat /\ y <= x
        BY <1>0, <3>2, DivisionMonotonic
      <4>2. /\ pool_difficulty_bits = greater(x - POOL_DIFFICULTY_REDUCTION_BITS, POOL_MIN_BITS)
            /\ pool_difficulty_bits' = greater(y - POOL_DIFFICULTY_REDUCTION_BITS, POOL_MIN_BITS)
        BY DEF pool_difficulty_bits, greater
      <4> HIDE DEF x, y
      <4> QED
        BY <1>0, <4>1, <4>2 DEF greater
    <3>4. pool_difficulty_bits' <= template'.bits
      BY <1>0, <2>1, <2>2, <3>3 DEF AsksNoMore
    <3> QED
      BY <1>2, <2>2, <3>4 DEF AsksNoMore
  <2>3. CASE kind # "pool"
    <3>1. height' = height /\ age' \in Nat /\ age <= age'
      BY <1>0, <1>2, <2>1, <2>3 DEF server_height, Moved
    <3>2. node_asks' \in Nat /\ node_asks' <= node_asks
      BY <1>0, <1>2, <1>4, <3>1, Asks
    <3>3. kind = "old node" => node_asks' <= template'.bits * FP_ONE
      <4> DEFINE m == template.bits * FP_ONE
      <4>0. SUFFICES ASSUME kind = "old node" PROVE node_asks' <= m
        OBVIOUS
      <4>1. node_asks <= m
        BY <2>1, <4>0 DEF AsksNoMore
      <4>2. m \in Nat /\ m = template'.bits * FP_ONE
        BY <1>5
      <4> HIDE DEF m
      <4> QED
        BY <1>5, <3>2, <4>1, <4>2
    <3>4. kind = "node" => node_asks' <= template'.fp
      BY <1>1, <1>5, <2>1, <3>2 DEF AsksNoMore
    <3>5. kind = "node" => \/ fork2_active(height')
                           \/ \E k \in 0 .. BASE_BITS : template'.fp = k * FP_ONE
      BY <2>1, <3>1 DEF AsksNoMore
    <3> QED
      BY <1>2, <2>3, <3>3, <3>4, <3>5 DEF AsksNoMore, fork2_active
  <2> QED
    BY <2>2, <2>3
<1> QED
  BY <1>0, <1>1, <1>2, <1>3, <1>6, <1>7

(***************************************************************************)
(* The invariant is inductive.                                             *)
(***************************************************************************)

\* What is a good nonce depends on the template alone.
LEMMA PassesKept ==
  ASSUME template' = template
  PROVE  \A n : passes(n)' <=> passes(n)
  BY DEF passes, good, NotSent

\* The invariant holds before the first template.
LEMMA MinerInit == Init => MinerInv
<1> SUFFICES ASSUME Init PROVE MinerInv
  OBVIOUS
<1>1. ServerInv
  BY ServerInit
<1>2. LoopInv
  BY MinerConstants DEF Init, LoopInv, NotSent, greater
<1>3. ThreadInv
  BY MinerConstants DEF Init, ThreadInv, resting
<1>4. FoundInv
  BY MinerConstants DEF Init, FoundInv, resting
<1>5. TemplateInv
  BY DEF Init, TemplateInv
<1> QED
  BY <1>1, <1>2, <1>3, <1>4, <1>5 DEF MinerInv

\* Steps that leave threads and template alone, and begin no search: the server's,
\* and the loop's after a search.
LEMMA OutsideSearch ==
  ASSUME MinerInv, Moved, height' \in 1 .. MaxHeight, age' \in 0 .. MaxAge,
         claimed' \subseteq Nonces, template' = template, UNCHANGED search,
         sleep' \in 0 .. greater(2, MIN_BLOCK_INTERVAL_SECS),
         stage' = stage \/ (stage # "search" /\ stage' \in {"fetch", "sleep"})
  PROVE  MinerInv'
<1>0. ServerInv /\ LoopInv /\ ThreadInv /\ FoundInv /\ TemplateInv
  BY DEF MinerInv
<1>1. ServerInv'
  BY <1>0, ServerStep
<1>2. TemplateInv'
  BY <1>0, <1>1, TemplateKept
<1>3. LoopInv'
  <2>1. height \in Nat /\ height' \in Nat /\ height <= height'
    BY <1>0, MinerConstants DEF ServerInv, Moved
  <2>2. template.height \in 0 .. height'
    BY <1>0, <2>1 DEF LoopInv
  <2> QED
    BY <1>0, <2>2 DEF LoopInv, NotSent, greater
<1>4. ThreadInv'
  BY <1>0 DEF ThreadInv, search
<1>5. FoundInv'
  BY <1>0, PassesKept DEF FoundInv, search
<1> QED
  BY <1>1, <1>2, <1>3, <1>4, <1>5 DEF MinerInv

\* Steps of the threads, and their join, leave server and template alone.
LEMMA InSearch ==
  ASSUME MinerInv, UNCHANGED server, template' = template, sleep' = sleep,
         stage' = stage \/ (stage = "search" /\ stage' \in {"fetch", "submit"})
  PROVE  ServerInv' /\ LoopInv' /\ TemplateInv'
<1>0. ServerInv /\ LoopInv /\ TemplateInv
  BY DEF MinerInv
<1>1. /\ height \in 1 .. MaxHeight /\ age \in 0 .. MaxAge /\ claimed \subseteq Nonces
      /\ age \in Nat /\ age <= age
  BY <1>0, MinerConstants DEF ServerInv
<1>2. Moved /\ height' \in 1 .. MaxHeight /\ age' \in 0 .. MaxAge /\ claimed' \subseteq Nonces
  BY <1>1 DEF Moved, server, pool
<1>3. ServerInv'
  BY <1>0, <1>2, ServerStep
<1>4. TemplateInv'
  BY <1>0, <1>2, <1>3, TemplateKept
<1>5. LoopInv'
  BY <1>0 DEF LoopInv, server, NotSent, greater
<1> QED
  BY <1>3, <1>4, <1>5

\* A thread wins with a good nonce only, and stops after its batch.
LEMMA TryStep ==
  ASSUME MinerInv, NEW t \in Threads, Try(t)
  PROVE  MinerInv'
<1>0. ThreadInv /\ FoundInv
  BY DEF MinerInv
<1> DEFINE me == thread[t]
           next == IF found_flag THEN [me EXCEPT !.stage = "done"]
                   ELSE IF passes(me.nonce) THEN [me EXCEPT !.stage = "won"]
                   ELSE [me EXCEPT !.nonce = (me.nonce + 1) % Cardinality(Nonces),
                                   !.tried = @ + 1,
                                   !.stage = IF batch_done(me.tried + 1) THEN "done" ELSE "search"]
<1>1. /\ me.stage = "search" /\ thread' = [thread EXCEPT ![t] = next]
      /\ UNCHANGED <<server, stage, template, found_flag, winning_nonce, sleep>>
  BY DEF Try
<1>2. ServerInv' /\ LoopInv' /\ TemplateInv'
  <2>1. UNCHANGED server /\ template' = template /\ sleep' = sleep
    BY <1>1
  <2>2. stage' = stage \/ (stage = "search" /\ stage' \in {"fetch", "submit"})
    <3>1. stage' = stage
      BY <1>1
    <3> QED
      BY <3>1
  <2> QED
    BY <2>1, <2>2, InSearch
<1>3. /\ me \in [stage : {"search", "won", "stored", "done"}, nonce : Nonces, tried : 0 .. BATCH]
      /\ me.tried < BATCH /\ stage = "search"
  BY <1>0, <1>1 DEF ThreadInv
<1> HIDE DEF me
<1>4. /\ next \in [stage : {"search", "won", "stored", "done"}, nonce : Nonces, tried : 0 .. BATCH]
      /\ next.stage = "search" => next.tried < BATCH
      /\ next.stage # "stored"
      /\ next.stage = "won" => passes(next.nonce)
  <2>0. BATCH \in Nat /\ (me.nonce + 1) % Cardinality(Nonces) \in Nonces
    BY <1>3, MinerConstants
  <2>1. CASE found_flag
    BY <1>3, <2>1
  <2>2. CASE ~ found_flag /\ passes(me.nonce)
    BY <1>3, <2>2
  <2>3. CASE ~ found_flag /\ ~ passes(me.nonce)
    <3>1. next = [stage |-> IF batch_done(me.tried + 1) THEN "done" ELSE "search",
                  nonce |-> (me.nonce + 1) % Cardinality(Nonces), tried |-> me.tried + 1]
      BY <1>3, <2>3
    <3>2. me.tried + 1 \in 0 .. BATCH /\ (~ batch_done(me.tried + 1) => me.tried + 1 < BATCH)
      BY <1>3, <2>0 DEF batch_done
    <3> QED
      BY <2>0, <3>1, <3>2
  <2> QED
    BY <2>1, <2>2, <2>3
<1> HIDE DEF next
<1>5. ThreadInv'
  BY <1>0, <1>1, <1>3, <1>4 DEF ThreadInv
<1>6. FoundInv'
  <2>1. \A n : passes(n)' <=> passes(n)
    BY <1>1, PassesKept
  <2>2. \A u \in Threads : thread'[u] = IF u = t THEN next ELSE thread[u]
    BY <1>0, <1>1 DEF ThreadInv
  <2>3. \A u \in Threads : thread'[u].stage \in {"won", "stored"} => passes(thread'[u].nonce)
    BY <1>0, <1>4, <2>2 DEF FoundInv
  <2>4. (\E u \in Threads : thread'[u].stage = "stored") \/ found_flag => passes(winning_nonce)
    BY <1>0, <1>4, <2>2 DEF FoundInv
  <2> QED
    BY <1>0, <1>1, <2>1, <2>3, <2>4 DEF FoundInv
<1> QED
  BY <1>2, <1>5, <1>6 DEF MinerInv

\* What is stored over another nonce is as good.
LEMMA StoreNonceStep ==
  ASSUME MinerInv, NEW t \in Threads, StoreNonce(t)
  PROVE  MinerInv'
<1>0. ThreadInv /\ FoundInv
  BY DEF MinerInv
<1>1. /\ thread[t].stage = "won" /\ winning_nonce' = thread[t].nonce
      /\ thread' = [thread EXCEPT ![t].stage = "stored"]
      /\ UNCHANGED <<server, stage, template, found_flag, sleep>>
  BY DEF StoreNonce
<1>2. ServerInv' /\ LoopInv' /\ TemplateInv'
  <2>1. UNCHANGED server /\ template' = template /\ sleep' = sleep
    BY <1>1
  <2>2. stage' = stage \/ (stage = "search" /\ stage' \in {"fetch", "submit"})
    <3>1. stage' = stage
      BY <1>1
    <3> QED
      BY <3>1
  <2> QED
    BY <2>1, <2>2, InSearch
<1>3. stage = "search" /\ thread[t].nonce \in Nonces /\ passes(thread[t].nonce)
  BY <1>0, <1>1 DEF ThreadInv, FoundInv
<1>4. ThreadInv'
  BY <1>0, <1>1, <1>3 DEF ThreadInv
<1>5. FoundInv'
  <2>1. \A n : passes(n)' <=> passes(n)
    BY <1>1, PassesKept
  <2>2. \A u \in Threads : /\ thread'[u].nonce = thread[u].nonce
                           /\ u # t => thread'[u].stage = thread[u].stage
    BY <1>0, <1>1 DEF ThreadInv
  <2>3. \A u \in Threads : thread'[u].stage \in {"won", "stored"} => passes(thread'[u].nonce)
    BY <1>0, <1>3, <2>2 DEF FoundInv
  <2> QED
    BY <1>0, <1>1, <1>3, <2>1, <2>3 DEF FoundInv
<1> QED
  BY <1>2, <1>4, <1>5 DEF MinerInv

\* The flag is raised over a good nonce.
LEMMA StoreFlagStep ==
  ASSUME MinerInv, NEW t \in Threads, StoreFlag(t)
  PROVE  MinerInv'
<1>0. ThreadInv /\ FoundInv
  BY DEF MinerInv
<1>1. /\ thread[t].stage = "stored" /\ found_flag' = TRUE
      /\ thread' = [thread EXCEPT ![t].stage = "done"]
      /\ UNCHANGED <<server, stage, template, winning_nonce, sleep>>
  BY DEF StoreFlag
<1>2. ServerInv' /\ LoopInv' /\ TemplateInv'
  <2>1. UNCHANGED server /\ template' = template /\ sleep' = sleep
    BY <1>1
  <2>2. stage' = stage \/ (stage = "search" /\ stage' \in {"fetch", "submit"})
    <3>1. stage' = stage
      BY <1>1
    <3> QED
      BY <3>1
  <2> QED
    BY <2>1, <2>2, InSearch
<1>3. stage = "search" /\ passes(winning_nonce)
  BY <1>0, <1>1 DEF ThreadInv, FoundInv
<1>4. ThreadInv'
  BY <1>0, <1>1, <1>3 DEF ThreadInv
<1>5. FoundInv'
  <2>1. \A n : passes(n)' <=> passes(n)
    BY <1>1, PassesKept
  <2>2. \A u \in Threads : /\ thread'[u].nonce = thread[u].nonce
                           /\ thread'[u].stage = IF u = t THEN "done" ELSE thread[u].stage
    BY <1>0, <1>1 DEF ThreadInv
  <2>3. \A u \in Threads : thread'[u].stage \in {"won", "stored"} => passes(thread'[u].nonce)
    BY <1>0, <2>2 DEF FoundInv
  <2> QED
    BY <1>0, <1>1, <1>3, <2>1, <2>3 DEF FoundInv
<1> QED
  BY <1>2, <1>4, <1>5 DEF MinerInv

\* When all threads are joined, the flag tells whether the nonce is a good one.
LEMMA JoinStep ==
  ASSUME MinerInv, Join
  PROVE  MinerInv'
<1>0. ThreadInv /\ FoundInv
  BY DEF MinerInv
<1>1. /\ stage = "search" /\ stage' = IF found_flag THEN "submit" ELSE "fetch"
      /\ thread' = resting
      /\ UNCHANGED <<server, template, found_flag, winning_nonce, sleep>>
  BY DEF Join
<1>2. ServerInv' /\ LoopInv' /\ TemplateInv'
  BY <1>1, InSearch
<1>3. ThreadInv'
  BY <1>1, MinerConstants DEF ThreadInv, resting
<1>4. FoundInv'
  BY <1>0, <1>1, PassesKept DEF FoundInv, resting
<1> QED
  BY <1>2, <1>3, <1>4 DEF MinerInv

\* A template asks for what the server asks for, in bits rounded up.
LEMMA FetchStep ==
  ASSUME MinerInv, Fetch
  PROVE  MinerInv'
<1>0. ServerInv /\ LoopInv
  BY DEF MinerInv
<1> DEFINE bits == IF kind = "pool" THEN pool_difficulty_bits ELSE ceil_bits(node_asks)
           fp == IF kind = "node" THEN node_asks ELSE NotSent
<1>1. /\ stage = "fetch" /\ stage' = "search"
      /\ template' = [height |-> server_height, address |-> hash_address, bits |-> bits, fp |-> fp]
      /\ thread' \in [Threads -> {[stage |-> "search", nonce |-> n, tried |-> 0] : n \in Nonces}]
      /\ found_flag' = FALSE /\ winning_nonce' = 0
      /\ UNCHANGED <<server, sleep>>
  BY DEF Fetch, flag_at_start
<1>2. /\ height \in 1 .. MaxHeight /\ age \in 0 .. MaxAge /\ claimed \subseteq Nonces
      /\ height \in Nat /\ age \in Nat /\ age <= age /\ kind \in Servers
      /\ pool_template.height \in 1 .. height /\ pool_template.fp \in Nat
      /\ FP_ONE \in Nat /\ FP_ONE > 0
      /\ POOL_DIFFICULTY_REDUCTION_BITS \in Nat /\ POOL_MIN_BITS \in Nat
  BY <1>0, MinerConstants, Sizes DEF ServerInv
<1>3. node_asks = asks(kind, height, age)
  BY DEF node_asks, asks
<1>4. node_asks \in Nat
  BY <1>2, <1>3, Asks
<1>5. /\ kind' = kind /\ height' = height /\ server_height' = server_height
      /\ hash_address' = hash_address /\ node_asks' = node_asks
      /\ pool_difficulty_bits' = pool_difficulty_bits
  BY <1>1 DEF server, pool, server_height, hash_address, node_asks, pool_difficulty_bits
<1>6. ServerInv'
  <2>1. Moved /\ height' \in 1 .. MaxHeight /\ age' \in 0 .. MaxAge /\ claimed' \subseteq Nonces
    BY <1>1, <1>2 DEF Moved, server, pool
  <2> QED
    BY <1>0, <2>1, ServerStep
<1>7. bits \in Nat /\ (kind = "pool" => pool_difficulty_bits <= bits)
      /\ (kind = "old node" => node_asks <= bits * FP_ONE)
  <2>1. pool_difficulty_bits \in Nat
    <3> DEFINE x == pool_template.fp \div FP_ONE
    <3>1. x \in Nat
      BY <1>2, DivisionMonotonic
    <3>2. pool_difficulty_bits = greater(x - POOL_DIFFICULTY_REDUCTION_BITS, POOL_MIN_BITS)
      BY DEF pool_difficulty_bits
    <3> HIDE DEF x
    <3> QED
      BY <1>2, <3>1, <3>2 DEF greater
  <2>2. ceil_bits(node_asks) \in Nat /\ node_asks <= ceil_bits(node_asks) * FP_ONE
    <3> DEFINE x == node_asks
               y == x + FP_ONE - 1
    <3>1. x \in Nat /\ y \in Nat /\ y <= y
      BY <1>2, <1>4
    <3> HIDE DEF x
    <3>2. ceil_bits(x) = y \div FP_ONE /\ x <= ceil_bits(x) * FP_ONE
      BY <3>1, CeilBits DEF ceil_bits
    <3> HIDE DEF y
    <3>3. y \div FP_ONE \in Nat
      BY <1>2, <3>1, DivisionMonotonic
    <3> QED
      BY <3>2, <3>3 DEF x
  <2>3. CASE kind = "pool"
    <3>1. bits = pool_difficulty_bits
      BY <2>3
    <3> QED
      BY <2>1, <2>3, <3>1
  <2>4. CASE kind # "pool"
    <3>1. bits = ceil_bits(node_asks)
      BY <2>4
    <3> HIDE DEF bits
    <3> QED
      BY <2>2, <2>4, <3>1
  <2> QED
    BY <2>3, <2>4
<1>8. /\ fp \in IF kind = "node" THEN Nat ELSE {NotSent}
      /\ kind = "node" => /\ node_asks <= fp
                          /\ fork2_active(height) \/ \E k \in 0 .. BASE_BITS : fp = k * FP_ONE
  <2>1. CASE kind = "node"
    <3>1. ~ fork2_active(height) => \E k \in 0 .. BASE_BITS : asks(kind, height, age) = k * FP_ONE
      BY <1>2, AsksWholeBits
    <3>2. fp = node_asks
      BY <2>1
    <3> HIDE DEF fp
    <3>3. fp <= fp
      BY <1>4, <3>2
    <3> QED
      BY <1>3, <1>4, <2>1, <3>1, <3>2, <3>3
  <2>2. CASE kind # "node"
    BY <2>2
  <2> QED
    BY <2>1, <2>2
<1> HIDE DEF bits, fp
<1>9. /\ template'.height = server_height /\ template'.address = hash_address
      /\ template'.bits = bits /\ template'.fp = fp
  BY <1>1
<1>10. LoopInv'
  <2>1. server_height \in 1 .. height
    BY <1>2 DEF server_height
  <2>2. template'.height \in 0 .. height' /\ template'.bits \in Nat /\ template'.fp \in Nat \cup {NotSent}
    <3>1. template'.height \in 0 .. height'
      BY <1>2, <1>5, <1>9, <2>1
    <3>2. template'.bits \in Nat
      BY <1>7, <1>9
    <3>3. template'.fp \in Nat \cup {NotSent}
      <4>1. fp \in Nat \/ fp = NotSent
        BY <1>8
      <4> QED
        BY <1>9, <4>1
    <3> QED
      BY <3>1, <3>2, <3>3
  <2> QED
    BY <1>0, <1>1, <2>2 DEF LoopInv, NotSent, greater
<1>11. ThreadInv'
  <2>1. ASSUME NEW t \in Threads
        PROVE  /\ thread'[t] \in [stage : {"search", "won", "stored", "done"},
                                  nonce : Nonces, tried : 0 .. BATCH]
               /\ thread'[t].tried < BATCH /\ thread'[t].stage = "search"
    <3>1. PICK n \in Nonces : thread'[t] = [stage |-> "search", nonce |-> n, tried |-> 0]
      BY <1>1
    <3> QED
      BY <3>1, MinerConstants
  <2>2. thread' \in [Threads -> [stage : {"search", "won", "stored", "done"},
                                 nonce : Nonces, tried : 0 .. BATCH]]
    BY <1>1, <2>1
  <2> QED
    BY <1>1, <2>1, <2>2 DEF ThreadInv
<1>12. FoundInv'
  <2>1. \A t \in Threads : thread'[t].stage = "search"
    BY <1>1
  <2> QED
    BY <1>1, <2>1, MinerConstants DEF FoundInv
<1>13. TemplateInv'
  <2>1. AsksNoMore'
    BY <1>5, <1>7, <1>8, <1>9 DEF AsksNoMore, fork2_active
  <2>2. server_height \in Nat /\ template'.height \in 1 .. server_height'
    BY <1>2, <1>5, <1>9 DEF server_height
  <2>3. template'.fp \in IF kind' = "node" THEN Nat ELSE {NotSent}
    BY <1>5, <1>8, <1>9
  <2> QED
    BY <1>5, <1>9, <2>1, <2>2, <2>3 DEF TemplateInv, NotSent
<1> QED
  BY <1>6, <1>10, <1>11, <1>12, <1>13 DEF MinerInv

\* A submission moves a node one block on, or adds to the pool's list, or neither.
LEMMA Served ==
  ASSUME ServerInv, NEW n \in Nonces, served(n)
  PROVE  /\ Moved /\ height' \in 1 .. MaxHeight /\ age' \in 0 .. MaxAge
         /\ claimed' \subseteq Nonces
<1>0. /\ height \in 1 .. MaxHeight /\ age \in 0 .. MaxAge /\ claimed \subseteq Nonces
      /\ MaxHeight \in Nat /\ MaxAge \in Nat
  BY MinerConstants DEF ServerInv
<1>1. /\ kind' = kind /\ pool_template' = pool_template
      /\ claimed' = claimed \/ claimed' = claimed \cup {n}
  BY DEF served
<1>2. \/ height < MaxHeight /\ height' = height + 1 /\ age' = 0
      \/ height' = height /\ age' = age
  BY DEF served
<1>3. CASE height < MaxHeight /\ height' = height + 1 /\ age' = 0
  BY <1>0, <1>1, <1>3 DEF Moved
<1>4. CASE height' = height /\ age' = age
  <2>1. age' \in Nat /\ age <= age'
    BY <1>0, <1>4
  <2> QED
    BY <1>0, <1>1, <1>4, <2>1 DEF Moved
<1> QED
  BY <1>2, <1>3, <1>4

\* Every step of miner and server keeps the invariant.
LEMMA MinerStep ==
  ASSUME MinerInv, [Next]_vars
  PROVE  MinerInv'
<1> DEFINE longest == greater(2, MIN_BLOCK_INTERVAL_SECS)
<1>0. ServerInv /\ LoopInv /\ FoundInv
  BY DEF MinerInv
<1>1. /\ height \in 1 .. MaxHeight /\ age \in 0 .. MaxAge /\ claimed \subseteq Nonces
      /\ MaxHeight \in Nat /\ MaxAge \in Nat /\ MIN_BLOCK_INTERVAL_SECS \in Nat
      /\ winning_nonce \in Nonces /\ sleep \in 0 .. longest
      /\ longest \in Nat /\ longest >= 2 /\ longest >= MIN_BLOCK_INTERVAL_SECS
  BY <1>0, MinerConstants DEF ServerInv, LoopInv, FoundInv, greater
<1> HIDE DEF longest
<1>2. ASSUME NEW t \in Threads, Try(t) \/ StoreNonce(t) \/ StoreFlag(t)
      PROVE  MinerInv'
  BY <1>2, TryStep, StoreNonceStep, StoreFlagStep
<1>3. CASE Fetch
  BY <1>3, FetchStep
<1>4. CASE Join
  BY <1>4, JoinStep
<1>5. CASE Submit
  <2>1. /\ stage = "submit" /\ served(winning_nonce) /\ template' = template /\ UNCHANGED search
        /\ \/ stage' = "fetch" /\ sleep' = 0
           \/ stage' = "sleep" /\ sleep' = wait_secs
    BY <1>5 DEF Submit
  <2>2. wait_secs \in 0 .. longest
    BY <1>1 DEF wait_secs, too_early
  <2>3. sleep' \in 0 .. longest
    BY <1>1, <2>1, <2>2
  <2> QED
    BY <1>0, <1>1, <2>1, <2>3, Served, OutsideSearch DEF longest
<1>6. CASE SubmitFails
  <2>1. /\ stage = "submit" /\ stage' = "fetch" /\ template' = template /\ UNCHANGED search
        /\ sleep' = sleep
    BY <1>6 DEF SubmitFails
  <2>2. /\ Moved /\ height' \in 1 .. MaxHeight /\ age' \in 0 .. MaxAge
        /\ claimed' \subseteq Nonces
    <3>1. CASE served(winning_nonce)
      BY <1>0, <1>1, <3>1, Served
    <3>2. CASE UNCHANGED server
      BY <1>1, <3>2 DEF Moved, server, pool
    <3> QED
      BY <1>6, <3>1, <3>2 DEF SubmitFails
  <2> QED
    BY <1>1, <2>1, <2>2, OutsideSearch DEF longest
<1>7. CASE Wake
  <2>1. /\ stage = "sleep" /\ stage' = "fetch" /\ sleep' = 0
        /\ UNCHANGED <<server, template, search>>
    BY <1>7 DEF Wake, after_refusal
  <2>2. /\ Moved /\ height' \in 1 .. MaxHeight /\ age' \in 0 .. MaxAge
        /\ claimed' \subseteq Nonces /\ sleep' \in 0 .. longest
    BY <1>1, <2>1 DEF Moved, server, pool
  <2> QED
    BY <2>1, <2>2, OutsideSearch DEF longest
<1>8. CASE NodeMines
  <2>1. /\ height < MaxHeight /\ height' = height + 1 /\ age' = 0
        /\ UNCHANGED <<kind, pool, stage, template, search, sleep>>
    BY <1>8 DEF NodeMines
  <2>2. /\ Moved /\ height' \in 1 .. MaxHeight /\ age' \in 0 .. MaxAge
        /\ claimed' \subseteq Nonces /\ sleep' \in 0 .. longest
    BY <1>1, <2>1 DEF Moved, pool
  <2>4. stage' = stage \/ (stage # "search" /\ stage' \in {"fetch", "sleep"})
    <3>1. stage' = stage
      BY <2>1
    <3> QED
      BY <3>1
  <2>5. template' = template /\ UNCHANGED search
    BY <2>1
  <2> QED
    BY <2>2, <2>4, <2>5, OutsideSearch DEF longest
<1>9. CASE RefreshTemplate
  <2>1. /\ pool_template' = [height |-> height, fp |-> node_asks]
        /\ claimed' = IF height = pool_template.height THEN claimed ELSE {}
        /\ UNCHANGED <<kind, height, age, stage, template, search, sleep>>
    BY <1>9 DEF RefreshTemplate
  <2>2. /\ Moved /\ height' \in 1 .. MaxHeight /\ age' \in 0 .. MaxAge
        /\ claimed' \subseteq Nonces /\ sleep' \in 0 .. longest
    BY <1>1, <2>1 DEF Moved
  <2>4. stage' = stage \/ (stage # "search" /\ stage' \in {"fetch", "sleep"})
    <3>1. stage' = stage
      BY <2>1
    <3> QED
      BY <3>1
  <2>5. template' = template /\ UNCHANGED search
    BY <2>1
  <2> QED
    BY <2>2, <2>4, <2>5, OutsideSearch DEF longest
<1>10. CASE Tick
  <2>1. /\ age < MaxAge /\ age' = age + 1 /\ sleep' = greater(sleep - 1, 0)
        /\ UNCHANGED <<kind, height, pool, stage, template, search>>
    BY <1>10 DEF Tick
  <2>2. sleep' \in 0 .. longest
    BY <1>1, <2>1 DEF greater
  <2>3. /\ Moved /\ height' \in 1 .. MaxHeight /\ age' \in 0 .. MaxAge
        /\ claimed' \subseteq Nonces
    BY <1>1, <2>1 DEF Moved, pool
  <2>4. stage' = stage \/ (stage # "search" /\ stage' \in {"fetch", "sleep"})
    <3>1. stage' = stage
      BY <2>1
    <3> QED
      BY <3>1
  <2>5. template' = template /\ UNCHANGED search
    BY <2>1
  <2> QED
    BY <2>2, <2>3, <2>4, <2>5, OutsideSearch DEF longest
<1>11. CASE UNCHANGED vars
  <2>1. UNCHANGED <<server, stage, template, search, sleep>>
    BY <1>11 DEF vars
  <2>2. /\ Moved /\ height' \in 1 .. MaxHeight /\ age' \in 0 .. MaxAge
        /\ claimed' \subseteq Nonces /\ sleep' \in 0 .. longest
    BY <1>1, <2>1 DEF Moved, server, pool
  <2>4. stage' = stage \/ (stage # "search" /\ stage' \in {"fetch", "sleep"})
    <3>1. stage' = stage
      BY <2>1
    <3> QED
      BY <3>1
  <2>5. template' = template /\ UNCHANGED search
    BY <2>1
  <2> QED
    BY <2>2, <2>4, <2>5, OutsideSearch DEF longest
<1> QED
  BY <1>2, <1>3, <1>4, <1>5, <1>6, <1>7, <1>8, <1>9, <1>10, <1>11 DEF Next

\* So it holds in every state.
LEMMA MinerInvariant == Spec => []MinerInv
<1>1. MinerInv /\ [Next]_vars => MinerInv'
  BY MinerStep
<1> QED
  BY <1>1, MinerInit, PTL DEF Spec

(***************************************************************************)
(* What the invariant gives.                                               *)
(***************************************************************************)

\* Loop, threads and server keep their shapes: no thread runs outside a search, and
\* no nonce, count or wait leaves its range.
THEOREM MinerTypeOK == Spec => []TypeOK
<1>1. MinerInv => TypeOK
  <2> SUFFICES ASSUME MinerInv PROVE TypeOK
    OBVIOUS
  <2>1. ServerInv /\ LoopInv /\ ThreadInv /\ FoundInv
    BY DEF MinerInv
  <2> QED
    BY <2>1 DEF TypeOK, ServerInv, LoopInv, ThreadInv, FoundInv
<1> QED
  BY <1>1, MinerInvariant, PTL

\* However many threads search and in whatever order they store a nonce and raise the
\* flag, what is read after the join is a nonce that passes the template's test.
THEOREM MinerSubmitsWhatItFound == Spec => []SubmitsWhatItFound
<1>1. MinerInv => SubmitsWhatItFound
  BY DEF MinerInv, FoundInv, SubmitsWhatItFound
<1> QED
  BY <1>1, MinerInvariant, PTL

\* A difficulty of 0 bits is met by every hash.
LEMMA NoBits ==
  ASSUME NEW hash \in Hashes
  PROVE  meets_difficulty(hash, 0)
<1> SUFFICES ASSUME NEW i \in 1 .. BYTES
             PROVE  hash[i] < pow2[BYTE_BITS - leading_bits(0, i)]
  <2>1. 0 \in Nat
    OBVIOUS
  <2> QED
    BY <2>1, LeadingZeros
<1>1. leading_bits(0, i) = 0
  <2>1. i - 1 \in Nat /\ BYTE_BITS \in Nat
    BY Sizes
  <2>2. (i - 1) * BYTE_BITS \in Nat
    BY <2>1, Products
  <2> QED
    BY <2>1, <2>2 DEF leading_bits, clamp, lesser, greater
<1>2. hash[i] \in Nat /\ hash[i] < WIDTH
  <2>1. 0 \in Nat
    OBVIOUS
  <2> QED
    BY <2>1, LeadingZeros
<1>3. BYTE_BITS - 0 = BYTE_BITS
  BY Sizes
<1> QED
  BY <1>1, <1>2, <1>3 DEF WIDTH

\* No work is lost to a test: while the server has not moved on, what passes the
\* template's test passes the server's, for every hash and every history of the
\* chain, whichever of the two tests each of them uses.
THEOREM MinerRefusedOnlyIfMovedOn == Spec => []RefusedOnlyIfMovedOn
<1>1. MinerInv => RefusedOnlyIfMovedOn
  <2> SUFFICES ASSUME MinerInv, stage = "submit", template.height = server_height
               PROVE  IF kind = "pool" THEN takes(winning_nonce) \/ winning_nonce \in claimed
                      ELSE \A hash \in Hashes : good(hash) => node_accepts(hash)
    BY DEF RefusedOnlyIfMovedOn
  <2>0. /\ BASE_BITS \in Nat /\ BASE_BITS + FP_SHIFT <= HASH_BITS /\ FP_SHIFT \in Nat /\ FP_SHIFT > 0
        /\ HASH_BITS \in Nat /\ FP_ONE \in Nat /\ FP_ONE > 0
    BY MinerConstants, MinerAssumption, Sizes
  <2>1. /\ kind \in Servers /\ height \in 1 .. MaxHeight /\ age \in 0 .. MaxAge
        /\ pool_template.height \in 1 .. height /\ pool_template.fp \in Nat
        /\ template.bits \in Nat /\ template.fp \in Nat \cup {NotSent}
        /\ winning_nonce \in Nonces /\ passes(winning_nonce)
        /\ MaxHeight \in Nat /\ MaxAge \in Nat /\ FP_ONE \in Nat /\ FP_ONE > 0
    BY MinerConstants, Sizes DEF MinerInv, ServerInv, LoopInv, FoundInv
  <2>2. /\ template.address = hash_address /\ AsksNoMore
        /\ template.fp \in IF kind = "node" THEN Nat ELSE {NotSent}
    BY DEF MinerInv, TemplateInv
  <2>3. height \in Nat /\ age \in Nat /\ age <= age
    BY <2>1
  <2>4. node_asks = asks(kind, height, age)
    BY DEF node_asks, asks
  <2>5. node_asks \in Nat
    BY <2>3, <2>4, Asks
  <2>6. kind \in {"node", "old node", "pool"}
    BY <2>1, MinerAssumption
  <2>7. CASE kind = "pool"
    <3> DEFINE hash == hash_of(server_height, PoolAddress, winning_nonce)
    <3>1. hash \in Hashes
      <4>1. server_height \in 1 .. MaxHeight
        BY <2>1, <2>7 DEF server_height
      <4> QED
        BY <2>1, <4>1, MinerAssumption
    <3>2. meets_difficulty(hash, template.bits)
      <4>1. template.fp = NotSent /\ template.address = PoolAddress
        BY <2>2, <2>7 DEF hash_address
      <4> QED
        BY <2>1, <4>1 DEF passes, good
    <3>3. pool_difficulty_bits \in Nat /\ pool_difficulty_bits <= template.bits
      <4> DEFINE x == pool_template.fp \div FP_ONE
      <4>1. x \in Nat
        BY <2>1, DivisionMonotonic
      <4>2. pool_difficulty_bits = greater(x - POOL_DIFFICULTY_REDUCTION_BITS, POOL_MIN_BITS)
        BY DEF pool_difficulty_bits
      <4> HIDE DEF x
      <4>3. pool_difficulty_bits \in Nat
        BY <4>1, <4>2, MinerConstants DEF greater
      <4> QED
        BY <2>2, <2>7, <4>3 DEF AsksNoMore
    <3> HIDE DEF hash
    <3>4. meets_difficulty(hash, pool_difficulty_bits)
      BY <2>1, <3>1, <3>2, <3>3, FewerZeros
    <3> QED
      BY <2>7, <3>4 DEF takes, hash
  <2>8. ASSUME kind # "pool", NEW hash \in Hashes, good(hash)
        PROVE  node_accepts(hash)
    <3>1. CASE kind = "node" /\ fork2_active(height)
      <4>1. node_asks <= template.fp /\ template.fp \in Nat
        BY <2>2, <3>1 DEF AsksNoMore
      <4>2. meets_target(hash, template.fp)
        BY <2>8, <4>1 DEF good, NotSent
      <4>3. meets_target(hash, node_asks)
        BY <2>5, <2>8, <4>1, <4>2, EasierTargetIsMet
      <4> QED
        BY <3>1, <4>3 DEF node_accepts
    <3>2. CASE kind = "node" /\ ~ fork2_active(height)
      <4>1. PICK k \in 0 .. BASE_BITS : template.fp = k * FP_ONE
        BY <2>2, <3>2 DEF AsksNoMore
      <4>2. PICK n \in 0 .. BASE_BITS : node_asks = n * FP_ONE
        <5>1. \E n \in 0 .. BASE_BITS : asks(kind, height, age) = n * FP_ONE
          BY <2>1, <2>3, <3>2, AsksWholeBits
        <5> QED
          BY <2>4, <5>1
      <4>3. n <= k /\ node_asks \div FP_ONE = n
        <5>1. FP_ONE * n <= FP_ONE * k
          <6>1. node_asks <= template.fp
            BY <2>2, <3>2 DEF AsksNoMore
          <6>2. n * FP_ONE <= k * FP_ONE
            BY <4>1, <4>2, <6>1
          <6>3. n * FP_ONE = FP_ONE * n /\ k * FP_ONE = FP_ONE * k
            BY <2>0
          <6> QED
            BY <6>2, <6>3
        <5>2. ~ (k < n)
          <6>1. k < n => FP_ONE * k < FP_ONE * n
            BY <2>0
          <6>2. FP_ONE * k \in Nat /\ FP_ONE * n \in Nat
            BY <2>0, Products
          <6> QED
            BY <5>1, <6>1, <6>2
        <5>3. (FP_ONE * n + 0) \div FP_ONE = n
          <6>1. 0 \in 0 .. FP_ONE - 1 /\ n \in Nat
            BY <2>0
          <6> QED
            BY <2>1, <6>1, DivisionUnique
        <5>4. n * FP_ONE = FP_ONE * n + 0
          BY <2>0
        <5> QED
          BY <2>0, <4>2, <5>2, <5>3, <5>4
      <4>4. meets_target(hash, k * FP_ONE)
        <5>1. template.fp # NotSent
          BY <2>2, <3>2 DEF NotSent
        <5> QED
          BY <2>8, <4>1, <5>1 DEF good
      <4>5. CASE n = 0
        BY <2>8, <3>2, <4>3, <4>5, NoBits DEF node_accepts
      <4>6. CASE n # 0
        <5>1. k \in 1 .. HASH_BITS - 1 /\ k \in Nat /\ n \in Nat
          BY <2>0, <4>3, <4>6
        <5>2. meets_difficulty(hash, k)
          BY <2>8, <4>4, <5>1, WholeBitsAgree
        <5>3. meets_difficulty(hash, n)
          BY <2>8, <4>3, <5>1, <5>2, FewerZeros
        <5> QED
          BY <3>2, <4>3, <5>3 DEF node_accepts
      <4> QED
        BY <4>5, <4>6
    <3>3. CASE kind = "old node"
      <4>1. template.fp = NotSent /\ node_asks <= template.bits * FP_ONE
        BY <2>2, <3>3 DEF AsksNoMore
      <4>2. meets_difficulty(hash, template.bits)
        BY <2>8, <4>1 DEF good
      <4>3. PICK n \in 0 .. BASE_BITS : node_asks = n * FP_ONE
        <5>1. \E n \in 0 .. BASE_BITS : asks(kind, height, age) = n * FP_ONE
          BY <2>1, <2>3, <3>3, AsksWholeBits
        <5> QED
          BY <2>4, <5>1
      <4>4. n <= template.bits /\ node_asks \div FP_ONE = n /\ n \in Nat
        <5>0. n \in Nat /\ n * FP_ONE = FP_ONE * n + 0 /\ n * FP_ONE = FP_ONE * n
          BY <2>0
        <5>1. ~ (template.bits < n)
          <6> DEFINE b == template.bits
          <6>1. b \in Nat /\ FP_ONE * n <= FP_ONE * b
            BY <2>1, <4>1, <4>3, <5>0
          <6> HIDE DEF b
          <6>2. b < n => FP_ONE * b < FP_ONE * n
            BY <2>1, <5>0, <6>1
          <6>3. FP_ONE * b \in Nat /\ FP_ONE * n \in Nat
            BY <2>1, <5>0, <6>1, Products
          <6>4. ~ (b < n)
            BY <6>1, <6>2, <6>3
          <6> QED
            BY <6>4 DEF b
        <5>2. (FP_ONE * n + 0) \div FP_ONE = n
          <6>1. 0 \in 0 .. FP_ONE - 1
            BY <2>1
          <6> QED
            BY <2>1, <5>0, <6>1, DivisionUnique
        <5> QED
          BY <2>1, <4>3, <5>0, <5>1, <5>2
      <4>5. meets_difficulty(hash, n)
        BY <2>1, <2>8, <4>2, <4>4, FewerZeros
      <4> QED
        BY <3>3, <4>4, <4>5 DEF node_accepts
    <3> QED
      BY <2>6, <2>8, <3>1, <3>2, <3>3
  <2> QED
    BY <2>7, <2>8
<1> QED
  BY <1>1, MinerInvariant, PTL
=============================================================================
