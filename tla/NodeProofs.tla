----------------------------- MODULE NodeProofs ----------------------------
(***************************************************************************)
(* Theorems about Node, for every number of accounts, every supply and     *)
(* reward schedule, any set of handlers, transactions and peer blocks, and *)
(* chains of any length.                                                   *)
(***************************************************************************)
EXTENDS Node, FiniteSetTheorems, WellFoundedInduction, TLAPS

(***************************************************************************)
(* The ledger rules of Consensus: what a transaction, a block and a reward *)
(* do to the sum of the balances.                                          *)
(***************************************************************************)

\* The order < on Nat.
Below == {ss \in Nat \X Nat : ss[1] < ss[2]}

\* The library's well-foundedness of < on Nat, as a set of pairs.
LEMMA BelowWellFounded == IsWellFoundedOn(Below, Nat)
BY NatLessThanWellFounded DEF OpToRel, Below

\* Induction over Nat in set form: every inductive set holds all of Nat.  The
\* library's rule takes an operator, which the provers cannot instantiate.
LEMMA NatSetInduction ==
  ASSUME NEW S, 0 \in S, \A n \in Nat : n \in S => n + 1 \in S
  PROVE  \A n \in Nat : n \in S
<1> DEFINE T == Nat \ S
<1>1. SUFFICES ASSUME T # {} PROVE FALSE
  OBVIOUS
<1>2. \E x \in T : \A y \in T : <<y, x>> \notin Below
  <2> HIDE DEF T
  <2>1. T \subseteq Nat
    BY DEF T
  <2> QED BY <1>1, <2>1, BelowWellFounded, WFMin
<1>3. PICK x \in T : \A y \in T : <<y, x>> \notin Below
  BY <1>2
<1>4. x # 0 /\ x \in Nat /\ x - 1 \in Nat /\ x - 1 < x
  OBVIOUS
<1>5. x - 1 \notin S
  BY <1>4
<1>6. <<x - 1, x>> \in Below
  BY <1>4 DEF Below
<1> QED BY <1>3, <1>4, <1>5, <1>6

\* The running sum of the balances meets its own recursive equation.
LEMMA BalanceSumsUnfold ==
  ASSUME NEW b
  PROVE  \A n \in 0 .. NumAccounts :
           balance_sums(b)[n] = IF n = 0 THEN 0 ELSE balance_sums(b)[n - 1] + b[n]
<1> DEFINE Sums(f, N) == f = [n \in 0 .. N |-> IF n = 0 THEN 0 ELSE f[n - 1] + b[n]]
           S == {N \in Nat : \E f : Sums(f, N)}
<1>1. 0 \in S
  <2>1. Sums([n \in 0 .. 0 |-> 0], 0)
    OBVIOUS
  <2> QED BY <2>1
<1>2. ASSUME NEW N \in Nat, N \in S
      PROVE  N + 1 \in S
  <2>1. PICK f : Sums(f, N)
    BY <1>2
  <2> DEFINE g == [n \in 0 .. N + 1 |-> IF n = N + 1 THEN f[N] + b[N + 1] ELSE f[n]]
  <2>2. ASSUME NEW n \in 0 .. N + 1
        PROVE  g[n] = IF n = 0 THEN 0 ELSE g[n - 1] + b[n]
    <3>1. CASE n = N + 1
      BY <3>1
    <3>2. CASE n \in 0 .. N
      BY <2>1, <3>2
    <3> QED BY <3>1, <3>2
  <2>3. Sums(g, N + 1)
    BY <2>2
  <2>4. \E h : Sums(h, N + 1)
    BY <2>3
  <2> HIDE DEF Sums
  <2> QED BY <2>4
<1>3. NumAccounts \in S
  <2> HIDE DEF S
  <2> QED BY <1>1, <1>2, NatSetInduction, NumAccountsAssumption
<1>4. PICK f : Sums(f, NumAccounts)
  BY <1>3
<1>5. Sums(balance_sums(b), NumAccounts)
  BY <1>4 DEF balance_sums
<1> QED BY <1>5

\* The same equation, split into its base and its step.
LEMMA BalanceSumsStep ==
  ASSUME NEW b
  PROVE  /\ balance_sums(b)[0] = 0
         /\ \A n \in Nat : n + 1 <= NumAccounts =>
              balance_sums(b)[n + 1] = balance_sums(b)[n] + b[n + 1]
<1>1. balance_sums(b)[0] = 0
  BY BalanceSumsUnfold, NumAccountsAssumption
<1>2. ASSUME NEW n \in Nat, n + 1 <= NumAccounts
      PROVE  balance_sums(b)[n + 1] = balance_sums(b)[n] + b[n + 1]
  <2>1. n + 1 \in 0 .. NumAccounts /\ n + 1 # 0 /\ (n + 1) - 1 = n
    BY <1>2, NumAccountsAssumption
  <2> QED BY <2>1, BalanceSumsUnfold
<1> QED BY <1>1, <1>2

\* Changing one account by k changes the sum of all balances by k.
LEMMA CreditTotal ==
  ASSUME NEW b \in [Accounts -> Int], NEW c \in [Accounts -> Int],
         NEW a \in Accounts, NEW k \in Int,
         c[a] = b[a] + k, \A d \in Accounts \ {a} : c[d] = b[d]
  PROVE  TotalBalance(c) = TotalBalance(b) + k
<1> DEFINE S == {n \in Nat : n <= NumAccounts =>
                   /\ balance_sums(b)[n] \in Int
                   /\ balance_sums(c)[n] = balance_sums(b)[n] + (IF a <= n THEN k ELSE 0)}
<1>0. \A d \in Accounts : b[d] \in Int /\ c[d] = b[d] + (IF d = a THEN k ELSE 0)
  OBVIOUS
<1>1. 0 \in S
  BY BalanceSumsStep, NumAccountsAssumption DEF Accounts
<1>2. ASSUME NEW n \in Nat, n \in S
      PROVE  n + 1 \in S
  <2>1. CASE n + 1 <= NumAccounts
    <3>1. /\ balance_sums(b)[n + 1] = balance_sums(b)[n] + b[n + 1]
          /\ balance_sums(c)[n + 1] = balance_sums(c)[n] + c[n + 1]
      BY <2>1, BalanceSumsStep
    <3>2. /\ b[n + 1] \in Int
          /\ c[n + 1] = b[n + 1] + (IF n + 1 = a THEN k ELSE 0)
      BY <1>0, <2>1, NumAccountsAssumption DEF Accounts
    <3>3. /\ balance_sums(b)[n] \in Int
          /\ balance_sums(c)[n] = balance_sums(b)[n] + (IF a <= n THEN k ELSE 0)
      BY <1>2, <2>1, NumAccountsAssumption
    <3> QED BY <3>1, <3>2, <3>3 DEF Accounts
  <2>2. CASE ~ (n + 1 <= NumAccounts)
    BY <2>2
  <2> QED BY <2>1, <2>2
<1>3. NumAccounts \in S
  <2> HIDE DEF S
  <2> QED BY <1>1, <1>2, NatSetInduction, NumAccountsAssumption
<1> QED BY <1>3, NumAccountsAssumption DEF TotalBalance, Accounts

\* The sum of integer balances is an integer.
LEMMA TotalType ==
  ASSUME NEW b \in [Accounts -> Int]
  PROVE  TotalBalance(b) \in Int
<1> DEFINE S == {n \in Nat : n <= NumAccounts => balance_sums(b)[n] \in Int}
<1>1. 0 \in S
  BY BalanceSumsStep
<1>2. ASSUME NEW n \in Nat, n \in S
      PROVE  n + 1 \in S
  <2>1. CASE n + 1 <= NumAccounts
    <3>1. balance_sums(b)[n + 1] = balance_sums(b)[n] + b[n + 1]
      BY <2>1, BalanceSumsStep
    <3>2. b[n + 1] \in Int
      BY <2>1, NumAccountsAssumption DEF Accounts
    <3>3. balance_sums(b)[n] \in Int
      BY <1>2, <2>1, NumAccountsAssumption
    <3> QED BY <3>1, <3>2, <3>3
  <2>2. CASE ~ (n + 1 <= NumAccounts)
    BY <2>2
  <2> QED BY <2>1, <2>2
<1>3. NumAccounts \in S
  <2> HIDE DEF S
  <2> QED BY <1>1, <1>2, NatSetInduction, NumAccountsAssumption
<1> QED BY <1>3, NumAccountsAssumption DEF TotalBalance

\* Shifting a reward right by any number of bits gives a natural number.
LEMMA ShiftRightType ==
  ASSUME NEW r \in Nat, NEW k \in Nat
  PROVE  shift_right(r, k) \in Nat
<1> DEFINE Halves(f, K) == f = [i \in 0 .. K |-> IF i = 0 THEN r ELSE f[i - 1] \div 2]
           S == {K \in Nat : \E f : Halves(f, K) /\ f \in [0 .. K -> Nat]}
<1>1. 0 \in S
  <2>1. Halves([i \in 0 .. 0 |-> r], 0) /\ [i \in 0 .. 0 |-> r] \in [0 .. 0 -> Nat]
    OBVIOUS
  <2> QED BY <2>1
<1>2. ASSUME NEW K \in Nat, K \in S
      PROVE  K + 1 \in S
  <2>1. PICK f : Halves(f, K) /\ f \in [0 .. K -> Nat]
    BY <1>2
  <2> DEFINE g == [i \in 0 .. K + 1 |-> IF i = K + 1 THEN f[K] \div 2 ELSE f[i]]
  <2>2. ASSUME NEW i \in 0 .. K + 1
        PROVE  /\ g[i] = IF i = 0 THEN r ELSE g[i - 1] \div 2
               /\ g[i] \in Nat
    <3>1. CASE i = K + 1
      BY <2>1, <3>1
    <3>2. CASE i \in 0 .. K
      BY <2>1, <3>2
    <3> QED BY <3>1, <3>2
  <2>3. Halves(g, K + 1) /\ g \in [0 .. K + 1 -> Nat]
    BY <2>2
  <2>4. \E h : Halves(h, K + 1) /\ h \in [0 .. K + 1 -> Nat]
    BY <2>3
  <2> HIDE DEF Halves
  <2> QED BY <2>4
<1>3. k \in S
  <2> HIDE DEF S
  <2> QED BY <1>1, <1>2, NatSetInduction
<1>4. \E f : Halves(f, k)
  BY <1>3
<1> DEFINE h == CHOOSE f : Halves(f, k)
<1>5. Halves(h, k)
  BY <1>4
<1>6. \A i \in 0 .. k : h[i] = IF i = 0 THEN r ELSE h[i - 1] \div 2
  <2> HIDE DEF h
  <2> QED BY <1>5
<1>7. shift_right(r, k) = h[k]
  BY DEF shift_right
<1> HIDE DEF h
<1> DEFINE T == {i \in Nat : i <= k => h[i] \in Nat}
<1>8. 0 \in T
  BY <1>6
<1>9. ASSUME NEW i \in Nat, i \in T
      PROVE  i + 1 \in T
  <2>1. CASE i + 1 <= k
    <3>1. h[i + 1] = h[i] \div 2
      BY <1>6, <2>1
    <3>2. h[i] \in Nat
      BY <1>9, <2>1
    <3> QED BY <3>1, <3>2
  <2> QED BY <2>1
<1>10. k \in T
  <2> HIDE DEF T
  <2> QED BY <1>8, <1>9, NatSetInduction
<1> QED BY <1>7, <1>10

\* A block's reward never takes the minted supply over the cap
\* (get_block_reward cuts the last reward to what is left).
LEMMA RewardRange ==
  ASSUME NEW eng \in Engine, eng.total_minted_supply <= GLOBAL_MAX_SUPPLY
  PROVE  /\ get_block_reward(eng) \in Nat
         /\ eng.total_minted_supply + get_block_reward(eng) <= GLOBAL_MAX_SUPPLY
<1> DEFINE halvings == eng.chain_height \div HALVING_INTERVAL
<1>1. halvings \in Nat
  BY RewardAssumption DEF Engine
<1>2. shift_right(INITIAL_REWARD, halvings) \in Nat
  BY <1>1, ShiftRightType, RewardAssumption
<1> QED BY <1>2, SupplyAssumption DEF get_block_reward, Engine

-----------------------------------------------------------------------------

\* A ledger that neither lost nor made a coin, within the cap.
LedgerOK(eng) ==
  /\ eng \in Engine
  /\ TotalBalance(eng.balances) = eng.total_minted_supply
  /\ eng.total_minted_supply <= GLOBAL_MAX_SUPPLY

\* An empty ledger sums to zero.
LEMMA ZeroTotal == TotalBalance([a \in Accounts |-> 0]) = 0
<1> DEFINE z == [a \in Accounts |-> 0]
           S == {n \in Nat : n <= NumAccounts => balance_sums(z)[n] = 0}
<1>0. \A a \in Accounts : z[a] = 0
  OBVIOUS
<1> HIDE DEF z
<1>1. 0 \in S
  BY BalanceSumsStep
<1>2. ASSUME NEW n \in Nat, n \in S
      PROVE  n + 1 \in S
  <2>1. CASE n + 1 <= NumAccounts
    <3>1. balance_sums(z)[n + 1] = balance_sums(z)[n] + z[n + 1]
      BY <2>1, BalanceSumsStep
    <3>2. z[n + 1] = 0
      BY <1>0, <2>1, NumAccountsAssumption DEF Accounts
    <3>3. balance_sums(z)[n] = 0
      BY <1>2, <2>1, NumAccountsAssumption
    <3> QED BY <3>1, <3>2, <3>3
  <2>2. CASE ~ (n + 1 <= NumAccounts)
    BY <2>2
  <2> QED BY <2>1, <2>2
<1>3. NumAccounts \in S
  <2> HIDE DEF S
  <2> QED BY <1>1, <1>2, NatSetInduction, NumAccountsAssumption
<1>4. TotalBalance(z) = 0
  BY <1>3, NumAccountsAssumption DEF TotalBalance
<1> QED BY <1>4 DEF z

\* Genesis is conserved: the two vault allocations are the minted supply.
LEMMA GenesisLedgerOK == LedgerOK(genesis)
<1> DEFINE z  == [a \in Accounts |-> 0]
           zA == [a \in Accounts |-> IF a = VaultA THEN VAULT_A_ALLOCATION ELSE 0]
           zB == genesis.balances
<1>1. VaultA \in Accounts /\ VaultB \in Accounts /\ VaultA # VaultB
  BY NumAccountsAssumption DEF Accounts, VaultA, VaultB
<1>2. /\ z \in [Accounts -> Int] /\ zA \in [Accounts -> Int] /\ zB \in [Accounts -> Int]
      /\ zA[VaultA] = z[VaultA] + VAULT_A_ALLOCATION
      /\ \A a \in Accounts \ {VaultA} : zA[a] = z[a]
      /\ zB[VaultB] = zA[VaultB] + VAULT_B_ALLOCATION
      /\ \A a \in Accounts \ {VaultB} : zB[a] = zA[a]
  BY <1>1, SupplyAssumption DEF genesis
<1>3. TotalBalance(z) = 0
  BY ZeroTotal
<1>4. VAULT_A_ALLOCATION \in Int /\ VAULT_B_ALLOCATION \in Int
  BY SupplyAssumption
<1>5. genesis \in Engine
  BY SupplyAssumption DEF genesis, Engine
<1>6. genesis.total_minted_supply = VAULT_A_ALLOCATION + VAULT_B_ALLOCATION
  BY DEF genesis
<1> HIDE DEF z, zA, zB
<1>7. TotalBalance(zA) = TotalBalance(z) + VAULT_A_ALLOCATION
  BY <1>1, <1>2, <1>4, CreditTotal
<1>8. TotalBalance(zB) = TotalBalance(zA) + VAULT_B_ALLOCATION
  BY <1>1, <1>2, <1>4, CreditTotal
<1>9. TotalBalance(zB) = genesis.total_minted_supply
  BY <1>3, <1>6, <1>7, <1>8, SupplyAssumption
<1> QED BY <1>5, <1>6, <1>9, SupplyAssumption DEF LedgerOK, zB

\* A covered transfer, a self-transfer included, keeps every balance natural and
\* the sum of all balances unchanged.
LEMMA TransferTotal ==
  ASSUME NEW b \in [Accounts -> Nat], NEW tx \in Transaction,
         tx.amount <= b[tx.sender]
  PROVE  /\ transfer(b, tx) \in [Accounts -> Nat]
         /\ TotalBalance(transfer(b, tx)) = TotalBalance(b)
<1> DEFINE s == tx.sender
           r == tx.receiver
           x == tx.amount
           d == [b EXCEPT ![s] = b[s] - x]
           e == transfer(b, tx)
<1>1. s \in Accounts /\ r \in Accounts /\ x \in Nat /\ x \in Int /\ -x \in Int
  BY DEF Transaction
<1>2. /\ d \in [Accounts -> Nat]
      /\ d[s] = b[s] + (-x)
      /\ \A a \in Accounts \ {s} : d[a] = b[a]
  BY <1>1
<1>3. /\ e \in [Accounts -> Nat]
      /\ e[r] = d[r] + x
      /\ \A a \in Accounts \ {r} : e[a] = d[a]
  <2>1. e = [d EXCEPT ![r] = d[r] + x]
    BY DEF transfer
  <2> HIDE DEF d, e
  <2> QED BY <1>1, <1>2, <2>1
<1> HIDE DEF s, r, x, d, e
<1>4. b \in [Accounts -> Int] /\ d \in [Accounts -> Int] /\ e \in [Accounts -> Int]
  BY <1>2, <1>3
<1>5. TotalBalance(d) = TotalBalance(b) + (-x)
  BY <1>1, <1>2, <1>4, CreditTotal
<1>6. TotalBalance(e) = TotalBalance(d) + x
  BY <1>1, <1>3, <1>4, CreditTotal
<1>7. TotalBalance(b) \in Int
  BY <1>4, TotalType
<1>8. TotalBalance(e) = TotalBalance(b)
  BY <1>1, <1>5, <1>6, <1>7
<1> QED BY <1>3, <1>8 DEF e

\* One transaction, accepted or rejected, before or after Fork 3, keeps the
\* ledger conserved and mints nothing.
LEMMA ApplyTxLedgerOK ==
  ASSUME NEW eng, LedgerOK(eng), NEW h, NEW tx \in Transaction
  PROVE  /\ LedgerOK(apply_tx(eng, h, tx))
         /\ apply_tx(eng, h, tx).chain_height = eng.chain_height
         /\ apply_tx(eng, h, tx).total_minted_supply = eng.total_minted_supply
<1>1. CASE tx_result(eng, h, tx) # "Ok"
  BY <1>1 DEF apply_tx
<1>2. CASE tx_result(eng, h, tx) = "Ok"
  <2>1. eng \in Engine /\ tx.sender \in Accounts
    BY DEF LedgerOK, Transaction
  <2>2. tx.amount <= eng.balances[tx.sender]
    BY <1>2, <2>1 DEF tx_result, apply_transaction, apply_transaction_v2, Engine, Transaction
  <2>3. /\ transfer(eng.balances, tx) \in [Accounts -> Nat]
        /\ TotalBalance(transfer(eng.balances, tx)) = TotalBalance(eng.balances)
    BY <2>1, <2>2, TransferTotal DEF Engine
  <2> DEFINE f == apply_tx(eng, h, tx)
  <2>4. /\ f.balances = transfer(eng.balances, tx)
        /\ f.nonces \in [Accounts -> Nat]
        /\ f.chain_height = eng.chain_height
        /\ f.total_minted_supply = eng.total_minted_supply
    BY <1>2, <2>1 DEF apply_tx, Engine
  <2>5. f = [balances |-> f.balances, nonces |-> f.nonces,
             total_minted_supply |-> f.total_minted_supply,
             chain_height |-> f.chain_height]
    BY <1>2, <2>1 DEF apply_tx, Engine
  <2> HIDE DEF f
  <2>6. f \in Engine
    BY <2>1, <2>3, <2>4, <2>5 DEF Engine
  <2>7. LedgerOK(f)
    BY <2>3, <2>4, <2>6 DEF LedgerOK
  <2> QED BY <2>4, <2>7 DEF f
<1> QED BY <1>1, <1>2

\* Paying the reward keeps the ledger conserved and adds one to the height.
LEMMA RewardLedgerOK ==
  ASSUME NEW eng, LedgerOK(eng), NEW miner \in Accounts
  PROVE  /\ LedgerOK(process_block_reward(eng, miner))
         /\ process_block_reward(eng, miner).chain_height = eng.chain_height + 1
<1> DEFINE r == get_block_reward(eng)
           f == process_block_reward(eng, miner)
           b == eng.balances
           c == f.balances
<1>1. eng \in Engine /\ b \in [Accounts -> Int]
  BY DEF LedgerOK, Engine
<1>2. r \in Nat /\ r \in Int /\ eng.total_minted_supply + r <= GLOBAL_MAX_SUPPLY
  BY <1>1, RewardRange DEF LedgerOK
<1> HIDE DEF r
<1>3. /\ c \in [Accounts -> Nat]
      /\ c[miner] = b[miner] + r
      /\ \A a \in Accounts \ {miner} : c[a] = b[a]
      /\ f.nonces \in [Accounts -> Nat]
      /\ f.total_minted_supply = eng.total_minted_supply + r
      /\ f.chain_height = eng.chain_height + 1
  BY <1>1, <1>2 DEF process_block_reward, Engine, r
<1>4. f = [balances |-> f.balances, nonces |-> f.nonces,
           total_minted_supply |-> f.total_minted_supply,
           chain_height |-> f.chain_height]
  <2>1. f = [eng EXCEPT !.balances = c,
                        !.total_minted_supply = eng.total_minted_supply + r,
                        !.chain_height = eng.chain_height + 1]
    BY <1>1 DEF process_block_reward, Engine, r
  <2> HIDE DEF f, c
  <2> QED BY <1>1, <2>1 DEF Engine
<1>5. b \in [Accounts -> Int] /\ c \in [Accounts -> Int]
  BY <1>1, <1>3
<1> HIDE DEF f
<1>6. f \in Engine
  BY <1>1, <1>2, <1>3, <1>4 DEF Engine
<1> HIDE DEF b, c
<1>7. TotalBalance(c) = TotalBalance(b) + r
  BY <1>2, <1>3, <1>5, CreditTotal
<1>8. LedgerOK(f)
  BY <1>1, <1>2, <1>3, <1>6, <1>7 DEF LedgerOK, Engine, b, c
<1> QED BY <1>3, <1>8 DEF f

-----------------------------------------------------------------------------

\* The run of a block's transactions meets its own recursive equation.
LEMMA BlockRunUnfold ==
  ASSUME NEW eng, NEW h, NEW txs \in Seq(Transaction)
  PROVE  /\ block_run(eng, h, txs)[0] = eng
         /\ \A i \in 1 .. Len(txs) :
              block_run(eng, h, txs)[i] = apply_tx(block_run(eng, h, txs)[i - 1], h, txs[i])
<1> DEFINE Run(f, N) == f = [i \in 0 .. N |-> IF i = 0 THEN eng
                                             ELSE apply_tx(f[i - 1], h, txs[i])]
           S == {N \in Nat : \E f : Run(f, N)}
<1>1. 0 \in S
  <2>1. Run([i \in 0 .. 0 |-> eng], 0)
    OBVIOUS
  <2> QED BY <2>1
<1>2. ASSUME NEW N \in Nat, N \in S
      PROVE  N + 1 \in S
  <2>1. PICK f : Run(f, N)
    BY <1>2
  <2> DEFINE g == [i \in 0 .. N + 1 |-> IF i = N + 1 THEN apply_tx(f[N], h, txs[N + 1])
                                        ELSE f[i]]
  <2>2. ASSUME NEW i \in 0 .. N + 1
        PROVE  g[i] = IF i = 0 THEN eng ELSE apply_tx(g[i - 1], h, txs[i])
    <3>1. CASE i = N + 1
      BY <3>1
    <3>2. CASE i \in 0 .. N
      BY <2>1, <3>2
    <3> QED BY <3>1, <3>2
  <2>3. Run(g, N + 1)
    BY <2>2
  <2>4. \E f2 : Run(f2, N + 1)
    BY <2>3
  <2> HIDE DEF Run
  <2> QED BY <2>4
<1>3. Len(txs) \in S /\ Len(txs) \in Nat
  <2> HIDE DEF S
  <2> QED BY <1>1, <1>2, NatSetInduction
<1>4. PICK f : Run(f, Len(txs))
  BY <1>3
<1>5. Run(block_run(eng, h, txs), Len(txs))
  BY <1>4 DEF block_run
<1> QED BY <1>3, <1>5

\* Every prefix of a block's transactions leaves the ledger conserved.
LEMMA BlockRunLedgerOK ==
  ASSUME NEW eng, LedgerOK(eng), NEW h, NEW txs \in Seq(Transaction)
  PROVE  \A i \in 0 .. Len(txs) :
           /\ LedgerOK(block_run(eng, h, txs)[i])
           /\ block_run(eng, h, txs)[i].chain_height = eng.chain_height
<1> DEFINE run == block_run(eng, h, txs)
           S == {i \in Nat : i <= Len(txs) =>
                   LedgerOK(run[i]) /\ run[i].chain_height = eng.chain_height}
<1>0. /\ run[0] = eng
      /\ \A i \in 1 .. Len(txs) : run[i] = apply_tx(run[i - 1], h, txs[i])
  BY BlockRunUnfold
<1> HIDE DEF run
<1>1. 0 \in S
  BY <1>0
<1>2. ASSUME NEW i \in Nat, i \in S
      PROVE  i + 1 \in S
  <2>1. CASE i + 1 <= Len(txs)
    <3>1. run[i + 1] = apply_tx(run[i], h, txs[i + 1])
      BY <1>0, <2>1
    <3>2. txs[i + 1] \in Transaction
      BY <2>1
    <3>3. LedgerOK(run[i]) /\ run[i].chain_height = eng.chain_height
      BY <1>2, <2>1
    <3> QED BY <3>1, <3>2, <3>3, ApplyTxLedgerOK
  <2>2. CASE ~ (i + 1 <= Len(txs))
    BY <2>2
  <2> QED BY <2>1, <2>2
<1>3. \A i \in Nat : i \in S
  <2> HIDE DEF S
  <2> QED BY <1>1, <1>2, NatSetInduction
<1> QED BY <1>3 DEF run

\* apply_block_txs keeps the ledger conserved, whether it succeeds or restores.
LEMMA ApplyBlockTxsLedgerOK ==
  ASSUME NEW eng, LedgerOK(eng), NEW h, NEW txs \in Seq(Transaction)
  PROVE  /\ LedgerOK(apply_block_txs(eng, h, txs))
         /\ apply_block_txs(eng, h, txs).chain_height = eng.chain_height
BY BlockRunLedgerOK DEF apply_block_txs

\* A transaction more at the end leaves the run before it as it was.
LEMMA BlockRunAppend ==
  ASSUME NEW eng, NEW h, NEW txs \in Seq(Transaction), NEW tx \in Transaction
  PROVE  /\ \A i \in 0 .. Len(txs) :
              block_run(eng, h, Append(txs, tx))[i] = block_run(eng, h, txs)[i]
         /\ block_run(eng, h, Append(txs, tx))[Len(txs) + 1] =
              apply_tx(block_run(eng, h, txs)[Len(txs)], h, tx)
<1> DEFINE more == Append(txs, tx)
           run  == block_run(eng, h, txs)
           next == block_run(eng, h, more)
           S == {i \in Nat : i <= Len(txs) => next[i] = run[i]}
<1>1. /\ more \in Seq(Transaction) /\ Len(more) = Len(txs) + 1 /\ Len(txs) \in Nat
      /\ more[Len(txs) + 1] = tx
      /\ \A i \in 1 .. Len(txs) : more[i] = txs[i]
  OBVIOUS
<1> HIDE DEF more
<1>2. /\ run[0] = eng
      /\ \A i \in 1 .. Len(txs) : run[i] = apply_tx(run[i - 1], h, txs[i])
  BY BlockRunUnfold
<1>3. /\ next[0] = eng
      /\ \A i \in 1 .. Len(txs) + 1 : next[i] = apply_tx(next[i - 1], h, more[i])
  BY <1>1, BlockRunUnfold
<1> HIDE DEF run, next
<1>4. 0 \in S
  BY <1>2, <1>3
<1>5. ASSUME NEW i \in Nat, i \in S
      PROVE  i + 1 \in S
  <2>1. CASE i + 1 <= Len(txs)
    <3>1. /\ i + 1 \in 1 .. Len(txs) /\ i + 1 \in 1 .. Len(txs) + 1 /\ (i + 1) - 1 = i
          /\ next[i] = run[i]
      BY <1>1, <1>5, <2>1
    <3>2. next[i + 1] = apply_tx(next[i], h, more[i + 1]) /\ more[i + 1] = txs[i + 1]
      BY <1>1, <1>3, <3>1
    <3>3. run[i + 1] = apply_tx(run[i], h, txs[i + 1])
      BY <1>2, <3>1
    <3> QED BY <3>1, <3>2, <3>3
  <2> QED BY <1>1, <2>1
<1>6. \A i \in Nat : i \in S
  <2> HIDE DEF S
  <2> QED BY <1>4, <1>5, NatSetInduction
<1>7. next[Len(txs)] = run[Len(txs)]
  BY <1>1, <1>6
<1>8. next[Len(txs) + 1] = apply_tx(next[Len(txs)], h, tx)
  BY <1>1, <1>3
<1> QED BY <1>6, <1>7, <1>8 DEF run, next, more

-----------------------------------------------------------------------------

\* A replay meets its own recursive equation.
LEMMA ReplayedUnfold ==
  ASSUME NEW bs, NEW n \in Nat
  PROVE  /\ replayed(bs, n)[0] = genesis
         /\ \A h \in 1 .. n : replayed(bs, n)[h] = apply_block(replayed(bs, n)[h - 1], bs[h])
<1> DEFINE Run(f, N) == f = [h \in 0 .. N |-> IF h = 0 THEN genesis
                                             ELSE apply_block(f[h - 1], bs[h])]
           S == {N \in Nat : \E f : Run(f, N)}
<1>1. 0 \in S
  <2>1. Run([h \in 0 .. 0 |-> genesis], 0)
    OBVIOUS
  <2> QED BY <2>1
<1>2. ASSUME NEW N \in Nat, N \in S
      PROVE  N + 1 \in S
  <2>1. PICK f : Run(f, N)
    BY <1>2
  <2> DEFINE g == [h \in 0 .. N + 1 |-> IF h = N + 1 THEN apply_block(f[N], bs[N + 1])
                                        ELSE f[h]]
  <2>2. ASSUME NEW h \in 0 .. N + 1
        PROVE  g[h] = IF h = 0 THEN genesis ELSE apply_block(g[h - 1], bs[h])
    <3>1. CASE h = N + 1
      BY <3>1
    <3>2. CASE h \in 0 .. N
      BY <2>1, <3>2
    <3> QED BY <3>1, <3>2
  <2>3. Run(g, N + 1)
    BY <2>2
  <2>4. \E f2 : Run(f2, N + 1)
    BY <2>3
  <2> HIDE DEF Run
  <2> QED BY <2>4
<1>3. n \in S
  <2> HIDE DEF S
  <2> QED BY <1>1, <1>2, NatSetInduction
<1>4. PICK f : Run(f, n)
  BY <1>3
<1>5. Run(replayed(bs, n), n)
  BY <1>4 DEF replayed
<1> QED BY <1>5

\* A replay depends only on the blocks it has passed.
LEMMA ReplayedPrefix ==
  ASSUME NEW bs, NEW cs, NEW m \in Nat, NEW n \in Nat, NEW k \in Nat, k <= m, k <= n,
         \A h \in 1 .. k : bs[h] = cs[h]
  PROVE  replayed(bs, m)[k] = replayed(cs, n)[k]
<1> DEFINE f == replayed(bs, m)
           g == replayed(cs, n)
           S == {h \in Nat : h <= k => f[h] = g[h]}
<1>1. /\ f[0] = genesis /\ g[0] = genesis
      /\ \A h \in 1 .. m : f[h] = apply_block(f[h - 1], bs[h])
      /\ \A h \in 1 .. n : g[h] = apply_block(g[h - 1], cs[h])
  BY ReplayedUnfold
<1> HIDE DEF f, g
<1>2. 0 \in S
  BY <1>1
<1>3. ASSUME NEW h \in Nat, h \in S
      PROVE  h + 1 \in S
  <2>1. CASE h + 1 <= k
    <3>1. h + 1 \in 1 .. m /\ h + 1 \in 1 .. n /\ (h + 1) - 1 = h /\ f[h] = g[h]
          /\ bs[h + 1] = cs[h + 1]
      BY <1>3, <2>1
    <3>2. f[h + 1] = apply_block(f[h], bs[h + 1]) /\ g[h + 1] = apply_block(g[h], cs[h + 1])
      BY <1>1, <3>1
    <3> QED BY <3>1, <3>2
  <2> QED BY <2>1
<1>4. k \in S
  <2> HIDE DEF S
  <2> QED BY <1>2, <1>3, NatSetInduction
<1> QED BY <1>4 DEF f, g

\* Replaying one block more is applying that block.
LEMMA ReplayStep ==
  ASSUME NEW bs
  PROVE  /\ replay(bs, 0) = genesis
         /\ \A h \in Nat : replay(bs, h + 1) = apply_block(replay(bs, h), bs[h + 1])
<1>1. replay(bs, 0) = genesis
  BY ReplayedUnfold DEF replay
<1>2. ASSUME NEW h \in Nat
      PROVE  replay(bs, h + 1) = apply_block(replay(bs, h), bs[h + 1])
  <2>1. replayed(bs, h + 1)[h + 1] = apply_block(replayed(bs, h + 1)[h], bs[h + 1])
    <3>1. h + 1 \in Nat /\ h + 1 \in 1 .. h + 1 /\ (h + 1) - 1 = h
      OBVIOUS
    <3> QED BY <3>1, ReplayedUnfold
  <2>2. replayed(bs, h + 1)[h] = replayed(bs, h)[h]
    BY ReplayedPrefix
  <2> QED BY <2>1, <2>2 DEF replay
<1> QED BY <1>1, <1>2

\* Chains that agree up to a height replay alike up to it.
LEMMA ReplayPrefix ==
  ASSUME NEW bs, NEW cs, NEW k \in Nat, \A h \in 1 .. k : bs[h] = cs[h]
  PROVE  replay(bs, k) = replay(cs, k)
BY ReplayedPrefix DEF replay

\* A block that a conserved ledger applies leaves it conserved, one block higher.
LEMMA ApplyBlockLedgerOK ==
  ASSUME NEW eng, LedgerOK(eng), NEW b \in Block
  PROVE  /\ LedgerOK(apply_block(eng, b))
         /\ apply_block(eng, b).chain_height = eng.chain_height + 1
<1> DEFINE applied == apply_block_txs(eng, eng.chain_height + 1, b.txs)
<1>1. LedgerOK(applied) /\ applied.chain_height = eng.chain_height /\ b.miner \in Accounts
  BY ApplyBlockTxsLedgerOK DEF Block
<1> HIDE DEF applied
<1>2. apply_block(eng, b) = process_block_reward(applied, b.miner)
  BY DEF apply_block, applied
<1> QED BY <1>1, <1>2, RewardLedgerOK

\* Every replay of stored blocks is a conserved ledger of its height.
LEMMA ReplayLedgerOK ==
  ASSUME NEW bs \in Seq(Block), NEW n \in Nat, n <= Len(bs)
  PROVE  LedgerOK(replay(bs, n)) /\ replay(bs, n).chain_height = n
<1> DEFINE S == {h \in Nat : h <= Len(bs) =>
                   LedgerOK(replay(bs, h)) /\ replay(bs, h).chain_height = h}
<1>1. 0 \in S
  BY ReplayStep, GenesisLedgerOK DEF genesis
<1>2. ASSUME NEW h \in Nat, h \in S
      PROVE  h + 1 \in S
  <2>1. CASE h + 1 <= Len(bs)
    <3>1. LedgerOK(replay(bs, h)) /\ replay(bs, h).chain_height = h
      BY <1>2, <2>1
    <3>2. bs[h + 1] \in Block
      BY <2>1
    <3>3. replay(bs, h + 1) = apply_block(replay(bs, h), bs[h + 1])
      BY ReplayStep
    <3> QED BY <3>1, <3>2, <3>3, ApplyBlockLedgerOK
  <2> QED BY <2>1
<1>3. n \in S
  <2> HIDE DEF S
  <2> QED BY <1>1, <1>2, NatSetInduction
<1> QED BY <1>3
-----------------------------------------------------------------------------

\* The counters after one transaction: from Fork 3 on, one that is applied carries
\* its sender's number and moves it on by one; nothing else moves a counter.
LEMMA ApplyTxNonces ==
  ASSUME NEW eng \in Engine, NEW h, NEW tx \in Transaction
  PROVE  IF tx_result(eng, h, tx) = "Ok" /\ fork3_active(h)
         THEN /\ tx.timestamp = eng.nonces[tx.sender]
              /\ \A a \in Accounts : apply_tx(eng, h, tx).nonces[a] =
                                       eng.nonces[a] + (IF a = tx.sender THEN 1 ELSE 0)
         ELSE \A a \in Accounts : apply_tx(eng, h, tx).nonces[a] = eng.nonces[a]
<1>1. /\ tx.sender \in Accounts /\ tx.timestamp \in Int
      /\ eng.nonces \in [Accounts -> Nat]
  BY DEF Transaction, Engine
<1>2. CASE tx_result(eng, h, tx) = "Ok" /\ fork3_active(h)
  <2>1. tx.timestamp = eng.nonces[tx.sender]
    BY <1>1, <1>2 DEF tx_result, apply_transaction_v2
  <2>2. apply_tx(eng, h, tx).nonces = [eng.nonces EXCEPT ![tx.sender] = @ + 1]
    BY <1>1, <1>2 DEF apply_tx, Engine
  <2> QED BY <1>1, <1>2, <2>1, <2>2
<1>3. CASE ~ (tx_result(eng, h, tx) = "Ok" /\ fork3_active(h))
  <2>1. CASE tx_result(eng, h, tx) # "Ok"
    BY <2>1 DEF apply_tx
  <2>2. CASE tx_result(eng, h, tx) = "Ok" /\ ~ fork3_active(h)
    <3>1. apply_tx(eng, h, tx).nonces = [eng.nonces EXCEPT ![tx.sender] = @]
      BY <1>1, <2>2 DEF apply_tx, Engine
    <3> QED BY <1>1, <2>2, <3>1
  <2> QED BY <1>3, <2>1, <2>2
<1> QED BY <1>2, <1>3

\* The numbers of a block under Fork 3: each is at least its sender's counter before
\* the block and below the one after it, and a sender's numbers rise.
LEMMA BlockRunNumbers ==
  ASSUME NEW eng, LedgerOK(eng), NEW h, fork3_active(h), NEW txs \in Seq(Transaction),
         block_txs_ok(eng, h, txs)
  PROVE  LET after == block_run(eng, h, txs)[Len(txs)]
         IN  /\ \A a \in Accounts : eng.nonces[a] <= after.nonces[a]
             /\ \A j \in 1 .. Len(txs) :
                  /\ eng.nonces[txs[j].sender] <= txs[j].timestamp
                  /\ txs[j].timestamp < after.nonces[txs[j].sender]
             /\ \A j, k \in 1 .. Len(txs) :
                  j < k /\ txs[j].sender = txs[k].sender => txs[j].timestamp < txs[k].timestamp
<1> DEFINE run == block_run(eng, h, txs)
           Good(i) == /\ \A a \in Accounts : eng.nonces[a] <= run[i].nonces[a]
                      /\ \A j \in 1 .. i :
                           /\ eng.nonces[txs[j].sender] <= txs[j].timestamp
                           /\ txs[j].timestamp < run[i].nonces[txs[j].sender]
                      /\ \A j, k \in 1 .. i :
                           j < k /\ txs[j].sender = txs[k].sender =>
                             txs[j].timestamp < txs[k].timestamp
           S == {i \in Nat : i <= Len(txs) => Good(i)}
<1>1. /\ run[0] = eng
      /\ \A i \in 1 .. Len(txs) : run[i] = apply_tx(run[i - 1], h, txs[i])
  BY BlockRunUnfold
<1>2. \A i \in 0 .. Len(txs) : run[i] \in Engine
  BY BlockRunLedgerOK DEF LedgerOK
<1>3. \A i \in 1 .. Len(txs) : tx_result(run[i - 1], h, txs[i]) = "Ok"
  BY DEF block_txs_ok
<1> HIDE DEF run
<1>4. 0 \in S
  <2>1. eng.nonces \in [Accounts -> Nat]
    BY DEF LedgerOK, Engine
  <2> QED BY <1>1, <2>1
<1>5. ASSUME NEW i \in Nat, i \in S
      PROVE  i + 1 \in S
  <2>1. CASE i + 1 <= Len(txs)
    <3> DEFINE tx == txs[i + 1]
    <3>1. /\ Good(i) /\ i + 1 \in 1 .. Len(txs) /\ (i + 1) - 1 = i /\ i \in 0 .. Len(txs)
          /\ tx \in Transaction /\ tx.sender \in Accounts /\ tx.timestamp \in Int
          /\ \A j \in 1 .. i : txs[j].sender \in Accounts /\ txs[j].timestamp \in Int
      <4>1. \A j \in 1 .. i + 1 : txs[j] \in Transaction
        BY <2>1
      <4>2. /\ Good(i) /\ i + 1 \in 1 .. Len(txs) /\ (i + 1) - 1 = i /\ i \in 0 .. Len(txs)
        BY <1>5, <2>1
      <4>3. /\ i + 1 \in 1 .. i + 1 /\ \A j \in 1 .. i : j \in 1 .. i + 1
        BY <1>5
      <4>4. \A x \in Transaction : x.sender \in Accounts /\ x.timestamp \in Int
        BY DEF Transaction
      <4>5. \A j \in 1 .. i + 1 : txs[j].sender \in Accounts /\ txs[j].timestamp \in Int
        BY <4>1, <4>4
      <4>6. tx \in Transaction /\ tx.sender \in Accounts /\ tx.timestamp \in Int
        BY <4>1, <4>3, <4>5
      <4> QED
        BY <4>2, <4>3, <4>5, <4>6
    <3>2. /\ run[i + 1] = apply_tx(run[i], h, tx) /\ tx_result(run[i], h, tx) = "Ok"
          /\ run[i] \in Engine
      BY <1>1, <1>2, <1>3, <3>1
    <3>3. /\ tx.timestamp = run[i].nonces[tx.sender]
          /\ \A a \in Accounts : run[i + 1].nonces[a] =
                                   run[i].nonces[a] + (IF a = tx.sender THEN 1 ELSE 0)
      BY <3>1, <3>2, ApplyTxNonces
    <3>4. eng.nonces \in [Accounts -> Nat] /\ run[i].nonces \in [Accounts -> Nat]
      BY <3>2 DEF LedgerOK, Engine
    <3>5. \A a \in Accounts : eng.nonces[a] <= run[i + 1].nonces[a]
      BY <3>1, <3>3, <3>4
    <3>6. ASSUME NEW j \in 1 .. i + 1
          PROVE  /\ eng.nonces[txs[j].sender] <= txs[j].timestamp
                 /\ txs[j].timestamp < run[i + 1].nonces[txs[j].sender]
      <4>1. CASE j = i + 1
        BY <3>1, <3>3, <3>4, <4>1
      <4>2. CASE j \in 1 .. i
        <5> DEFINE s == txs[j].sender
                   t == txs[j].timestamp
        <5>1. s \in Accounts /\ t \in Int /\ eng.nonces[s] <= t /\ t < run[i].nonces[s]
          BY <3>1, <4>2
        <5> HIDE DEF s, t, Good
        <5>2. run[i].nonces[s] \in Nat /\ eng.nonces[s] \in Nat
          BY <3>4, <5>1
        <5>3. run[i + 1].nonces[s] = run[i].nonces[s] + (IF s = tx.sender THEN 1 ELSE 0)
          BY <3>3, <5>1
        <5>4. eng.nonces[s] <= t /\ t < run[i + 1].nonces[s]
          BY <5>1, <5>2, <5>3
        <5> QED BY <5>4 DEF s, t
      <4> QED BY <4>1, <4>2
    <3>7. ASSUME NEW j \in 1 .. i + 1, NEW k \in 1 .. i + 1, j < k,
                 txs[j].sender = txs[k].sender
          PROVE  txs[j].timestamp < txs[k].timestamp
      BY <3>1, <3>3, <3>7
    <3> QED BY <3>5, <3>6, <3>7
  <2> QED BY <2>1
<1>6. Len(txs) \in S
  <2> HIDE DEF S
  <2> QED BY <1>4, <1>5, NatSetInduction
<1> QED BY <1>6 DEF run

\* Under Fork 3 a block moves an account's counter on by the number of its
\* transactions; before it, by nothing.
LEMMA BlockRunCount ==
  ASSUME NEW eng, LedgerOK(eng), NEW h, NEW txs \in Seq(Transaction),
         block_txs_ok(eng, h, txs), NEW a \in Accounts
  PROVE  block_run(eng, h, txs)[Len(txs)].nonces[a] =
           eng.nonces[a] + (IF fork3_active(h)
                            THEN Cardinality({j \in DOMAIN txs : txs[j].sender = a}) ELSE 0)
<1> DEFINE run == block_run(eng, h, txs)
           sent(i) == {j \in 1 .. i : txs[j].sender = a}
           S == {i \in Nat : i <= Len(txs) =>
                   /\ IsFiniteSet(sent(i)) /\ Cardinality(sent(i)) \in Nat
                   /\ run[i].nonces[a] =
                        eng.nonces[a] + (IF fork3_active(h) THEN Cardinality(sent(i)) ELSE 0)}
<1>1. /\ run[0] = eng
      /\ \A i \in 1 .. Len(txs) : run[i] = apply_tx(run[i - 1], h, txs[i])
  BY BlockRunUnfold
<1>2. \A i \in 0 .. Len(txs) : run[i] \in Engine
  BY BlockRunLedgerOK DEF LedgerOK
<1>3. \A i \in 1 .. Len(txs) : tx_result(run[i - 1], h, txs[i]) = "Ok"
  BY DEF block_txs_ok
<1>4. eng.nonces[a] \in Nat
  BY DEF LedgerOK, Engine
<1> HIDE DEF run
<1>5. 0 \in S
  <2>1. sent(0) = {}
    OBVIOUS
  <2>2. IsFiniteSet({}) /\ Cardinality({}) = 0
    BY FS_EmptySet
  <2> HIDE DEF sent
  <2>3. /\ IsFiniteSet(sent(0)) /\ Cardinality(sent(0)) = 0
        /\ run[0].nonces[a] = eng.nonces[a]
    BY <1>1, <2>1, <2>2
  <2> QED BY <1>4, <2>3
<1>6. ASSUME NEW i \in Nat, i \in S
      PROVE  i + 1 \in S
  <2>1. CASE i + 1 <= Len(txs)
    <3>1. /\ i + 1 \in 1 .. Len(txs) /\ (i + 1) - 1 = i /\ i \in 0 .. Len(txs)
          /\ txs[i + 1] \in Transaction
      BY <2>1
    <3>2. /\ run[i + 1] = apply_tx(run[i], h, txs[i + 1])
          /\ tx_result(run[i], h, txs[i + 1]) = "Ok"
          /\ run[i] \in Engine
      BY <1>1, <1>2, <1>3, <3>1
    <3>3. run[i + 1].nonces[a] =
            run[i].nonces[a] + (IF fork3_active(h) /\ a = txs[i + 1].sender THEN 1 ELSE 0)
      <4> DEFINE tx == txs[i + 1]
      <4>1. run[i].nonces[a] \in Nat /\ tx \in Transaction
        BY <3>1, <3>2 DEF Engine
      <4>2. run[i + 1] = apply_tx(run[i], h, tx) /\ tx_result(run[i], h, tx) = "Ok"
        BY <3>2
      <4> HIDE DEF tx
      <4>3. CASE fork3_active(h)
        <5>1. apply_tx(run[i], h, tx).nonces[a] =
                run[i].nonces[a] + (IF a = tx.sender THEN 1 ELSE 0)
          BY <3>2, <4>1, <4>2, <4>3, ApplyTxNonces
        <5> QED BY <4>2, <4>3, <5>1 DEF tx
      <4>4. CASE ~ fork3_active(h)
        <5>1. apply_tx(run[i], h, tx).nonces[a] = run[i].nonces[a]
          BY <3>2, <4>1, <4>4, ApplyTxNonces
        <5> QED BY <4>1, <4>2, <4>4, <5>1
      <4> QED BY <4>3, <4>4
    <3>4. /\ IsFiniteSet(sent(i)) /\ Cardinality(sent(i)) \in Nat
          /\ run[i].nonces[a] =
               eng.nonces[a] + (IF fork3_active(h) THEN Cardinality(sent(i)) ELSE 0)
      BY <1>6, <3>1
    <3>5. /\ IsFiniteSet(sent(i + 1))
          /\ Cardinality(sent(i + 1)) =
               Cardinality(sent(i)) + (IF a = txs[i + 1].sender THEN 1 ELSE 0)
      <4>1. CASE a = txs[i + 1].sender
        <5>1. sent(i + 1) = sent(i) \cup {i + 1} /\ i + 1 \notin sent(i)
          BY <4>1
        <5> HIDE DEF sent
        <5> QED BY <3>4, <4>1, <5>1, FS_AddElement
      <4>2. CASE a # txs[i + 1].sender
        <5>1. sent(i + 1) = sent(i)
          BY <4>2
        <5> HIDE DEF sent
        <5> QED BY <3>4, <4>2, <5>1
      <4> QED BY <4>1, <4>2
    <3> HIDE DEF sent
    <3> QED BY <1>4, <3>3, <3>4, <3>5
  <2> QED BY <2>1
<1>7. Len(txs) \in S
  <2> HIDE DEF S
  <2> QED BY <1>5, <1>6, NatSetInduction
<1>8. DOMAIN txs = 1 .. Len(txs)
  OBVIOUS
<1> DEFINE n == Len(txs)
<1>9. /\ n \in Nat /\ n <= n
      /\ sent(n) = {j \in DOMAIN txs : txs[j].sender = a}
  BY <1>8
<1> HIDE DEF n, sent
<1>10. run[n].nonces[a] =
         eng.nonces[a] + (IF fork3_active(h) THEN Cardinality(sent(n)) ELSE 0)
  BY <1>7, <1>9 DEF n
<1> QED BY <1>9, <1>10 DEF run, n

(***************************************************************************)
(* Start-up counts the transactions of finitely many blocks.               *)
(***************************************************************************)

\* A chain's blocks hold finitely many transactions.
LEMMA PositionsFinite ==
  ASSUME NEW bs \in Seq(Block), NEW lo \in Nat \ {0}, NEW hi \in Nat, hi <= Len(bs)
  PROVE  IsFiniteSet(Positions(bs, lo, hi))
<1> DEFINE S == {n \in Nat : n <= Len(bs) => IsFiniteSet(Positions(bs, lo, n))}
<1>1. 0 \in S
  <2>1. Positions(bs, lo, 0) = {}
    BY DEF Positions
  <2> QED BY <2>1, FS_EmptySet
<1>2. ASSUME NEW n \in Nat, n \in S
      PROVE  n + 1 \in S
  <2>1. SUFFICES ASSUME n + 1 <= Len(bs)
                 PROVE  IsFiniteSet(Positions(bs, lo, n + 1))
    OBVIOUS
  <2>2. IsFiniteSet(Positions(bs, lo, n))
    BY <1>2, <2>1
  <2>3. CASE n + 1 < lo
    <3>1. Positions(bs, lo, n + 1) = {}
      BY <2>3 DEF Positions
    <3> QED BY <3>1, FS_EmptySet
  <2>4. CASE n + 1 >= lo
    <3>1. lo .. (n + 1) = (lo .. n) \cup {n + 1}
      BY <2>4
    <3>2. Positions(bs, lo, n + 1) =
            Positions(bs, lo, n) \cup ({n + 1} \X DOMAIN bs[n + 1].txs)
      BY <3>1 DEF Positions
    <3>3. DOMAIN bs[n + 1].txs = 1 .. Len(bs[n + 1].txs) /\ Len(bs[n + 1].txs) \in Nat
      BY <2>1 DEF Block
    <3> DEFINE A == Positions(bs, lo, n)
               D == DOMAIN bs[n + 1].txs
               B == {n + 1} \X D
    <3>4. IsFiniteSet(D) /\ IsFiniteSet({n + 1})
      <4> DEFINE len == Len(bs[n + 1].txs)
      <4>1. len \in Int /\ 1 \in Int /\ D = 1 .. len
        BY <3>3
      <4> HIDE DEF len, D
      <4>2. IsFiniteSet(1 .. len)
        BY <4>1, FS_Interval
      <4> QED BY <4>1, <4>2, FS_Singleton
    <3>5. IsFiniteSet(A) /\ Positions(bs, lo, n + 1) = A \cup B
      BY <2>2, <3>2
    <3> HIDE DEF A, D
    <3>6. IsFiniteSet(B)
      BY <3>4, FS_Product
    <3> HIDE DEF B
    <3>7. IsFiniteSet(A \cup B)
      BY <3>5, <3>6, FS_Union
    <3> QED BY <3>5, <3>7
  <2> QED BY <2>3, <2>4
<1>3. hi \in S
  <2> HIDE DEF S
  <2> QED BY <1>1, <1>2, NatSetInduction
<1> QED BY <1>3

\* rebuild_nonces gives every account a natural number.
LEMMA RebuildNoncesType ==
  ASSUME NEW bs \in Seq(Block), NEW st \in State, st.chain_height <= Len(bs)
  PROVE  rebuild_nonces(bs, st) \in [Accounts -> Nat]
<1>1. st.chain_height \in Nat
  BY DEF State
<1>2. IsFiniteSet(Positions(bs, FORK3_ACTIVATION_HEIGHT, st.chain_height))
  BY <1>1, PositionsFinite, Fork3Assumption
<1>3. ASSUME NEW a \in Accounts
      PROVE  Cardinality({p \in Positions(bs, FORK3_ACTIVATION_HEIGHT, st.chain_height) :
                            tx_at(bs, p).sender = a}) \in Nat
  BY <1>2, FS_Subset, FS_CardinalityType
<1> QED BY <1>3 DEF rebuild_nonces

(***************************************************************************)
(* Draining the queue into a block.                                        *)
(***************************************************************************)

drain_step(d, h, tx) ==
  [engine   |-> apply_tx(d.engine, h, tx),
   accepted |-> IF tx_result(d.engine, h, tx) = "Ok"
                THEN Append(d.accepted, tx) ELSE d.accepted,
   keep     |-> IF tx_result(d.engine, h, tx) = "NonceTooHigh"
                THEN Append(d.keep, tx) ELSE d.keep]

\* Draining the queue is a fold of drain_step over it.
LEMMA DrainUnfold ==
  ASSUME NEW eng, NEW h, NEW queue \in Seq(Transaction)
  PROVE  /\ drain(eng, h, queue)[0] =
              [engine |-> eng, accepted |-> << >>, keep |-> << >>]
         /\ \A i \in 1 .. Len(queue) :
              drain(eng, h, queue)[i] =
                drain_step(drain(eng, h, queue)[i - 1], h, queue[i])
<1> DEFINE start == [engine |-> eng, accepted |-> << >>, keep |-> << >>]
           Run(f, N) == f = [i \in 0 .. N |-> IF i = 0 THEN start
                                             ELSE drain_step(f[i - 1], h, queue[i])]
           S == {N \in Nat : \E f : Run(f, N)}
<1> HIDE DEF start
<1>1. 0 \in S
  <2>1. Run([i \in 0 .. 0 |-> start], 0)
    OBVIOUS
  <2> QED BY <2>1
<1>2. ASSUME NEW N \in Nat, N \in S
      PROVE  N + 1 \in S
  <2>1. PICK f : Run(f, N)
    BY <1>2
  <2> DEFINE g == [i \in 0 .. N + 1 |-> IF i = N + 1 THEN drain_step(f[N], h, queue[N + 1])
                                        ELSE f[i]]
  <2>2. ASSUME NEW i \in 0 .. N + 1
        PROVE  g[i] = IF i = 0 THEN start ELSE drain_step(g[i - 1], h, queue[i])
    <3>1. CASE i = N + 1
      BY <3>1
    <3>2. CASE i \in 0 .. N
      BY <2>1, <3>2
    <3> QED BY <3>1, <3>2
  <2>3. Run(g, N + 1)
    BY <2>2
  <2>4. \E f2 : Run(f2, N + 1)
    BY <2>3
  <2> HIDE DEF Run
  <2> QED BY <2>4
<1>3. Len(queue) \in S /\ Len(queue) \in Nat
  <2> HIDE DEF S
  <2> QED BY <1>1, <1>2, NatSetInduction
<1>4. PICK f : Run(f, Len(queue))
  BY <1>3
<1>5. Run(drain(eng, h, queue), Len(queue))
  BY <1>4 DEF drain, drain_step, start
<1> QED BY <1>3, <1>5 DEF start

\* Draining keeps the ledger conserved, and does not touch the height.
LEMMA DrainLedgerOK ==
  ASSUME NEW eng, LedgerOK(eng), NEW h, NEW queue \in Seq(Transaction)
  PROVE  LET drained == drain(eng, h, queue)[Len(queue)]
         IN  /\ LedgerOK(drained.engine)
             /\ drained.engine.chain_height = eng.chain_height
             /\ drained.accepted \in Seq(Transaction)
             /\ drained.keep \in Seq(Transaction)
<1> DEFINE run == drain(eng, h, queue)
           Good(d) == /\ LedgerOK(d.engine)
                      /\ d.engine.chain_height = eng.chain_height
                      /\ d.accepted \in Seq(Transaction)
                      /\ d.keep \in Seq(Transaction)
           S == {i \in Nat : i <= Len(queue) => Good(run[i])}
<1>0. /\ run[0] = [engine |-> eng, accepted |-> << >>, keep |-> << >>]
      /\ \A i \in 1 .. Len(queue) : run[i] = drain_step(run[i - 1], h, queue[i])
  BY DrainUnfold
<1> HIDE DEF run
<1>1. 0 \in S
  <2>1. run[0].engine = eng /\ run[0].accepted = << >> /\ run[0].keep = << >>
    BY <1>0
  <2>2. << >> \in Seq(Transaction)
    OBVIOUS
  <2> QED BY <2>1, <2>2
<1>2. ASSUME NEW i \in Nat, i \in S
      PROVE  i + 1 \in S
  <2>1. CASE i + 1 <= Len(queue)
    <3>1. run[i + 1] = drain_step(run[i], h, queue[i + 1])
      BY <1>0, <2>1
    <3>2. queue[i + 1] \in Transaction
      BY <2>1
    <3>3. Good(run[i])
      BY <1>2, <2>1
    <3>4. /\ LedgerOK(apply_tx(run[i].engine, h, queue[i + 1]))
          /\ apply_tx(run[i].engine, h, queue[i + 1]).chain_height = eng.chain_height
      BY <3>2, <3>3, ApplyTxLedgerOK
    <3>5. /\ run[i + 1].engine = apply_tx(run[i].engine, h, queue[i + 1])
          /\ run[i + 1].accepted \in {run[i].accepted, Append(run[i].accepted, queue[i + 1])}
          /\ run[i + 1].keep \in {run[i].keep, Append(run[i].keep, queue[i + 1])}
      BY <3>1 DEF drain_step
    <3>6. /\ Append(run[i].accepted, queue[i + 1]) \in Seq(Transaction)
          /\ Append(run[i].keep, queue[i + 1]) \in Seq(Transaction)
      BY <3>2, <3>3
    <3>7. Good(run[i + 1])
      BY <3>3, <3>4, <3>5, <3>6
    <3> HIDE DEF Good
    <3> QED BY <3>7
  <2>2. CASE ~ (i + 1 <= Len(queue))
    BY <2>2
  <2> QED BY <2>1, <2>2
<1>3. Len(queue) \in S
  <2> HIDE DEF S
  <2> QED BY <1>1, <1>2, NatSetInduction
<1> QED BY <1>3 DEF run

(***************************************************************************)
(* TypeOK and SupplyConserved are inductive together: conservation needs   *)
(* the types (a height and a balance are naturals, a queue holds           *)
(* transactions), and the types need the supply to be below the cap (the   *)
(* reward is a natural).  One lemma for each kind of step.                 *)
(***************************************************************************)

Inv == TypeOK /\ SupplyConserved

\* What Inv says of the engine, in the form the ledger lemmas take.
LEMMA InvLedger ==
  ASSUME Inv
  PROVE  /\ LedgerOK(engine)
         /\ next_height \in Nat \ {0}
         /\ saved.chain_height \in Nat
BY DEF Inv, TypeOK, SupplyConserved, LedgerOK, next_height, Engine, State

\* A fresh node satisfies the invariant.
LEMMA InitInv == Init => Inv
<1> SUFFICES ASSUME Init PROVE Inv
  OBVIOUS
<1>1. LedgerOK(genesis) /\ genesis.chain_height = 0
  BY GenesisLedgerOK DEF genesis
<1>2. genesis \in Engine /\ saved \in State /\ saved.chain_height = 0
  BY <1>1 DEF Init, LedgerOK, Engine, State, state
<1>3. blocks \in Seq(Block) /\ Len(blocks) = 0 /\ mempool \in Seq(Transaction)
  BY DEF Init
<1>4. /\ submit \in [SubmitHandlers -> Transaction \cup {None}]
      /\ admin \in [AdminHandlers ->
                       [stage : {"count", "push"}, tx : Transaction] \cup {None}]
      /\ writing = FALSE /\ engine = genesis
  BY DEF Init
<1>6. TypeOK
  BY <1>1, <1>2, <1>3, <1>4 DEF TypeOK
<1>5. SupplyConserved
  BY <1>1 DEF Init, SupplyConserved, LedgerOK, state
<1> QED BY <1>5, <1>6 DEF Inv

\* db.put of the next block leaves a sequence of exactly that length.
LEMMA PutBlockType ==
  ASSUME Inv, ~ writing, NEW b \in Block
  PROVE  /\ put_block(next_height, b) \in Seq(Block)
         /\ Len(put_block(next_height, b)) = next_height
<1>1. /\ blocks \in Seq(Block)
      /\ Len(blocks) \in {next_height - 1, next_height}
      /\ next_height \in Nat \ {0}
  BY InvLedger DEF Inv, TypeOK, next_height
<1> DEFINE h == next_height
           c == [i \in 1 .. h |-> IF i = h THEN b ELSE blocks[i]]
<1> HIDE DEF h
<1>2. put_block(h, b) = c
  BY <1>1 DEF put_block, h
<1>3. \A i \in 1 .. h : c[i] \in Block
  BY <1>1 DEF h
<1>4. c \in Seq(Block) /\ Len(c) = h
  BY <1>1, <1>3 DEF h
<1> QED BY <1>2, <1>4 DEF h

\* A step that replaces the engine by a conserved one a block higher, and
\* stores that block.
LEMMA BlockStep ==
  ASSUME Inv, ~ writing, NEW b \in Block, LedgerOK(engine'),
         engine'.chain_height = next_height,
         mempool' \in Seq(Transaction),
         blocks' = put_block(next_height, b), writing' = TRUE,
         UNCHANGED <<saved, handlers>>
  PROVE  Inv'
<1>1. blocks' \in Seq(Block) /\ Len(blocks') = next_height
  BY PutBlockType
<1>2. /\ TypeOK /\ SupplyConserved /\ next_height = saved.chain_height + 1
      /\ saved.chain_height \in Nat
  BY InvLedger DEF Inv, TypeOK, next_height
<1>3. TypeOK'
  BY <1>1, <1>2 DEF TypeOK, LedgerOK, handlers
<1>4. SupplyConserved'
  BY <1>2 DEF SupplyConserved, LedgerOK
<1> QED BY <1>3, <1>4 DEF Inv

\* The queue in the order the miner takes it is again a queue.
LEMMA OrderedQueue ==
  ASSUME NEW queue \in Seq(Transaction), NEW h, NEW p \in mining_orders(queue, h)
  PROVE  /\ p \in [DOMAIN queue -> DOMAIN queue]
         /\ [i \in DOMAIN queue |-> queue[p[i]]] \in Seq(Transaction)
<1>1. p \in [DOMAIN queue -> DOMAIN queue]
  BY DEF mining_orders, number_orders
<1>2. DOMAIN queue = 1 .. Len(queue) /\ Len(queue) \in Nat
  OBVIOUS
<1>3. \A i \in 1 .. Len(queue) : queue[p[i]] \in Transaction
  BY <1>1, <1>2
<1> QED BY <1>1, <1>2, <1>3

\* POST /api/mining/submit keeps the invariant.
LEMMA MineBlockInv ==
  ASSUME Inv, NEW miner \in Miners, MineBlock(miner)
  PROVE  Inv'
<1>1. miner \in Accounts /\ LedgerOK(engine) /\ mempool \in Seq(Transaction) /\ ~ writing
  BY InvLedger, NodeAssumption DEF MineBlock, Inv, TypeOK
<1>2. PICK p \in mining_orders(mempool, next_height) :
        LET queue   == [i \in DOMAIN mempool |-> mempool[p[i]]]
            drained == drain(engine, next_height, queue)[Len(queue)]
        IN  /\ engine' = process_block_reward(drained.engine, miner)
            /\ mempool' = drained.keep
            /\ blocks' = put_block(next_height,
                                   [miner |-> miner, txs |-> drained.accepted])
  BY DEF MineBlock
<1> DEFINE queue == [i \in DOMAIN mempool |-> mempool[p[i]]]
<1>3. queue \in Seq(Transaction)
  BY <1>1, <1>2, OrderedQueue
<1> DEFINE drained == drain(engine, next_height, queue)[Len(queue)]
<1>4. /\ engine' = process_block_reward(drained.engine, miner)
      /\ mempool' = drained.keep
      /\ blocks' = put_block(next_height, [miner |-> miner, txs |-> drained.accepted])
  BY <1>2
<1> HIDE DEF queue
<1>5. /\ LedgerOK(drained.engine)
      /\ drained.engine.chain_height = engine.chain_height
      /\ drained.accepted \in Seq(Transaction)
      /\ drained.keep \in Seq(Transaction)
  BY <1>1, <1>3, DrainLedgerOK
<1> HIDE DEF drained
<1>6. LedgerOK(engine') /\ engine'.chain_height = next_height
  BY <1>1, <1>4, <1>5, RewardLedgerOK DEF next_height
<1>7. [miner |-> miner, txs |-> drained.accepted] \in Block
  BY <1>1, <1>5 DEF Block
<1>8. writing' = TRUE /\ UNCHANGED <<saved, handlers>> /\ mempool' \in Seq(Transaction)
  BY <1>4, <1>5 DEF MineBlock
<1> QED BY <1>1, <1>4, <1>6, <1>7, <1>8, BlockStep

\* A peer's block, applied or rejected, keeps the invariant.
LEMMA ApplyVerifiedBlockInv ==
  ASSUME Inv, NEW b \in PeerBlocks, ApplyVerifiedBlock(b)
  PROVE  Inv'
<1>1. b \in Block /\ LedgerOK(engine) /\ mempool' \in Seq(Transaction) /\ ~ writing
  BY InvLedger, NodeAssumption DEF ApplyVerifiedBlock, Inv, TypeOK, Block
<1> DEFINE applied == apply_block_txs(engine, next_height, b.txs)
<1>2. LedgerOK(applied) /\ applied.chain_height = engine.chain_height
  BY <1>1, ApplyBlockTxsLedgerOK DEF Block
<1>3. CASE block_txs_ok(engine, next_height, b.txs)
  <2>1. /\ engine' = process_block_reward(applied, b.miner)
        /\ blocks' = put_block(next_height, b)
        /\ writing' = TRUE
        /\ UNCHANGED <<saved, handlers>>
    BY <1>3 DEF ApplyVerifiedBlock
  <2> HIDE DEF applied
  <2>2. LedgerOK(engine') /\ engine'.chain_height = next_height
    BY <1>1, <1>2, <2>1, RewardLedgerOK DEF Block, next_height
  <2> QED BY <1>1, <2>1, <2>2, BlockStep
<1>4. CASE ~ block_txs_ok(engine, next_height, b.txs)
  <2>1. engine' = engine /\ UNCHANGED <<mempool, blocks, saved, submit, admin>>
    BY <1>4 DEF ApplyVerifiedBlock, apply_block_txs, handlers
  <2>2. writing' = block_txs_ok(engine, next_height, b.txs)
    BY DEF ApplyVerifiedBlock
  <2>3. writing' = FALSE /\ writing = FALSE
    BY <1>1, <1>4, <2>2 DEF block_txs_ok, Inv, TypeOK
  <2> QED BY <2>1, <2>3 DEF Inv, TypeOK, SupplyConserved
<1> QED BY <1>3, <1>4

\* The second put keeps the invariant.
LEMMA PutStateInv ==
  ASSUME Inv, PutState
  PROVE  Inv'
<1>1. LedgerOK(engine) /\ TypeOK /\ writing
  BY InvLedger DEF PutState, Inv
<1>2. /\ saved' \in State /\ saved'.chain_height = engine.chain_height
      /\ saved'.balances = engine.balances
      /\ saved'.total_minted_supply = engine.total_minted_supply
  BY <1>1 DEF PutState, state, State, LedgerOK, Engine
<1>3. UNCHANGED <<engine, mempool, blocks, submit, admin>> /\ writing' = FALSE
  BY DEF PutState, handlers
<1>4. TypeOK'
  <2>1. engine' \in Engine /\ mempool' \in Seq(Transaction) /\ blocks' \in Seq(Block)
    BY <1>1, <1>3 DEF TypeOK
  <2>2. engine'.chain_height = saved'.chain_height /\ Len(blocks') = engine'.chain_height
    BY <1>1, <1>2, <1>3 DEF TypeOK, Engine, State
  <2>3. /\ submit' \in [SubmitHandlers -> Transaction \cup {None}]
        /\ admin' \in [AdminHandlers ->
                         [stage : {"count", "push"}, tx : Transaction] \cup {None}]
    BY <1>1, <1>3 DEF TypeOK
  <2> QED BY <1>2, <1>3, <2>1, <2>2, <2>3 DEF TypeOK
<1>5. SupplyConserved'
  BY <1>1, <1>2, <1>3 DEF SupplyConserved, LedgerOK
<1> QED BY <1>4, <1>5 DEF Inv

\* A crash between any two steps, and the restart, keep the invariant.
LEMMA RestartInv ==
  ASSUME Inv, Restart
  PROVE  Inv'
<1>1. /\ TypeOK /\ SupplyConserved /\ saved \in State /\ saved.chain_height \in Nat
      /\ blocks \in Seq(Block) /\ Len(blocks) \in {saved.chain_height, saved.chain_height + 1}
  BY InvLedger DEF Inv, TypeOK
<1>2. rebuild_nonces(blocks, saved) \in [Accounts -> Nat]
  BY <1>1, RebuildNoncesType
<1>3. /\ engine' \in Engine /\ engine'.chain_height = saved.chain_height
      /\ engine'.balances = saved.balances
      /\ engine'.total_minted_supply = saved.total_minted_supply
  BY <1>1, <1>2 DEF Restart, from_state, State, Engine
<1>4. /\ mempool' \in Seq(Transaction) /\ writing' = FALSE
      /\ submit' \in [SubmitHandlers -> Transaction \cup {None}]
      /\ admin' \in [AdminHandlers ->
                        [stage : {"count", "push"}, tx : Transaction] \cup {None}]
      /\ UNCHANGED <<blocks, saved>>
  BY DEF Restart, disk
<1>5. TypeOK'
  BY <1>1, <1>3, <1>4 DEF TypeOK
<1>6. SupplyConserved'
  BY <1>1, <1>3, <1>4 DEF SupplyConserved
<1> QED BY <1>5, <1>6 DEF Inv

\* A step of a handler, which at most changes the queue.
LEMMA HandlerStep ==
  ASSUME Inv, UNCHANGED <<engine, disk, writing>>,
         mempool' \in Seq(Transaction),
         submit' \in [SubmitHandlers -> Transaction \cup {None}],
         admin' \in [AdminHandlers ->
                       [stage : {"count", "push"}, tx : Transaction] \cup {None}]
  PROVE  Inv'
BY DEF Inv, TypeOK, SupplyConserved, disk

\* Both halves of POST /api/submit_tx keep the invariant.
LEMMA SubmitInv ==
  ASSUME Inv, NEW r \in SubmitHandlers,
         (\E tx \in WalletTxs : SubmitCheck(r, tx)) \/ SubmitPush(r)
  PROVE  Inv'
<1>0. TypeOK
  BY DEF Inv
<1>1. ASSUME NEW tx \in WalletTxs, SubmitCheck(r, tx)
      PROVE  Inv'
  <2>1. submit' \in [SubmitHandlers -> Transaction \cup {None}]
    BY <1>0, <1>1, NodeAssumption DEF SubmitCheck, TypeOK
  <2> QED BY <1>0, <1>1, <2>1, HandlerStep DEF SubmitCheck, TypeOK
<1>2. CASE SubmitPush(r)
  <2>1. submit[r] \in Transaction /\ mempool \in Seq(Transaction)
    BY <1>0, <1>2 DEF SubmitPush, TypeOK
  <2>2. mempool' \in Seq(Transaction)
    BY <1>2, <2>1 DEF SubmitPush
  <2>3. submit' \in [SubmitHandlers -> Transaction \cup {None}]
    BY <1>0, <1>2 DEF SubmitPush, TypeOK
  <2> QED BY <1>0, <1>2, <2>2, <2>3, HandlerStep DEF SubmitPush, TypeOK
<1> QED BY <1>1, <1>2

\* The three parts of POST /api/admin/send keep the invariant.
LEMMA AdminInv ==
  ASSUME Inv, NEW r \in AdminHandlers,
         (\E send \in AdminSends : AdminRead(r, send)) \/ AdminCount(r) \/ AdminPush(r)
  PROVE  Inv'
<1> DEFINE Pending == [stage : {"count", "push"}, tx : Transaction]
<1>0. /\ TypeOK /\ engine \in Engine /\ mempool \in Seq(Transaction)
      /\ submit \in [SubmitHandlers -> Transaction \cup {None}]
      /\ admin \in [AdminHandlers -> Pending \cup {None}]
  BY DEF Inv, TypeOK
<1>1. ASSUME NEW send \in AdminSends, AdminRead(r, send)
      PROVE  Inv'
  <2>1. send.vault \in Accounts /\ send.receiver \in Accounts /\ send.amount \in Nat
    BY NodeAssumption, NumAccountsAssumption DEF VaultA, VaultB, Accounts
  <2>2. engine.nonces[send.vault] \in Int /\ WallClock \in Int
    BY <1>0, <2>1, NodeAssumption DEF Engine
  <2> DEFINE fork3 == fork3_active(next_height)
             tx == [sender |-> send.vault, receiver |-> send.receiver,
                    amount |-> send.amount,
                    signature |-> IF fork3 THEN "v2" ELSE "v1",
                    timestamp |-> IF fork3 THEN engine.nonces[send.vault] ELSE WallClock]
             p == [stage |-> IF fork3 THEN "count" ELSE "push", tx |-> tx]
  <2>3. tx \in Transaction
    BY <2>1, <2>2 DEF Transaction, Signatures
  <2>4. admin' = [admin EXCEPT ![r] = p]
    BY <1>1 DEF AdminRead
  <2> HIDE DEF tx
  <2>5. p \in Pending
    BY <2>3
  <2> HIDE DEF p, Pending
  <2>6. admin' \in [AdminHandlers -> Pending \cup {None}]
    BY <1>0, <2>4, <2>5
  <2> QED BY <1>0, <1>1, <2>6, HandlerStep DEF AdminRead, Pending
<1>2. CASE AdminCount(r)
  <2>1. admin[r] \in Pending
    BY <1>0, <1>2 DEF AdminCount
  <2> DEFINE tx == admin[r].tx
             n == queued_from(tx.sender)
             tx2 == [tx EXCEPT !.timestamp = tx.timestamp + n]
             p == [stage |-> "push", tx |-> tx2]
  <2>2. n \in Int
    <3>1. IsFiniteSet(DOMAIN mempool)
      BY <1>0, FS_Interval
    <3> QED BY <3>1, FS_Subset, FS_CardinalityType DEF queued_from
  <2>3. tx \in Transaction
    BY <2>1
  <2>4. admin' = [admin EXCEPT ![r] = p]
    BY <1>2 DEF AdminCount
  <2> HIDE DEF tx, n
  <2>5. tx2 \in Transaction
    BY <2>2, <2>3 DEF Transaction
  <2> HIDE DEF tx2
  <2>6. p \in Pending
    BY <2>5
  <2> HIDE DEF p, Pending
  <2>7. admin' \in [AdminHandlers -> Pending \cup {None}]
    BY <1>0, <2>4, <2>6
  <2> QED BY <1>0, <1>2, <2>7, HandlerStep DEF AdminCount, Pending
<1>3. CASE AdminPush(r)
  <2>1. admin[r].tx \in Transaction
    BY <1>0, <1>3 DEF AdminPush
  <2>2. mempool' \in Seq(Transaction)
    BY <1>0, <1>3, <2>1 DEF AdminPush
  <2> HIDE DEF Pending
  <2>3. admin' \in [AdminHandlers -> Pending \cup {None}]
    BY <1>0, <1>3 DEF AdminPush
  <2> QED BY <1>0, <1>3, <2>2, <2>3, HandlerStep DEF AdminPush, Pending
<1> QED BY <1>1, <1>2, <1>3

\* The invariant is inductive.
LEMMA NextInv == Inv /\ [Next]_vars => Inv'
<1> SUFFICES ASSUME Inv, [Next]_vars PROVE Inv'
  OBVIOUS
<1>1. ASSUME NEW r \in SubmitHandlers, NEW tx \in WalletTxs, SubmitCheck(r, tx)
      PROVE  Inv'
  BY <1>1, SubmitInv
<1>2. ASSUME NEW r \in SubmitHandlers, SubmitPush(r)
      PROVE  Inv'
  BY <1>2, SubmitInv
<1>3. ASSUME NEW r \in AdminHandlers, NEW send \in AdminSends, AdminRead(r, send)
      PROVE  Inv'
  BY <1>3, AdminInv
<1>4. ASSUME NEW r \in AdminHandlers, AdminCount(r) \/ AdminPush(r)
      PROVE  Inv'
  BY <1>4, AdminInv
<1>5. ASSUME NEW miner \in Miners, MineBlock(miner)
      PROVE  Inv'
  BY <1>5, MineBlockInv
<1>6. ASSUME NEW block \in PeerBlocks, ApplyVerifiedBlock(block)
      PROVE  Inv'
  BY <1>6, ApplyVerifiedBlockInv
<1>7. CASE PutState
  BY <1>7, PutStateInv
<1>8. CASE Restart
  BY <1>8, RestartInv
<1>9. CASE UNCHANGED vars
  BY <1>9 DEF vars, disk, handlers, Inv, TypeOK, SupplyConserved
<1> QED BY <1>1, <1>2, <1>3, <1>4, <1>5, <1>6, <1>7, <1>8, <1>9 DEF Next

\* Memory, disk and handlers keep their shape: the height in memory is the saved
\* one, or one more while the second put is pending, and the stored blocks reach
\* that height, with at most one leftover of a crash above it.
THEOREM NodeTypeOK == NodeSpec => []TypeOK
<1>1. Inv => TypeOK
  BY DEF Inv
<1> QED BY <1>1, InitInv, NextInv, PTL DEF NodeSpec

\* No interleaving of submissions, vault sends, mined blocks, peer blocks (valid
\* or not), crashes and restarts creates or destroys coins, and the cap holds,
\* in memory and on disk.
THEOREM NodeSupplyConserved == NodeSpec => []SupplyConserved
<1>1. Inv => SupplyConserved
  BY DEF Inv
<1> QED BY <1>1, InitInv, NextInv, PTL DEF NodeSpec

-----------------------------------------------------------------------------
(***************************************************************************)
(* The stored chain: memory and disk are replays of it, it never spends a  *)
(* number twice, and what is committed is only ever extended by valid      *)
(* blocks.                                                                 *)
(***************************************************************************)


\* The first n blocks are valid, each in the ledger the ones before it add up to.
chain_valid(bs, n) ==
  \A h \in 1 .. n : block_txs_ok(replay(bs, h - 1), h, bs[h].txs)

(***************************************************************************)
(* The transaction counters of a valid chain.                              *)
(***************************************************************************)

\* The counters after a valid block are those after its transactions: the reward
\* does not touch them.
LEMMA ReplayNonces ==
  ASSUME NEW bs \in Seq(Block), NEW n \in Nat, n + 1 <= Len(bs), chain_valid(bs, n + 1)
  PROVE  LET eng == replay(bs, n)
             txs == bs[n + 1].txs
         IN  /\ LedgerOK(eng) /\ LedgerOK(replay(bs, n + 1))
             /\ txs \in Seq(Transaction) /\ block_txs_ok(eng, n + 1, txs)
             /\ replay(bs, n + 1).nonces = block_run(eng, n + 1, txs)[Len(txs)].nonces
<1> DEFINE eng == replay(bs, n)
           txs == bs[n + 1].txs
           after == block_run(eng, n + 1, txs)[Len(txs)]
<1>1. LedgerOK(eng) /\ eng.chain_height = n
  BY ReplayLedgerOK
<1>2. bs[n + 1] \in Block /\ txs \in Seq(Transaction) /\ bs[n + 1].miner \in Accounts
  <2>1. bs[n + 1] \in Block
    OBVIOUS
  <2> QED BY <2>1 DEF Block
<1>3. block_txs_ok(eng, n + 1, txs)
  <2>1. n + 1 \in 1 .. n + 1 /\ (n + 1) - 1 = n
    OBVIOUS
  <2> QED BY <2>1 DEF chain_valid
<1>4. replay(bs, n + 1) = process_block_reward(after, bs[n + 1].miner)
  <2>1. replay(bs, n + 1) = apply_block(eng, bs[n + 1])
    BY ReplayStep
  <2> QED BY <1>1, <1>3, <2>1 DEF apply_block, apply_block_txs
<1>5. after \in Engine
  <2>1. Len(txs) \in 0 .. Len(txs)
    BY <1>2
  <2> HIDE DEF eng, txs
  <2> QED BY <1>1, <1>2, <2>1, BlockRunLedgerOK DEF LedgerOK
<1>6. LedgerOK(replay(bs, n + 1))
  BY ReplayLedgerOK
<1> HIDE DEF after
<1>7. replay(bs, n + 1).nonces = after.nonces
  BY <1>4, <1>5 DEF process_block_reward, Engine
<1> QED BY <1>1, <1>2, <1>3, <1>6, <1>7 DEF after

\* The positions of one block more.
LEMMA PositionsStep ==
  ASSUME NEW bs \in Seq(Block), NEW lo \in Nat \ {0}, NEW n \in Nat, n + 1 <= Len(bs)
  PROVE  Positions(bs, lo, n + 1) =
           IF n + 1 < lo THEN {}
           ELSE Positions(bs, lo, n) \cup ({n + 1} \X DOMAIN bs[n + 1].txs)
<1>1. CASE n + 1 < lo
  BY <1>1 DEF Positions
<1>2. CASE n + 1 >= lo
  <2>1. lo .. (n + 1) = (lo .. n) \cup {n + 1}
    BY <1>2
  <2> QED BY <1>2, <2>1 DEF Positions
<1> QED BY <1>1, <1>2

\* A position lies in a block of its range.
LEMMA PositionsRange ==
  ASSUME NEW bs, NEW lo, NEW hi, NEW p \in Positions(bs, lo, hi)
  PROVE  p[1] \in lo .. hi /\ p[2] \in DOMAIN bs[p[1]].txs /\ p = <<p[1], p[2]>>
BY DEF Positions

\* Counting an account's transactions from the activation height on gives the
\* counter that applying the blocks one by one arrives at.
LEMMA NoncesCount ==
  ASSUME NEW bs \in Seq(Block), NEW n \in Nat, n <= Len(bs), chain_valid(bs, n),
         NEW a \in Accounts
  PROVE  replay(bs, n).nonces[a] =
           Cardinality({p \in Positions(bs, FORK3_ACTIVATION_HEIGHT, n) :
                          tx_at(bs, p).sender = a})
<1> DEFINE lo == FORK3_ACTIVATION_HEIGHT
           pos(h) == Positions(bs, lo, h)
           mine(h) == {p \in pos(h) : tx_at(bs, p).sender = a}
           S == {h \in Nat : h <= n => replay(bs, h).nonces[a] = Cardinality(mine(h))}
<1>1. lo \in Nat \ {0}
  BY Fork3Assumption
<1>2. 0 \in S
  <2>1. mine(0) = {}
    BY <1>1 DEF Positions
  <2>2. replay(bs, 0).nonces[a] = 0
    BY ReplayStep DEF genesis
  <2>3. Cardinality({}) = 0
    BY FS_EmptySet
  <2> HIDE DEF mine
  <2> QED BY <2>1, <2>2, <2>3
<1>3. ASSUME NEW h \in Nat, h \in S
      PROVE  h + 1 \in S
  <2>1. CASE h + 1 <= n
    <3> DEFINE eng == replay(bs, h)
               txs == bs[h + 1].txs
               own == {j \in DOMAIN txs : txs[j].sender = a}
    <3>1. /\ h + 1 <= Len(bs) /\ h <= Len(bs) /\ h <= n /\ chain_valid(bs, h + 1)
      BY <2>1 DEF chain_valid
    <3>2. /\ LedgerOK(eng)
          /\ txs \in Seq(Transaction) /\ block_txs_ok(eng, h + 1, txs)
          /\ replay(bs, h + 1).nonces = block_run(eng, h + 1, txs)[Len(txs)].nonces
      BY <3>1, ReplayNonces
    <3>3. eng.nonces[a] = Cardinality(mine(h)) /\ eng.nonces[a] \in Nat
      BY <1>3, <3>1, <3>2 DEF LedgerOK, Engine
    <3>4. replay(bs, h + 1).nonces[a] =
            eng.nonces[a] + (IF fork3_active(h + 1) THEN Cardinality(own) ELSE 0)
      <4> HIDE DEF eng, txs
      <4>1. block_run(eng, h + 1, txs)[Len(txs)].nonces[a] =
              eng.nonces[a] + (IF fork3_active(h + 1)
                               THEN Cardinality({j \in DOMAIN txs : txs[j].sender = a}) ELSE 0)
        BY <3>2, BlockRunCount
      <4> HIDE DEF own
      <4> QED BY <3>2, <4>1 DEF own
    <3>5. DOMAIN txs = 1 .. Len(txs) /\ Len(txs) \in Nat
      BY <3>2
    <3>6. IsFiniteSet(own)
      <4>1. IsFiniteSet(1 .. Len(txs))
        <5> DEFINE len == Len(txs)
        <5>1. len \in Int /\ 1 \in Int
          BY <3>5
        <5> HIDE DEF len
        <5>2. IsFiniteSet(1 .. len)
          BY <5>1, FS_Interval
        <5> QED BY <5>2 DEF len
      <4> QED BY <3>5, <4>1, FS_Subset
    <3>7. IsFiniteSet(mine(h))
      <4>1. IsFiniteSet(pos(h))
        BY <1>1, <3>1, PositionsFinite
      <4> QED BY <4>1, FS_Subset
    <3>8. CASE h + 1 < lo
      <4>1. pos(h + 1) = {} /\ pos(h) = {}
        BY <1>1, <3>8 DEF Positions
      <4>2. mine(h + 1) = {} /\ mine(h) = {}
        BY <4>1
      <4>3. ~ fork3_active(h + 1)
        BY <1>1, <3>8 DEF fork3_active
      <4> HIDE DEF mine, own, eng
      <4>4. replay(bs, h + 1).nonces[a] = eng.nonces[a]
        BY <3>3, <3>4, <4>3
      <4>5. Cardinality(mine(h + 1)) = Cardinality(mine(h))
        BY <4>2
      <4>6. replay(bs, h + 1).nonces[a] = Cardinality(mine(h + 1))
        BY <3>3, <4>4, <4>5
      <4> QED BY <4>6
    <3>9. CASE h + 1 >= lo
      <4>1. fork3_active(h + 1)
        BY <3>9 DEF fork3_active
      <4>2. pos(h + 1) = pos(h) \cup ({h + 1} \X DOMAIN txs)
        <5>1. ~ (h + 1 < lo)
          BY <1>1, <3>9
        <5> HIDE DEF lo
        <5>2. Positions(bs, lo, h + 1) =
                IF h + 1 < lo THEN {}
                ELSE Positions(bs, lo, h) \cup ({h + 1} \X DOMAIN bs[h + 1].txs)
          BY <1>1, <3>1, PositionsStep
        <5> QED BY <5>1, <5>2
      <4>3. mine(h + 1) = mine(h) \cup ({h + 1} \X own)
        <5>1. \A j : tx_at(bs, <<h + 1, j>>) = txs[j]
          BY DEF tx_at
        <5> HIDE DEF txs, pos
        <5> QED BY <4>2, <5>1
      <4>4. mine(h) \cap ({h + 1} \X own) = {}
        <5>1. \A p \in pos(h) : p[1] # h + 1
          BY <1>1, PositionsRange
        <5> HIDE DEF pos, own
        <5> QED BY <5>1
      <4>5. IsFiniteSet({h + 1}) /\ Cardinality({h + 1}) = 1
        BY FS_Singleton
      <4> HIDE DEF mine, own
      <4>6. /\ IsFiniteSet({h + 1} \X own)
            /\ Cardinality({h + 1} \X own) = 1 * Cardinality(own)
        BY <3>6, <4>5, FS_Product
      <4>7. Cardinality(own) \in Nat /\ Cardinality(mine(h)) \in Nat
        BY <3>6, <3>7, FS_CardinalityType
      <4> DEFINE added == {h + 1} \X own
      <4>8. Cardinality(mine(h) \cup added) =
              Cardinality(mine(h)) + Cardinality(added) - Cardinality(mine(h) \cap added)
        BY <3>7, <4>6, FS_Union
      <4>9. Cardinality(mine(h) \cap added) = 0
        BY <4>4, FS_EmptySet
      <4>10. Cardinality(added) = Cardinality(own)
        BY <4>6, <4>7
      <4>11. Cardinality(mine(h + 1)) = Cardinality(mine(h) \cup added)
        BY <4>3
      <4> HIDE DEF added, eng
      <4> QED BY <3>3, <3>4, <4>1, <4>7, <4>8, <4>9, <4>10, <4>11
    <3> QED BY <1>1, <3>8, <3>9
  <2> QED BY <2>1
<1>4. n \in S
  <2> HIDE DEF S
  <2> QED BY <1>2, <1>3, NatSetInduction
<1> QED BY <1>4

(***************************************************************************)
(* What the queue is drained into is a valid block.                        *)
(***************************************************************************)

\* A valid block stays valid with one more transaction that is valid after it.
LEMMA BlockOkAppend ==
  ASSUME NEW eng, NEW h, NEW txs \in Seq(Transaction), NEW tx \in Transaction,
         block_txs_ok(eng, h, txs),
         tx_result(block_run(eng, h, txs)[Len(txs)], h, tx) = "Ok"
  PROVE  block_txs_ok(eng, h, Append(txs, tx))
<1> DEFINE more == Append(txs, tx)
           run  == block_run(eng, h, txs)
           next == block_run(eng, h, more)
<1>1. \A i \in 0 .. Len(txs) : next[i] = run[i]
  BY BlockRunAppend
<1>2. \A i \in 1 .. Len(txs) : tx_result(run[i - 1], h, txs[i]) = "Ok"
  BY DEF block_txs_ok
<1>3. /\ DOMAIN more = 1 .. Len(txs) + 1 /\ Len(txs) \in Nat /\ more[Len(txs) + 1] = tx
      /\ \A i \in 1 .. Len(txs) : more[i] = txs[i]
  OBVIOUS
<1>4. tx_result(run[Len(txs)], h, tx) = "Ok"
  OBVIOUS
<1> HIDE DEF run, next, more
<1>5. ASSUME NEW i \in DOMAIN more
      PROVE  tx_result(next[i - 1], h, more[i]) = "Ok"
  <2>1. CASE i \in 1 .. Len(txs)
    <3>1. next[i - 1] = run[i - 1]
      BY <1>1, <1>3, <2>1
    <3> QED BY <1>2, <1>3, <2>1, <3>1
  <2>2. CASE i = Len(txs) + 1
    <3>1. next[i - 1] = run[Len(txs)]
      BY <1>1, <1>3, <2>2
    <3> QED BY <1>3, <1>4, <2>2, <3>1
  <2> QED BY <1>3, <2>1, <2>2
<1> QED BY <1>5 DEF block_txs_ok, next, more

\* The transactions drained from the queue form a valid block, and the drained
\* engine is what that block leaves: a peer that applies it arrives at the same
\* balances and counters as the miner.
LEMMA DrainAccepted ==
  ASSUME NEW eng, LedgerOK(eng), NEW h, NEW queue \in Seq(Transaction)
  PROVE  LET drained == drain(eng, h, queue)[Len(queue)]
         IN  /\ drained.accepted \in Seq(Transaction)
             /\ block_txs_ok(eng, h, drained.accepted)
             /\ drained.engine = block_run(eng, h, drained.accepted)[Len(drained.accepted)]
<1> DEFINE run == drain(eng, h, queue)
           Good(d) == /\ d.accepted \in Seq(Transaction)
                      /\ block_txs_ok(eng, h, d.accepted)
                      /\ d.engine = block_run(eng, h, d.accepted)[Len(d.accepted)]
           S == {i \in Nat : i <= Len(queue) => Good(run[i])}
<1>0. /\ run[0] = [engine |-> eng, accepted |-> << >>, keep |-> << >>]
      /\ \A i \in 1 .. Len(queue) : run[i] = drain_step(run[i - 1], h, queue[i])
  BY DrainUnfold
<1> HIDE DEF run
<1>1. 0 \in S
  <2>1. run[0].engine = eng /\ run[0].accepted = << >>
    BY <1>0
  <2>2. << >> \in Seq(Transaction) /\ Len(<< >>) = 0 /\ DOMAIN << >> = {}
    OBVIOUS
  <2>3. block_run(eng, h, << >>)[0] = eng
    BY <2>2, BlockRunUnfold
  <2>4. block_txs_ok(eng, h, << >>)
    BY <2>2 DEF block_txs_ok
  <2> QED BY <2>1, <2>2, <2>3, <2>4
<1>2. ASSUME NEW i \in Nat, i \in S
      PROVE  i + 1 \in S
  <2>1. CASE i + 1 <= Len(queue)
    <3> DEFINE tx == queue[i + 1]
               acc == run[i].accepted
    <3>1. run[i + 1] = drain_step(run[i], h, tx) /\ tx \in Transaction
      BY <1>0, <2>1
    <3>2. Good(run[i])
      BY <1>2, <2>1
    <3> HIDE DEF tx
    <3>3. CASE tx_result(run[i].engine, h, tx) = "Ok"
      <4>1. /\ run[i + 1].engine = apply_tx(run[i].engine, h, tx)
            /\ run[i + 1].accepted = Append(acc, tx)
        BY <3>1, <3>3 DEF drain_step
      <4>2. /\ acc \in Seq(Transaction) /\ block_txs_ok(eng, h, acc)
            /\ run[i].engine = block_run(eng, h, acc)[Len(acc)]
        BY <3>2
      <4> HIDE DEF acc
      <4>3. block_txs_ok(eng, h, Append(acc, tx))
        BY <3>1, <3>3, <4>2, BlockOkAppend
      <4>4. block_run(eng, h, Append(acc, tx))[Len(acc) + 1] = run[i + 1].engine
        BY <3>1, <4>1, <4>2, BlockRunAppend
      <4>5. Append(acc, tx) \in Seq(Transaction) /\ Len(Append(acc, tx)) = Len(acc) + 1
        BY <3>1, <4>2
      <4>6. Good(run[i + 1])
        BY <4>1, <4>3, <4>4, <4>5
      <4> QED BY <4>6
    <3>4. CASE tx_result(run[i].engine, h, tx) # "Ok"
      <4>1. run[i + 1].engine = run[i].engine /\ run[i + 1].accepted = run[i].accepted
        BY <3>1, <3>4 DEF drain_step, apply_tx
      <4>2. Good(run[i + 1])
        BY <3>2, <4>1
      <4> QED BY <4>2
    <3> QED BY <3>3, <3>4
  <2> QED BY <2>1
<1>3. Len(queue) \in S
  <2> HIDE DEF S
  <2> QED BY <1>1, <1>2, NatSetInduction
<1> QED BY <1>3 DEF run

(***************************************************************************)
(* The inductive invariant.  That memory is a replay of the stored blocks  *)
(* is not inductive alone: after a restart the counters come from counting *)
(* the stored transactions, which agrees with a replay only if every       *)
(* stored block is valid.                                                  *)
(***************************************************************************)

ChainInv ==
  /\ EngineIsReplay
  /\ SavedIsReplay
  /\ chain_valid(blocks, engine.chain_height)

IInv == Inv /\ ChainInv

\* db.put of the next block leaves the blocks below it alone, a leftover of a
\* crash at its own height excepted.
LEMMA PutBlockKeeps ==
  ASSUME Inv, ~ writing, NEW b \in Block
  PROVE  /\ put_block(next_height, b) \in Seq(Block)
         /\ Len(put_block(next_height, b)) = next_height
         /\ put_block(next_height, b)[next_height] = b
         /\ \A h \in 1 .. engine.chain_height : put_block(next_height, b)[h] = blocks[h]
<1>1. put_block(next_height, b) \in Seq(Block) /\ Len(put_block(next_height, b)) = next_height
  BY PutBlockType
<1>2. engine.chain_height \in Nat /\ next_height = engine.chain_height + 1
  BY DEF Inv, TypeOK, Engine, next_height
<1> DEFINE n == next_height
           m == IF Len(blocks) > n THEN Len(blocks) ELSE n
<1>3. blocks \in Seq(Block) /\ n \in Nat \ {0} /\ n \in 1 .. m
  BY <1>2 DEF Inv, TypeOK
<1> HIDE DEF n, m
<1>4. put_block(n, b) = [i \in 1 .. m |-> IF i = n THEN b ELSE blocks[i]]
  BY DEF put_block, m
<1>5. \A h \in 1 .. engine.chain_height : h \in 1 .. m /\ h # n
  BY <1>2, <1>3 DEF n, m
<1> QED BY <1>1, <1>3, <1>4, <1>5 DEF n

\* A valid chain with a valid block more, stored at the next height.
LEMMA AcceptBlock ==
  ASSUME IInv, ~ writing, NEW b \in Block,
         block_txs_ok(engine, next_height, b.txs),
         engine' = apply_block(engine, b),
         blocks' = put_block(next_height, b), saved' = saved
  PROVE  ChainInv'
<1> DEFINE n == engine.chain_height
<1>1. /\ n \in Nat /\ next_height = n + 1 /\ saved.chain_height = n
      /\ engine = replay(blocks, n) /\ LedgerOK(engine)
      /\ saved = state(replay(blocks, n)) /\ chain_valid(blocks, n)
  BY InvLedger DEF IInv, Inv, ChainInv, TypeOK, Engine, next_height, EngineIsReplay,
                   SavedIsReplay
<1>2. /\ Len(blocks') = n + 1 /\ blocks'[n + 1] = b
      /\ \A h \in 1 .. n : blocks'[h] = blocks[h]
  BY <1>1, PutBlockKeeps DEF IInv
<1>3. engine'.chain_height = n + 1
  BY <1>1, ApplyBlockLedgerOK
<1> HIDE DEF n
<1>4. \A k \in 0 .. n : replay(blocks', k) = replay(blocks, k)
  <2>1. ASSUME NEW k \in 0 .. n
        PROVE  replay(blocks', k) = replay(blocks, k)
    <3>1. k \in Nat /\ \A h \in 1 .. k : blocks'[h] = blocks[h]
      BY <1>1, <1>2
    <3> QED BY <3>1, ReplayPrefix
  <2> QED BY <2>1
<1>5. replay(blocks', n) = engine
  BY <1>1, <1>4
<1>6. replay(blocks', n + 1) = engine'
  <2>1. replay(blocks', n + 1) = apply_block(replay(blocks', n), blocks'[n + 1])
    BY <1>1, ReplayStep
  <2> QED BY <1>2, <1>5, <2>1
<1>7. EngineIsReplay'
  BY <1>3, <1>6 DEF EngineIsReplay
<1>8. SavedIsReplay'
  BY <1>1, <1>2, <1>5 DEF SavedIsReplay
<1>9. chain_valid(blocks', n + 1)
  <2>1. ASSUME NEW h \in 1 .. n + 1
        PROVE  block_txs_ok(replay(blocks', h - 1), h, blocks'[h].txs)
    <3>1. CASE h \in 1 .. n
      <4>1. replay(blocks', h - 1) = replay(blocks, h - 1) /\ blocks'[h] = blocks[h]
        BY <1>1, <1>2, <1>4, <3>1
      <4> QED BY <1>1, <3>1, <4>1 DEF chain_valid
    <3>2. CASE h = n + 1
      <4>1. replay(blocks', h - 1) = engine /\ blocks'[h] = b /\ h = next_height
        BY <1>1, <1>2, <1>5, <3>2
      <4> QED BY <4>1
    <3> QED BY <1>1, <3>1, <3>2
  <2> QED BY <2>1 DEF chain_valid
<1> QED BY <1>3, <1>7, <1>8, <1>9 DEF ChainInv

\* POST /api/mining/submit stores a valid block, and the engine it leaves is what
\* applying that block gives.
LEMMA MineBlockAccepted ==
  ASSUME Inv, NEW miner \in Miners, MineBlock(miner)
  PROVE  /\ ~ writing /\ saved' = saved /\ writing' = TRUE
         /\ \E b \in Block : /\ block_txs_ok(engine, next_height, b.txs)
                             /\ engine' = apply_block(engine, b)
                             /\ blocks' = put_block(next_height, b)
<1>1. /\ miner \in Accounts /\ LedgerOK(engine) /\ mempool \in Seq(Transaction)
      /\ ~ writing /\ saved' = saved /\ writing' = TRUE
  BY InvLedger, NodeAssumption DEF MineBlock, Inv, TypeOK
<1>2. PICK p \in mining_orders(mempool, next_height) :
        LET queue   == [i \in DOMAIN mempool |-> mempool[p[i]]]
            drained == drain(engine, next_height, queue)[Len(queue)]
        IN  /\ engine' = process_block_reward(drained.engine, miner)
            /\ mempool' = drained.keep
            /\ blocks' = put_block(next_height,
                                   [miner |-> miner, txs |-> drained.accepted])
  BY DEF MineBlock
<1> DEFINE queue == [i \in DOMAIN mempool |-> mempool[p[i]]]
<1>3. queue \in Seq(Transaction)
  BY <1>1, <1>2, OrderedQueue
<1> DEFINE drained == drain(engine, next_height, queue)[Len(queue)]
           b == [miner |-> miner, txs |-> drained.accepted]
<1>4. /\ engine' = process_block_reward(drained.engine, miner)
      /\ blocks' = put_block(next_height, b)
  BY <1>2
<1> HIDE DEF queue
<1>5. /\ drained.accepted \in Seq(Transaction)
      /\ block_txs_ok(engine, next_height, drained.accepted)
      /\ drained.engine =
           block_run(engine, next_height, drained.accepted)[Len(drained.accepted)]
  BY <1>1, <1>3, DrainAccepted
<1> HIDE DEF drained
<1>6. b \in Block /\ b.txs = drained.accepted /\ b.miner = miner
  BY <1>1, <1>5 DEF Block
<1>7. apply_block_txs(engine, next_height, b.txs) = drained.engine
  BY <1>5, <1>6 DEF apply_block_txs
<1>8. apply_block(engine, b) = process_block_reward(drained.engine, miner)
  BY <1>6, <1>7 DEF apply_block, next_height
<1> HIDE DEF b
<1> QED BY <1>1, <1>4, <1>5, <1>6, <1>8

\* A peer's block is stored only if it is valid; a rejected one leaves the engine
\* as it was.
LEMMA ApplyVerifiedBlockAccepted ==
  ASSUME Inv, NEW b \in PeerBlocks, ApplyVerifiedBlock(b)
  PROVE  /\ ~ writing /\ saved' = saved /\ b \in Block
         /\ \/ /\ block_txs_ok(engine, next_height, b.txs)
               /\ engine' = apply_block(engine, b)
               /\ blocks' = put_block(next_height, b)
               /\ writing' = TRUE
            \/ UNCHANGED <<engine, blocks, writing>>
<1>1. ~ writing /\ saved' = saved /\ b \in Block /\ writing \in BOOLEAN
  BY NodeAssumption DEF ApplyVerifiedBlock, Inv, TypeOK, Block
<1>2. CASE block_txs_ok(engine, next_height, b.txs)
  <2>1. /\ engine' = process_block_reward(
                       apply_block_txs(engine, next_height, b.txs), b.miner)
        /\ blocks' = put_block(next_height, b)
        /\ writing' = TRUE
    BY <1>2 DEF ApplyVerifiedBlock
  <2>2. engine' = apply_block(engine, b)
    BY <2>1 DEF apply_block, next_height
  <2> QED BY <1>1, <1>2, <2>1, <2>2
<1>3. CASE ~ block_txs_ok(engine, next_height, b.txs)
  <2>1. engine' = engine /\ blocks' = blocks
    BY <1>3 DEF ApplyVerifiedBlock, apply_block_txs
  <2>2. writing' = block_txs_ok(engine, next_height, b.txs)
    BY DEF ApplyVerifiedBlock
  <2>3. writing' = FALSE /\ writing = FALSE
    BY <1>1, <1>3, <2>2 DEF block_txs_ok
  <2> QED BY <1>1, <2>1, <2>3
<1> QED BY <1>2, <1>3

\* Start-up gives back exactly the engine a replay of the stored blocks gives,
\* counters included, whether or not a block above the saved state was left over.
LEMMA RestartIsReplay ==
  ASSUME IInv, Restart
  PROVE  /\ engine' = replay(blocks, saved.chain_height)
         /\ engine'.chain_height = saved.chain_height
         /\ chain_valid(blocks, saved.chain_height)
<1> DEFINE n == saved.chain_height
           eng == replay(blocks, n)
<1>1. /\ n \in Nat /\ n <= Len(blocks) /\ n <= engine.chain_height
      /\ blocks \in Seq(Block) /\ saved = state(eng)
  BY InvLedger DEF IInv, Inv, ChainInv, TypeOK, SavedIsReplay
<1>2. chain_valid(blocks, n)
  <2>1. engine.chain_height \in Nat /\ chain_valid(blocks, engine.chain_height)
    BY InvLedger DEF IInv, Inv, ChainInv, TypeOK, Engine
  <2> QED BY <1>1, <2>1 DEF chain_valid
<1>3. eng \in Engine /\ eng.chain_height = n
  BY <1>1, ReplayLedgerOK DEF LedgerOK
<1>4. rebuild_nonces(blocks, saved) = eng.nonces
  <2>1. \A a \in Accounts : eng.nonces[a] = rebuild_nonces(blocks, saved)[a]
    BY <1>1, <1>2, NoncesCount DEF rebuild_nonces
  <2>2. rebuild_nonces(blocks, saved) \in [Accounts -> Nat]
    BY <1>1, RebuildNoncesType DEF IInv, Inv, TypeOK
  <2>3. eng.nonces \in [Accounts -> Nat]
    BY <1>3 DEF Engine
  <2> HIDE DEF eng
  <2> QED BY <2>1, <2>2, <2>3
<1> HIDE DEF eng, n
<1>5. /\ saved.balances = eng.balances
      /\ saved.total_minted_supply = eng.total_minted_supply
      /\ saved.chain_height = eng.chain_height
  BY <1>1 DEF state
<1>6. from_state(blocks, saved) = eng
  <2>1. eng = [balances |-> eng.balances, nonces |-> eng.nonces,
               total_minted_supply |-> eng.total_minted_supply,
               chain_height |-> eng.chain_height]
    BY <1>3 DEF Engine
  <2> QED BY <1>4, <1>5, <2>1 DEF from_state
<1>7. engine' = eng
  BY <1>6 DEF Restart
<1> QED BY <1>2, <1>3, <1>7 DEF eng, n

\* A fresh node is a replay of no blocks.
LEMMA InitIInv == Init => IInv
<1> SUFFICES ASSUME Init PROVE IInv
  OBVIOUS
<1>1. Inv /\ engine = genesis /\ saved = state(genesis) /\ blocks = << >>
  BY InitInv DEF Init
<1>2. genesis.chain_height = 0 /\ saved.chain_height = 0 /\ Len(blocks) = 0
  BY <1>1 DEF genesis, state
<1>3. replay(blocks, 0) = genesis
  BY ReplayStep
<1>4. chain_valid(blocks, 0)
  BY DEF chain_valid
<1> QED BY <1>1, <1>2, <1>3, <1>4
        DEF IInv, ChainInv, EngineIsReplay, SavedIsReplay

\* A step that changes neither the engine nor the database.
LEMMA ChainStutter ==
  ASSUME ChainInv, UNCHANGED <<engine, blocks, saved>>
  PROVE  ChainInv'
BY DEF ChainInv, EngineIsReplay, SavedIsReplay, chain_valid

\* The invariant is inductive: mining, a peer's block, the second put, a crash
\* with its restart, and every step of a handler keep it.
LEMMA NextIInv == IInv /\ [Next]_vars => IInv'
<1> SUFFICES ASSUME IInv, [Next]_vars PROVE ChainInv'
  BY NextInv DEF IInv
<1>0. Inv /\ ChainInv
  BY DEF IInv
<1>1. ASSUME NEW r \in SubmitHandlers, NEW tx \in WalletTxs, SubmitCheck(r, tx)
      PROVE  ChainInv'
  BY <1>0, <1>1, ChainStutter DEF SubmitCheck, disk
<1>2. ASSUME NEW r \in SubmitHandlers, SubmitPush(r)
      PROVE  ChainInv'
  BY <1>0, <1>2, ChainStutter DEF SubmitPush, disk
<1>3. ASSUME NEW r \in AdminHandlers, NEW send \in AdminSends, AdminRead(r, send)
      PROVE  ChainInv'
  BY <1>0, <1>3, ChainStutter DEF AdminRead, disk
<1>4. ASSUME NEW r \in AdminHandlers, AdminCount(r) \/ AdminPush(r)
      PROVE  ChainInv'
  BY <1>0, <1>4, ChainStutter DEF AdminCount, AdminPush, disk
<1>5. ASSUME NEW miner \in Miners, MineBlock(miner)
      PROVE  ChainInv'
  BY <1>0, <1>5, MineBlockAccepted, AcceptBlock
<1>6. ASSUME NEW b \in PeerBlocks, ApplyVerifiedBlock(b)
      PROVE  ChainInv'
  <2>1. CASE UNCHANGED <<engine, blocks, writing>>
    BY <1>0, <1>6, <2>1, ApplyVerifiedBlockAccepted, ChainStutter
  <2>2. CASE ~ UNCHANGED <<engine, blocks, writing>>
    BY <1>0, <1>6, <2>2, ApplyVerifiedBlockAccepted, AcceptBlock
  <2> QED BY <2>1, <2>2
<1>7. CASE PutState
  <2>1. /\ engine' = engine /\ blocks' = blocks /\ saved' = state(engine)
        /\ engine.chain_height <= Len(blocks) /\ writing
    BY <1>0, <1>7 DEF PutState, Inv, TypeOK, Engine, State
  <2>2. saved'.chain_height = engine.chain_height
    BY <2>1 DEF state
  <2> QED BY <1>0, <2>1, <2>2
          DEF ChainInv, EngineIsReplay, SavedIsReplay, chain_valid
<1>8. CASE Restart
  <2>1. /\ engine' = replay(blocks, saved.chain_height)
        /\ engine'.chain_height = saved.chain_height
        /\ chain_valid(blocks, saved.chain_height)
        /\ blocks' = blocks /\ saved' = saved
    BY <1>8, RestartIsReplay DEF Restart, disk
  <2> QED BY <1>0, <2>1 DEF ChainInv, EngineIsReplay, SavedIsReplay
<1>9. CASE UNCHANGED vars
  BY <1>0, <1>9, ChainStutter DEF vars, disk
<1> QED BY <1>1, <1>2, <1>3, <1>4, <1>5, <1>6, <1>7, <1>8, <1>9 DEF Next

\* A node that mined a block, one that got it from a peer and one that was
\* restarted from disk in between have the same engine, counters included: the
\* one that replaying the stored blocks from genesis gives.
THEOREM NodeEngineIsReplay == NodeSpec => []EngineIsReplay
<1>1. IInv => EngineIsReplay
  BY DEF IInv, ChainInv
<1> QED BY <1>1, InitIInv, NextIInv, PTL DEF NodeSpec

\* At every point where the process may die, the saved state is what the stored
\* blocks up to its height add up to, and those blocks are all there.
THEOREM NodeSavedIsReplay == NodeSpec => []SavedIsReplay
<1>1. IInv => SavedIsReplay
  BY DEF IInv, ChainInv
<1> QED BY <1>1, InitIInv, NextIInv, PTL DEF NodeSpec

(***************************************************************************)
(* No number is used twice: a consequence of the chain being valid.        *)
(***************************************************************************)

\* In a valid chain the numbers used from the activation height on are below
\* their sender's counter, and no sender uses one twice.
LEMMA ValidChainNumbers ==
  ASSUME NEW bs \in Seq(Block), NEW n \in Nat, n <= Len(bs), chain_valid(bs, n)
  PROVE  \A p \in Positions(bs, FORK3_ACTIVATION_HEIGHT, n) :
           /\ tx_at(bs, p) \in Transaction
           /\ tx_at(bs, p).timestamp < replay(bs, n).nonces[tx_at(bs, p).sender]
           /\ \A q \in Positions(bs, FORK3_ACTIVATION_HEIGHT, n) :
                p # q /\ tx_at(bs, p).sender = tx_at(bs, q).sender
                  => tx_at(bs, p).timestamp # tx_at(bs, q).timestamp
<1> DEFINE lo == FORK3_ACTIVATION_HEIGHT
           pos(h) == Positions(bs, lo, h)
           Bounded(h) == \A p \in pos(h) :
                          /\ tx_at(bs, p) \in Transaction
                          /\ tx_at(bs, p).timestamp < replay(bs, h).nonces[tx_at(bs, p).sender]
           Once(h) == \A p, q \in pos(h) :
                        p # q /\ tx_at(bs, p).sender = tx_at(bs, q).sender
                          => tx_at(bs, p).timestamp # tx_at(bs, q).timestamp
           S == {h \in Nat : h <= n => Bounded(h) /\ Once(h)}
<1>1. lo \in Nat \ {0}
  BY Fork3Assumption
<1>2. 0 \in S
  <2>1. pos(0) = {}
    BY <1>1 DEF Positions
  <2> HIDE DEF pos
  <2> QED BY <2>1
<1>3. ASSUME NEW h \in Nat, h \in S
      PROVE  h + 1 \in S
  <2>1. CASE h + 1 <= n
    <3> DEFINE eng == replay(bs, h)
               txs == bs[h + 1].txs
               next == replay(bs, h + 1)
    <3>1. /\ h + 1 <= Len(bs) /\ h <= n /\ chain_valid(bs, h + 1)
      BY <2>1 DEF chain_valid
    <3>2. /\ LedgerOK(eng) /\ LedgerOK(next)
          /\ txs \in Seq(Transaction) /\ block_txs_ok(eng, h + 1, txs)
          /\ next.nonces = block_run(eng, h + 1, txs)[Len(txs)].nonces
      BY <3>1, ReplayNonces
    <3>3. Bounded(h) /\ Once(h)
      BY <1>3, <3>1
    <3>4. eng.nonces \in [Accounts -> Nat] /\ next.nonces \in [Accounts -> Nat]
      BY <3>2 DEF LedgerOK, Engine
    <3>5. CASE h + 1 < lo
      <4>1. pos(h + 1) = {}
        BY <1>1, <3>5 DEF Positions
      <4> HIDE DEF pos
      <4> QED BY <4>1
    <3>6. CASE h + 1 >= lo
      <4>1. fork3_active(h + 1)
        BY <3>6 DEF fork3_active
      <4>2. pos(h + 1) = pos(h) \cup ({h + 1} \X DOMAIN txs)
        <5>1. ~ (h + 1 < lo)
          BY <1>1, <3>6
        <5> HIDE DEF lo
        <5>2. Positions(bs, lo, h + 1) =
                IF h + 1 < lo THEN {}
                ELSE Positions(bs, lo, h) \cup ({h + 1} \X DOMAIN bs[h + 1].txs)
          BY <1>1, <3>1, PositionsStep
        <5> QED BY <5>1, <5>2
      <4>3. /\ \A a \in Accounts : eng.nonces[a] <= next.nonces[a]
            /\ \A j \in 1 .. Len(txs) :
                 /\ eng.nonces[txs[j].sender] <= txs[j].timestamp
                 /\ txs[j].timestamp < next.nonces[txs[j].sender]
            /\ \A j, k \in 1 .. Len(txs) :
                 j < k /\ txs[j].sender = txs[k].sender => txs[j].timestamp < txs[k].timestamp
        <5> HIDE DEF eng, txs, next
        <5> QED BY <3>2, <4>1, BlockRunNumbers
      <4>4. \A p \in pos(h) : /\ tx_at(bs, p) \in Transaction
                              /\ tx_at(bs, p).sender \in Accounts
                              /\ tx_at(bs, p).timestamp \in Int
                              /\ tx_at(bs, p).timestamp < eng.nonces[tx_at(bs, p).sender]
        <5>1. \A p \in pos(h) : tx_at(bs, p) \in Transaction
          BY <3>3
        <5> HIDE DEF pos
        <5> QED BY <3>3, <5>1 DEF Transaction
      <4>5. \A p \in {h + 1} \X DOMAIN txs :
              \E j \in 1 .. Len(txs) :
                /\ p = <<h + 1, j>> /\ tx_at(bs, p) = txs[j]
                /\ txs[j] \in Transaction /\ txs[j].sender \in Accounts
                /\ txs[j].timestamp \in Int
        <5>1. /\ DOMAIN txs = 1 .. Len(txs)
              /\ \A j \in 1 .. Len(txs) : txs[j] \in Transaction
          BY <3>2
        <5>2. \A j \in 1 .. Len(txs) : /\ txs[j].sender \in Accounts
                                       /\ txs[j].timestamp \in Int
          BY <5>1 DEF Transaction
        <5>3. \A j : tx_at(bs, <<h + 1, j>>) = txs[j]
          BY DEF tx_at
        <5> HIDE DEF txs
        <5> QED BY <5>1, <5>2, <5>3
      <4> HIDE DEF pos, eng, txs, next
      <4>6. Bounded(h + 1)
        <5>1. ASSUME NEW p \in pos(h + 1)
              PROVE  /\ tx_at(bs, p) \in Transaction
                     /\ tx_at(bs, p).timestamp < next.nonces[tx_at(bs, p).sender]
          <6>1. CASE p \in pos(h)
            <7> DEFINE t == tx_at(bs, p).timestamp
                       s == tx_at(bs, p).sender
            <7>1. t \in Int /\ s \in Accounts /\ t < eng.nonces[s]
              BY <4>4, <6>1
            <7> HIDE DEF t, s
            <7>2. eng.nonces[s] \in Nat /\ next.nonces[s] \in Nat
                  /\ eng.nonces[s] <= next.nonces[s]
              BY <3>4, <4>3, <7>1
            <7>3. t < next.nonces[s]
              BY <7>1, <7>2
            <7> QED BY <4>4, <6>1, <7>3 DEF t, s
          <6>2. CASE p \in {h + 1} \X DOMAIN txs
            BY <4>3, <4>5, <6>2
          <6> QED BY <4>2, <5>1, <6>1, <6>2
        <5> QED BY <5>1 DEF next
      <4>7. ASSUME NEW p \in pos(h), NEW q \in {h + 1} \X DOMAIN txs,
                   tx_at(bs, p).sender = tx_at(bs, q).sender
            PROVE  tx_at(bs, p).timestamp < tx_at(bs, q).timestamp
        <5>1. PICK j \in 1 .. Len(txs) : /\ tx_at(bs, q) = txs[j]
                                         /\ txs[j].sender \in Accounts
                                         /\ txs[j].timestamp \in Int
          BY <4>5
        <5> DEFINE t == tx_at(bs, p).timestamp
                   s == tx_at(bs, p).sender
                   u == txs[j].timestamp
        <5>2. /\ t \in Int /\ s \in Accounts /\ t < eng.nonces[s]
              /\ txs[j].sender = s /\ u \in Int
          BY <4>4, <4>7, <5>1
        <5>3. eng.nonces[s] <= u /\ eng.nonces[s] \in Nat
          BY <3>4, <4>3, <5>2
        <5> HIDE DEF t, s, u
        <5>4. t < u
          BY <5>2, <5>3
        <5> QED BY <5>1, <5>4 DEF t, u
      <4>8. Once(h + 1)
        <5>1. ASSUME NEW p \in pos(h + 1), NEW q \in pos(h + 1), p # q,
                     tx_at(bs, p).sender = tx_at(bs, q).sender
              PROVE  tx_at(bs, p).timestamp # tx_at(bs, q).timestamp
          <6> DEFINE last == {h + 1} \X DOMAIN txs
          <6>0. /\ tx_at(bs, p).timestamp \in Int /\ tx_at(bs, q).timestamp \in Int
                /\ p \in pos(h) \/ p \in last
                /\ q \in pos(h) \/ q \in last
            BY <4>2, <4>4, <4>5
          <6>1. CASE p \in pos(h) /\ q \in pos(h)
            BY <3>3, <5>1, <6>1
          <6>2. CASE p \in pos(h) /\ q \in last
            BY <4>7, <5>1, <6>0, <6>2
          <6>3. CASE p \in last /\ q \in pos(h)
            BY <4>7, <5>1, <6>0, <6>3
          <6>4. CASE p \in last /\ q \in last
            <7>1. PICK j \in 1 .. Len(txs) : p = <<h + 1, j>> /\ tx_at(bs, p) = txs[j]
              BY <4>5, <6>4
            <7>2. PICK k \in 1 .. Len(txs) : q = <<h + 1, k>> /\ tx_at(bs, q) = txs[k]
              BY <4>5, <6>4
            <7>3. j # k /\ txs[j].sender = txs[k].sender
              BY <5>1, <7>1, <7>2
            <7>4. j < k \/ k < j
              BY <7>3
            <7>5. txs[j].timestamp < txs[k].timestamp \/ txs[k].timestamp < txs[j].timestamp
              BY <4>3, <7>3, <7>4
            <7> QED BY <6>0, <7>1, <7>2, <7>5
          <6> QED BY <6>0, <6>1, <6>2, <6>3, <6>4
        <5> QED BY <5>1
      <4> HIDE DEF Bounded, Once
      <4> QED BY <4>6, <4>8
    <3> QED BY <1>1, <3>5, <3>6
  <2> QED BY <2>1
<1>4. n \in S
  <2> HIDE DEF S
  <2> QED BY <1>2, <1>3, NatSetInduction
<1> HIDE DEF pos
<1>5. Bounded(n) /\ Once(n)
  BY <1>4
<1> QED BY <1>5 DEF pos

\* Replay protection: from Fork 3 on, no account's number appears twice in the
\* chain, however often the node was restarted and its counters rebuilt.
THEOREM NodeNoNumberTwice == NodeSpec => []NoNumberTwice
<1>1. ASSUME IInv PROVE NoNumberTwice
  <2>1. /\ blocks \in Seq(Block) /\ engine.chain_height \in Nat
        /\ engine.chain_height <= Len(blocks)
        /\ chain_valid(blocks, engine.chain_height)
    BY <1>1 DEF IInv, Inv, ChainInv, TypeOK, Engine, State
  <2> QED BY <2>1, ValidChainNumbers DEF NoNumberTwice
<1> QED BY <1>1, InitIInv, NextIInv, PTL DEF NodeSpec

(***************************************************************************)
(* Refinement: the committed blocks behave as LedgerChain.  Its copies of  *)
(* the ledger rules (Ledger!...) are the rules themselves.                 *)
(***************************************************************************)

\* LedgerChain's rule for a block is the node's.
LEMMA LedgerApplyBlock ==
  ASSUME NEW eng, NEW b
  PROVE  Ledger!apply_block(eng, b) = apply_block(eng, b)
<1>1. ASSUME NEW h, NEW txs
      PROVE  Ledger!apply_block_txs(eng, h, txs) = apply_block_txs(eng, h, txs)
  BY DEF Ledger!apply_block_txs, Ledger!block_txs_ok, Ledger!block_run, Ledger!tx_result,
         Ledger!apply_tx, Ledger!fork3_active, Ledger!apply_transaction,
         Ledger!apply_transaction_v2, Ledger!transfer, Ledger!Accounts,
         apply_block_txs, block_txs_ok, block_run, tx_result, apply_tx, fork3_active,
         apply_transaction, apply_transaction_v2, transfer, Accounts
<1>2. ASSUME NEW e, NEW miner
      PROVE  Ledger!process_block_reward(e, miner) = process_block_reward(e, miner)
  BY DEF Ledger!process_block_reward, Ledger!get_block_reward, Ledger!shift_right,
         process_block_reward, get_block_reward, shift_right
<1> QED BY <1>1, <1>2 DEF Ledger!apply_block, apply_block

\* LedgerChain's replay is the node's.
LEMMA LedgerReplay ==
  ASSUME NEW bs, NEW n \in Nat
  PROVE  Ledger!replay(bs, n) = replay(bs, n)
<1> DEFINE Run(f) == f = [h \in 0 .. n |-> IF h = 0 THEN Ledger!genesis
                                           ELSE Ledger!apply_block(f[h - 1], bs[h])]
           r == replayed(bs, n)
           g == [h \in 0 .. n |-> r[h]]
           l == Ledger!replayed(bs, n)
<1>1. Ledger!genesis = genesis
  BY DEF Ledger!genesis, Ledger!Accounts, Ledger!VaultA, Ledger!VaultB,
         genesis, Accounts, VaultA, VaultB
<1>2. r[0] = genesis /\ \A h \in 1 .. n : r[h] = apply_block(r[h - 1], bs[h])
  BY ReplayedUnfold
<1> HIDE DEF r
<1>3. Run(g)
  <2>1. ASSUME NEW h \in 0 .. n
        PROVE  g[h] = IF h = 0 THEN Ledger!genesis ELSE Ledger!apply_block(g[h - 1], bs[h])
    <3>1. CASE h = 0
      BY <1>1, <1>2, <3>1
    <3>2. CASE h \in 1 .. n
      <4>1. h - 1 \in 0 .. n /\ h # 0
        BY <3>2
      <4> QED BY <1>2, <3>2, <4>1, LedgerApplyBlock
    <3> QED BY <3>1, <3>2
  <2> QED BY <2>1
<1>4. Run(l)
  BY <1>3 DEF Ledger!replayed
<1> HIDE DEF l
<1>5. l[0] = genesis /\ \A h \in 1 .. n : l[h] = apply_block(l[h - 1], bs[h])
  BY <1>1, <1>4, LedgerApplyBlock
<1> DEFINE S == {h \in Nat : h <= n => l[h] = r[h]}
<1>6. 0 \in S
  BY <1>2, <1>5
<1>7. ASSUME NEW h \in Nat, h \in S
      PROVE  h + 1 \in S
  <2>1. CASE h + 1 <= n
    <3>1. h + 1 \in 1 .. n /\ (h + 1) - 1 = h /\ l[h] = r[h]
      BY <1>7, <2>1
    <3>2. l[h + 1] = apply_block(l[h], bs[h + 1]) /\ r[h + 1] = apply_block(r[h], bs[h + 1])
      BY <1>2, <1>5, <3>1
    <3> QED BY <3>1, <3>2
  <2> QED BY <2>1
<1>8. n \in S
  <2> HIDE DEF S
  <2> QED BY <1>6, <1>7, NatSetInduction
<1> QED BY <1>8 DEF Ledger!replay, replay, l, r

\* LedgerChain's notion of a valid block is the node's.
LEMMA LedgerValid ==
  ASSUME NEW bs \in Seq(Block), NEW b
  PROVE  Ledger!Valid(bs, b) <=>
           block_txs_ok(replay(bs, Len(bs)), Len(bs) + 1, b.txs)
<1>1. ASSUME NEW eng, NEW h, NEW txs
      PROVE  Ledger!block_txs_ok(eng, h, txs) <=> block_txs_ok(eng, h, txs)
  BY DEF Ledger!block_txs_ok, Ledger!block_run, Ledger!tx_result,
         Ledger!apply_tx, Ledger!fork3_active, Ledger!apply_transaction,
         Ledger!apply_transaction_v2, Ledger!transfer, Ledger!Accounts,
         block_txs_ok, block_run, tx_result, apply_tx, fork3_active,
         apply_transaction, apply_transaction_v2, transfer, Accounts
<1>2. Ledger!replay(bs, Len(bs)) = replay(bs, Len(bs))
  BY LedgerReplay
<1> QED BY <1>1, <1>2 DEF Ledger!Valid

committed == SubSeq(blocks, 1, saved.chain_height)

\* A prefix of the stored blocks, position by position.
LEMMA Prefix ==
  ASSUME NEW bs \in Seq(Block), NEW n \in Nat, n <= Len(bs)
  PROVE  /\ SubSeq(bs, 1, n) \in Seq(Block) /\ Len(SubSeq(bs, 1, n)) = n
         /\ \A h \in 1 .. n : SubSeq(bs, 1, n)[h] = bs[h]
OBVIOUS

\* The committed chain, position by position.
IsCommitted(c) ==
  /\ saved.chain_height \in Nat
  /\ c \in Seq(Block) /\ Len(c) = saved.chain_height
  /\ \A h \in 1 .. saved.chain_height : c[h] = blocks[h]

\* The committed chain is the stored blocks up to the saved height.
LEMMA Committed == IInv => IsCommitted(committed)
<1> SUFFICES ASSUME IInv PROVE IsCommitted(committed)
  OBVIOUS
<1>1. /\ blocks \in Seq(Block) /\ saved.chain_height \in Nat
      /\ saved.chain_height <= Len(blocks)
  BY InvLedger DEF IInv, Inv, ChainInv, TypeOK, SavedIsReplay
<1> QED BY <1>1, Prefix DEF committed, IsCommitted

\* So it is after a step.
LEMMA CommittedNext == IInv' => IsCommitted(committed)'
BY Committed, PTL

\* A step that leaves the saved height and the blocks up to it alone leaves the
\* committed chain alone.
LEMMA CommittedStutter ==
  ASSUME IInv, IInv', saved'.chain_height = saved.chain_height,
         \A h \in 1 .. saved.chain_height : blocks'[h] = blocks[h]
  PROVE  committed' = committed
<1>1. /\ committed \in Seq(Block) /\ Len(committed) = saved.chain_height
      /\ saved.chain_height \in Nat
      /\ \A h \in 1 .. saved.chain_height : committed[h] = blocks[h]
  BY Committed DEF IsCommitted
<1>2. /\ committed' \in Seq(Block) /\ Len(committed') = saved'.chain_height
      /\ \A h \in 1 .. saved'.chain_height : committed'[h] = blocks'[h]
  BY CommittedNext DEF IsCommitted
<1> HIDE DEF committed
<1> QED BY <1>1, <1>2

\* The second put commits the block that the first one stored.
LEMMA PutStateExtends ==
  ASSUME IInv, IInv', PutState
  PROVE  Ledger!Extend
<1> DEFINE n == saved.chain_height
<1>1. /\ committed \in Seq(Block) /\ Len(committed) = n /\ n \in Nat
      /\ \A h \in 1 .. n : committed[h] = blocks[h]
  BY Committed DEF IsCommitted
<1>2. /\ committed' \in Seq(Block) /\ Len(committed') = saved'.chain_height
      /\ \A h \in 1 .. saved'.chain_height : committed'[h] = blocks'[h]
  BY CommittedNext DEF IsCommitted
<1>3. /\ blocks' = blocks /\ saved'.chain_height = n + 1 /\ engine.chain_height = n + 1
  BY DEF PutState, state, IInv, Inv, TypeOK
<1> HIDE DEF n
<1>4. Len(committed') = n + 1 /\ \A h \in 1 .. n + 1 : committed'[h] = blocks[h]
  BY <1>2, <1>3
<1> DEFINE c == committed
           d == committed'
<1>5. Len(d) = Len(c) + 1
  BY <1>1, <1>4
<1>6. SubSeq(d, 1, Len(c)) = c
  <2>1. c \in Seq(Block) /\ d \in Seq(Block) /\ Len(c) = n /\ Len(d) = n + 1
        /\ \A h \in 1 .. n : d[h] = c[h]
    BY <1>1, <1>2, <1>4
  <2> HIDE DEF c, d
  <2> QED BY <1>1, <2>1
<1>7. block_txs_ok(replay(blocks, n), n + 1, blocks[n + 1].txs)
  <2>1. chain_valid(blocks, n + 1) /\ n + 1 \in 1 .. n + 1 /\ (n + 1) - 1 = n
    BY <1>1, <1>3 DEF IInv, ChainInv
  <2> QED BY <2>1 DEF chain_valid
<1>8. replay(c, n) = replay(blocks, n)
  BY <1>1, ReplayPrefix
<1>9. Ledger!Valid(c, d[Len(d)])
  <2>1. d[Len(d)] = blocks[n + 1] /\ Len(c) = n
    BY <1>1, <1>4
  <2> HIDE DEF d
  <2> QED BY <1>1, <1>7, <1>8, <2>1, LedgerValid
<1> QED BY <1>5, <1>6, <1>9 DEF Ledger!Extend, committed

\* Every step of the node extends the committed chain by one valid block or
\* leaves it as it is.
LEMMA NextExtends ==
  IInv /\ IInv' /\ [Next]_vars =>
    [Ledger!Extend]_(SubSeq(blocks, 1, saved.chain_height))
<1> SUFFICES ASSUME IInv, IInv', [Next]_vars
             PROVE  Ledger!Extend \/ committed' = committed
  BY DEF committed
<1>0. Inv /\ saved.chain_height \in Nat
  BY InvLedger DEF IInv
<1>1. ASSUME UNCHANGED disk
      PROVE  committed' = committed
  BY <1>1 DEF disk, committed
<1>2. ASSUME ~ writing, saved' = saved, NEW b \in Block,
             blocks' = put_block(next_height, b)
      PROVE  committed' = committed
  <2>1. saved.chain_height = engine.chain_height
    BY <1>0, <1>2 DEF Inv, TypeOK
  <2>2. \A h \in 1 .. saved.chain_height : blocks'[h] = blocks[h]
    BY <1>0, <1>2, <2>1, PutBlockKeeps
  <2> QED BY <1>2, <2>2, CommittedStutter
<1>3. ASSUME NEW miner \in Miners, MineBlock(miner)
      PROVE  committed' = committed
  BY <1>0, <1>2, <1>3, MineBlockAccepted
<1>4. ASSUME NEW b \in PeerBlocks, ApplyVerifiedBlock(b)
      PROVE  committed' = committed
  <2>1. ~ writing /\ saved' = saved /\ b \in Block
        /\ (blocks' = put_block(next_height, b) \/ blocks' = blocks)
    BY <1>0, <1>4, ApplyVerifiedBlockAccepted
  <2> QED BY <1>1, <1>2, <2>1 DEF disk
<1>5. CASE PutState
  BY <1>5, PutStateExtends
<1>6. CASE Restart
  BY <1>1, <1>6 DEF Restart
<1>7. ASSUME NEW r \in SubmitHandlers,
             (\E tx \in WalletTxs : SubmitCheck(r, tx)) \/ SubmitPush(r)
      PROVE  committed' = committed
  BY <1>1, <1>7 DEF SubmitCheck, SubmitPush
<1>8. ASSUME NEW r \in AdminHandlers,
             (\E send \in AdminSends : AdminRead(r, send)) \/ AdminCount(r) \/ AdminPush(r)
      PROVE  committed' = committed
  BY <1>1, <1>8 DEF AdminRead, AdminCount, AdminPush
<1>9. CASE UNCHANGED vars
  BY <1>1, <1>9 DEF vars
<1> QED BY <1>3, <1>4, <1>5, <1>6, <1>7, <1>8, <1>9 DEF Next

\* Whatever the node does (mining, peer blocks, the two puts, crashes), the blocks
\* up to its saved height are an append-only chain of valid blocks: the node
\* implements LedgerChain.
THEOREM NodeCommittedChain == NodeSpec => CommittedChain
<1>1. Init => Ledger!Init
  <2> SUFFICES ASSUME Init PROVE Ledger!Init
    OBVIOUS
  <2>1. committed \in Seq(Block) /\ Len(committed) = saved.chain_height
    BY InitIInv, Committed DEF IsCommitted
  <2>2. saved.chain_height = 0
    BY DEF Init, state, genesis
  <2> HIDE DEF committed
  <2>3. committed = << >>
    BY <2>1, <2>2
  <2> QED BY <2>3 DEF Ledger!Init, committed
<1> QED BY <1>1, InitIInv, NextIInv, NextExtends, PTL DEF NodeSpec, CommittedChain, Ledger!Spec

-----------------------------------------------------------------------------
(***************************************************************************)
(* The queue of unconfirmed transactions: what mining leaves in it, and    *)
(* what concurrent submissions may put there.                              *)
(***************************************************************************)


(***************************************************************************)
(* The order in which the miner takes the queue.                           *)
(***************************************************************************)

\* No transaction goes in front of itself.
LEMMA PrecedesIrreflexive ==
  ASSUME NEW queue \in Seq(Transaction), NEW i \in DOMAIN queue
  PROVE  ~ precedes(queue, i, i)
<1>1. queue[i] \in Transaction /\ i \in Nat
  OBVIOUS
<1>2. queue[i].sender \in Int /\ queue[i].timestamp \in Int
  BY <1>1, NumAccountsAssumption DEF Transaction, Accounts
<1> QED BY <1>1, <1>2 DEF precedes

\* The miner's order takes no transaction twice; under Fork 3 it takes an account's
\* transactions by rising number.
LEMMA MiningOrder ==
  ASSUME NEW queue \in Seq(Transaction), NEW h, NEW p \in mining_orders(queue, h)
  PROVE  /\ \A i, j \in DOMAIN queue : i # j => p[i] # p[j]
         /\ fork3_active(h) =>
              \A i, j \in DOMAIN queue :
                i < j /\ queue[p[i]].sender = queue[p[j]].sender
                  => queue[p[i]].timestamp <= queue[p[j]].timestamp
<1>1. p \in [DOMAIN queue -> DOMAIN queue]
  BY OrderedQueue
<1>2. DOMAIN queue = 1 .. Len(queue) /\ Len(queue) \in Nat
  OBVIOUS
<1>3. CASE fork3_active(h)
  <2>1. \A i, j \in DOMAIN queue : i < j => precedes(queue, p[i], p[j])
    BY <1>3 DEF mining_orders, number_orders
  <2>2. ASSUME NEW i \in DOMAIN queue, NEW j \in DOMAIN queue, i # j
        PROVE  p[i] # p[j]
    <3>1. i < j \/ j < i
      BY <1>2, <2>2
    <3>2. precedes(queue, p[i], p[j]) \/ precedes(queue, p[j], p[i])
      BY <2>1, <3>1
    <3> QED BY <1>1, <3>2, PrecedesIrreflexive
  <2>3. ASSUME NEW i \in DOMAIN queue, NEW j \in DOMAIN queue, i < j,
               queue[p[i]].sender = queue[p[j]].sender
        PROVE  queue[p[i]].timestamp <= queue[p[j]].timestamp
    <3> DEFINE s == queue[p[i]]
               t == queue[p[j]]
    <3>1. s \in Transaction /\ t \in Transaction
      BY <1>1, <1>2
    <3>2. s.sender \in Int /\ s.timestamp \in Int /\ t.timestamp \in Int
      <4> HIDE DEF s, t
      <4>1. s.sender \in Accounts /\ s.timestamp \in Int /\ t.timestamp \in Int
        BY <3>1 DEF Transaction
      <4> QED BY <4>1, NumAccountsAssumption DEF Accounts
    <3>3. precedes(queue, p[i], p[j]) /\ s.sender = t.sender
      BY <2>1, <2>3
    <3>4. s.timestamp < t.timestamp \/ s.timestamp = t.timestamp
      BY <3>2, <3>3 DEF precedes
    <3> QED BY <3>2, <3>4
  <2> QED BY <2>2, <2>3
<1>4. CASE ~ fork3_active(h)
  <2>1. \A i \in DOMAIN queue : p[i] = i
    BY <1>4 DEF mining_orders
  <2> QED BY <1>4, <2>1
<1> QED BY <1>3, <1>4

(***************************************************************************)
(* What draining keeps.                                                    *)
(***************************************************************************)

\* A transaction is found to be ahead of its account's number only under Fork 3,
\* and only if it is.
LEMMA NonceTooHigh ==
  ASSUME NEW eng, NEW h, NEW tx, tx_result(eng, h, tx) = "NonceTooHigh"
  PROVE  tx.timestamp > eng.nonces[tx.sender]
BY DEF tx_result, apply_transaction, apply_transaction_v2

\* Once the queue, ordered by number, is drained under Fork 3, every transaction
\* kept is ahead of the counter its account is left with: none that came up later
\* closed the gap before it.
LEMMA DrainGap ==
  ASSUME NEW eng, LedgerOK(eng), NEW h, fork3_active(h),
         NEW queue \in Seq(Transaction),
         \A i, j \in DOMAIN queue :
           i < j /\ queue[i].sender = queue[j].sender
             => queue[i].timestamp <= queue[j].timestamp
  PROVE  LET drained == drain(eng, h, queue)[Len(queue)]
         IN  \A k \in DOMAIN drained.keep :
               drained.keep[k].timestamp > drained.engine.nonces[drained.keep[k].sender]
<1> DEFINE run == drain(eng, h, queue)
           Ahead(d) == \A k \in DOMAIN d.keep :
                         d.keep[k].timestamp > d.engine.nonces[d.keep[k].sender]
           Before(d, i) == \A k \in DOMAIN d.keep : \A j \in i + 1 .. Len(queue) :
                             d.keep[k].sender = queue[j].sender
                               => d.keep[k].timestamp <= queue[j].timestamp
           Good(d, i) == /\ LedgerOK(d.engine) /\ d.keep \in Seq(Transaction)
                         /\ Ahead(d) /\ Before(d, i)
           S == {i \in Nat : i <= Len(queue) => Good(run[i], i)}
<1>0. /\ run[0] = [engine |-> eng, accepted |-> << >>, keep |-> << >>]
      /\ \A i \in 1 .. Len(queue) : run[i] = drain_step(run[i - 1], h, queue[i])
  BY DrainUnfold
<1>1. DOMAIN queue = 1 .. Len(queue) /\ Len(queue) \in Nat
  OBVIOUS
<1> HIDE DEF run
<1>2. 0 \in S
  <2>1. run[0].engine = eng /\ run[0].keep = << >>
    BY <1>0
  <2>2. << >> \in Seq(Transaction) /\ DOMAIN << >> = {}
    OBVIOUS
  <2>3. Good(run[0], 0)
    BY <2>1, <2>2
  <2> HIDE DEF Good
  <2> QED BY <2>3
<1>3. ASSUME NEW i \in Nat, i \in S
      PROVE  i + 1 \in S
  <2>1. CASE i + 1 <= Len(queue)
    <3> DEFINE tx == queue[i + 1]
               d  == run[i]
               e  == run[i + 1]
    <3>1. /\ i + 1 \in 1 .. Len(queue) /\ (i + 1) - 1 = i /\ tx \in Transaction
          /\ Good(d, i)
      <4>1. i + 1 \in 1 .. Len(queue) /\ (i + 1) - 1 = i /\ i <= Len(queue)
        BY <1>1, <2>1
      <4>2. Good(d, i)
        <5> HIDE DEF Good
        <5> QED BY <1>3, <4>1
      <4> HIDE DEF Good
      <4> QED BY <1>1, <4>1, <4>2
    <3>2. e = drain_step(d, h, tx)
      BY <1>0, <3>1
    <3>3. /\ tx.sender \in Accounts /\ tx.timestamp \in Int
          /\ d.engine \in Engine /\ d.engine.nonces \in [Accounts -> Nat]
          /\ d.keep \in Seq(Transaction)
      BY <3>1 DEF Transaction, LedgerOK, Engine
    <3>4. \A k \in DOMAIN d.keep :
            /\ d.keep[k] \in Transaction
            /\ d.keep[k].sender \in Accounts /\ d.keep[k].timestamp \in Int
      <4>1. \A k \in DOMAIN d.keep : d.keep[k] \in Transaction
        BY <3>3
      <4> QED BY <4>1 DEF Transaction
    <3>5. Before(d, i + 1)
      <4>1. i + 1 + 1 .. Len(queue) \subseteq i + 1 .. Len(queue)
        BY <1>1
      <4> QED BY <3>1, <4>1
    <3>6. \A k \in DOMAIN d.keep :
            d.keep[k].sender = tx.sender => d.keep[k].timestamp <= tx.timestamp
      <4>1. i + 1 \in i + 1 .. Len(queue)
        BY <1>1, <3>1
      <4> QED BY <3>1, <4>1
    <3>7. /\ e.engine = apply_tx(d.engine, h, tx)
          /\ LedgerOK(e.engine)
      BY <3>1, <3>2, ApplyTxLedgerOK DEF drain_step
    <3> HIDE DEF tx, d, e
    <3>8. CASE tx_result(d.engine, h, tx) = "Ok"
      <4>1. e.keep = d.keep
        BY <3>2, <3>8 DEF drain_step
      <4>2. /\ tx.timestamp = d.engine.nonces[tx.sender]
            /\ \A a \in Accounts : e.engine.nonces[a] =
                                     d.engine.nonces[a] + (IF a = tx.sender THEN 1 ELSE 0)
        BY <3>1, <3>3, <3>7, <3>8, ApplyTxNonces
      <4>3. ASSUME NEW k \in DOMAIN d.keep
            PROVE  d.keep[k].timestamp > e.engine.nonces[d.keep[k].sender]
        <5>1. d.keep[k].timestamp > d.engine.nonces[d.keep[k].sender]
          BY <3>1
        <5>2. d.keep[k].sender # tx.sender
          <6>1. d.engine.nonces[tx.sender] \in Nat
            BY <3>3
          <6> QED BY <3>3, <3>4, <3>6, <4>2, <5>1, <6>1
        <5>3. d.engine.nonces[d.keep[k].sender] \in Nat
          BY <3>3, <3>4
        <5>4. e.engine.nonces[d.keep[k].sender] = d.engine.nonces[d.keep[k].sender]
          BY <3>4, <4>2, <5>2, <5>3
        <5> QED BY <5>1, <5>4
      <4>4. Good(e, i + 1)
        BY <3>3, <3>5, <3>7, <4>1, <4>3
      <4> HIDE DEF Good
      <4> QED BY <4>4 DEF e
    <3>9. CASE tx_result(d.engine, h, tx) # "Ok"
      <4>1. e.engine = d.engine
        BY <3>7, <3>9 DEF apply_tx
      <4>2. CASE tx_result(d.engine, h, tx) = "NonceTooHigh"
        <5>1. e.keep = Append(d.keep, tx)
          BY <3>2, <4>2 DEF drain_step
        <5>2. tx.timestamp > d.engine.nonces[tx.sender]
          BY <4>2, NonceTooHigh
        <5>3. /\ e.keep \in Seq(Transaction)
              /\ DOMAIN e.keep = DOMAIN d.keep \cup {Len(d.keep) + 1}
              /\ \A k \in DOMAIN d.keep : e.keep[k] = d.keep[k]
              /\ e.keep[Len(d.keep) + 1] = tx
          BY <3>1, <3>3, <5>1
        <5>4. Ahead(e)
          BY <3>1, <4>1, <5>2, <5>3
        <5>5. Before(e, i + 1)
          <6>1. \A j \in i + 1 + 1 .. Len(queue) :
                  tx.sender = queue[j].sender => tx.timestamp <= queue[j].timestamp
            BY <1>1, <3>1 DEF tx
          <6> QED BY <3>5, <5>3, <6>1
        <5>6. Good(e, i + 1)
          BY <3>7, <5>3, <5>4, <5>5
        <5> HIDE DEF Good
        <5> QED BY <5>6 DEF e
      <4>3. CASE tx_result(d.engine, h, tx) # "NonceTooHigh"
        <5>1. e.keep = d.keep
          BY <3>2, <4>3 DEF drain_step
        <5>2. Good(e, i + 1)
          BY <3>1, <3>5, <4>1, <5>1
        <5> HIDE DEF Good
        <5> QED BY <5>2 DEF e
      <4> QED BY <4>2, <4>3
    <3> QED BY <3>8, <3>9
  <2> HIDE DEF Good
  <2> QED BY <2>1
<1>4. Len(queue) \in S
  <2> HIDE DEF S
  <2> QED BY <1>1, <1>2, <1>3, NatSetInduction
<1>5. Ahead(run[Len(queue)])
  <2>1. Good(run[Len(queue)], Len(queue))
    <3> HIDE DEF Good
    <3> QED BY <1>1, <1>4
  <2> QED BY <2>1
<1> QED BY <1>5 DEF run

\* Mining leaves in the queue what draining it in the miner's order keeps, and the
\* counters it leaves are those of the drained engine: the reward does not touch them.
LEMMA MineBlockDrains ==
  ASSUME Inv, NEW miner \in Miners, MineBlock(miner)
  PROVE  \E p \in mining_orders(mempool, next_height) :
           LET queue   == [i \in DOMAIN mempool |-> mempool[p[i]]]
               drained == drain(engine, next_height, queue)[Len(queue)]
           IN  /\ queue \in Seq(Transaction)
               /\ drained.engine \in Engine
               /\ mempool' = drained.keep
               /\ engine'.nonces = drained.engine.nonces
<1>1. LedgerOK(engine) /\ mempool \in Seq(Transaction)
  BY InvLedger DEF Inv, TypeOK
<1>2. PICK p \in mining_orders(mempool, next_height) :
        LET queue   == [i \in DOMAIN mempool |-> mempool[p[i]]]
            drained == drain(engine, next_height, queue)[Len(queue)]
        IN  /\ engine' = process_block_reward(drained.engine, miner)
            /\ mempool' = drained.keep
            /\ blocks' = put_block(next_height,
                                   [miner |-> miner, txs |-> drained.accepted])
  BY DEF MineBlock
<1> DEFINE queue == [i \in DOMAIN mempool |-> mempool[p[i]]]
           drained == drain(engine, next_height, queue)[Len(queue)]
<1>3. queue \in Seq(Transaction)
  BY <1>1, <1>2, OrderedQueue
<1>4. engine' = process_block_reward(drained.engine, miner) /\ mempool' = drained.keep
  BY <1>2
<1> HIDE DEF queue
<1>5. drained.engine \in Engine
  BY <1>1, <1>3, DrainLedgerOK DEF LedgerOK
<1> HIDE DEF drained
<1>6. engine'.nonces = drained.engine.nonces
  BY <1>4, <1>5 DEF process_block_reward, Engine
<1> QED BY <1>3, <1>4, <1>5, <1>6 DEF queue, drained

\* After a block is mined under Fork 3, nothing that is still queued could have gone
\* into it: every kept transaction waits for a number that has not come.
THEOREM NodeKeptOnlyBehindGap == NodeSpec => KeptOnlyBehindGap
<1>1. Inv /\ [Next]_vars =>
        [\A miner \in Miners : MineBlock(miner) /\ fork3_active(next_height) =>
           \A i \in DOMAIN mempool' :
             mempool'[i].timestamp > engine'.nonces[mempool'[i].sender]]_vars
  <2> SUFFICES ASSUME Inv, NEW miner \in Miners, MineBlock(miner),
                      fork3_active(next_height)
               PROVE  \A i \in DOMAIN mempool' :
                        mempool'[i].timestamp > engine'.nonces[mempool'[i].sender]
    OBVIOUS
  <2>1. PICK p \in mining_orders(mempool, next_height) :
          LET queue   == [i \in DOMAIN mempool |-> mempool[p[i]]]
              drained == drain(engine, next_height, queue)[Len(queue)]
          IN  /\ queue \in Seq(Transaction)
              /\ drained.engine \in Engine
              /\ mempool' = drained.keep
              /\ engine'.nonces = drained.engine.nonces
    BY MineBlockDrains
  <2> DEFINE queue == [i \in DOMAIN mempool |-> mempool[p[i]]]
             drained == drain(engine, next_height, queue)[Len(queue)]
  <2>2. /\ queue \in Seq(Transaction) /\ mempool' = drained.keep
        /\ engine'.nonces = drained.engine.nonces
    BY <2>1
  <2>3. \A i, j \in DOMAIN queue :
          i < j /\ queue[i].sender = queue[j].sender
            => queue[i].timestamp <= queue[j].timestamp
    <3>1. mempool \in Seq(Transaction)
      BY DEF Inv, TypeOK
    <3> QED BY <3>1, MiningOrder
  <2>4. LedgerOK(engine)
    BY InvLedger
  <2> HIDE DEF queue
  <2>5. \A k \in DOMAIN drained.keep :
          drained.keep[k].timestamp > drained.engine.nonces[drained.keep[k].sender]
    BY <2>2, <2>3, <2>4, DrainGap
  <2> HIDE DEF drained
  <2> QED BY <2>2, <2>5
<1> QED BY <1>1, InitInv, NextInv, PTL DEF NodeSpec, KeptOnlyBehindGap

(***************************************************************************)
(* Queued numbers.  The property is inductive together with the fact that  *)
(* what an admin handler holds is a vault's: AdminPush appends it without  *)
(* looking at the queue.                                                   *)
(***************************************************************************)

\* Two transactions that compete for one number of one wallet.
clash(s, t) ==
  /\ s.signature = "v2" /\ t.signature = "v2"
  /\ s.sender = t.sender /\ s.sender \notin {VaultA, VaultB}
  /\ s.timestamp = t.timestamp

no_clash(queue) == \A i, j \in DOMAIN queue : i # j => ~ clash(queue[i], queue[j])

QueueInv ==
  /\ no_clash(mempool)
  /\ \A r \in AdminHandlers : admin[r] # None => admin[r].tx.sender \in {VaultA, VaultB}

\* QueuedNumbersUnique in terms of clash.
LEMMA NoClashUnique == no_clash(mempool) <=> QueuedNumbersUnique
BY DEF no_clash, clash, QueuedNumbersUnique

\* Taking the queue in another order brings no clash.
LEMMA OrderNoClash ==
  ASSUME NEW queue \in Seq(Transaction), NEW h, NEW p \in mining_orders(queue, h),
         no_clash(queue)
  PROVE  no_clash([i \in DOMAIN queue |-> queue[p[i]]])
<1>1. p \in [DOMAIN queue -> DOMAIN queue]
  BY OrderedQueue
<1>2. \A i, j \in DOMAIN queue : i # j => p[i] # p[j]
  BY MiningOrder
<1> QED BY <1>1, <1>2 DEF no_clash

\* What draining keeps is taken from the queue, no transaction twice.
LEMMA DrainNoClash ==
  ASSUME NEW eng, NEW h, NEW queue \in Seq(Transaction), no_clash(queue)
  PROVE  no_clash(drain(eng, h, queue)[Len(queue)].keep)
<1> DEFINE run == drain(eng, h, queue)
           Good(keep, i) == /\ keep \in Seq(Transaction) /\ no_clash(keep)
                            /\ \A k \in DOMAIN keep : \E j \in 1 .. i : keep[k] = queue[j]
           S == {i \in Nat : i <= Len(queue) => Good(run[i].keep, i)}
<1>0. /\ run[0] = [engine |-> eng, accepted |-> << >>, keep |-> << >>]
      /\ \A i \in 1 .. Len(queue) : run[i] = drain_step(run[i - 1], h, queue[i])
  BY DrainUnfold
<1>1. /\ DOMAIN queue = 1 .. Len(queue) /\ Len(queue) \in Nat
      /\ \A i \in 1 .. Len(queue) : queue[i] \in Transaction
  OBVIOUS
<1> HIDE DEF run
<1>2. 0 \in S
  <2>1. run[0].keep = << >>
    BY <1>0
  <2>2. << >> \in Seq(Transaction) /\ DOMAIN << >> = {}
    OBVIOUS
  <2>3. Good(run[0].keep, 0)
    BY <2>1, <2>2 DEF no_clash
  <2> HIDE DEF Good
  <2> QED BY <2>3
<1>3. ASSUME NEW i \in Nat, i \in S
      PROVE  i + 1 \in S
  <2>1. CASE i + 1 <= Len(queue)
    <3> DEFINE tx   == queue[i + 1]
               keep == run[i].keep
               next == run[i + 1].keep
    <3>1. i + 1 \in 1 .. Len(queue) /\ (i + 1) - 1 = i /\ i <= Len(queue)
      BY <1>1, <2>1
    <3>2. Good(keep, i)
      <4> HIDE DEF Good
      <4> QED BY <1>3, <3>1
    <3>3. tx \in Transaction /\ run[i + 1] = drain_step(run[i], h, tx)
      BY <1>0, <1>1, <3>1
    <3>4. next = keep \/ next = Append(keep, tx)
      BY <3>3 DEF drain_step
    <3>5. \A k \in DOMAIN keep : \E j \in 1 .. i : keep[k] = queue[j]
      BY <3>2
    <3>6. \A k \in DOMAIN keep : ~ clash(keep[k], tx) /\ ~ clash(tx, keep[k])
      <4>1. \A j \in 1 .. i : ~ clash(queue[j], tx) /\ ~ clash(tx, queue[j])
        <5>1. \A j \in 1 .. i : j \in DOMAIN queue /\ j # i + 1 /\ i + 1 \in DOMAIN queue
          BY <1>1, <3>1
        <5> QED BY <5>1 DEF no_clash
      <4> HIDE DEF tx
      <4> QED BY <3>5, <4>1
    <3>7. tx = queue[i + 1]
      OBVIOUS
    <3> HIDE DEF tx, keep, next
    <3>8. CASE next = keep
      <4>1. \A k \in DOMAIN next : \E j \in 1 .. i + 1 : next[k] = queue[j]
        BY <3>5, <3>8
      <4>2. Good(next, i + 1)
        BY <3>2, <3>8, <4>1
      <4> HIDE DEF Good
      <4> QED BY <4>2 DEF next
    <3>9. CASE next = Append(keep, tx)
      <4>1. /\ next \in Seq(Transaction)
            /\ DOMAIN next = DOMAIN keep \cup {Len(keep) + 1}
            /\ \A k \in DOMAIN keep : next[k] = keep[k]
            /\ next[Len(keep) + 1] = tx
        BY <3>2, <3>3, <3>9
      <4>2. \A k \in DOMAIN next : \E j \in 1 .. i + 1 : next[k] = queue[j]
        <5>1. \A k \in DOMAIN keep : \E j \in 1 .. i + 1 : next[k] = queue[j]
          BY <3>5, <4>1
        <5>2. i + 1 \in 1 .. i + 1
          OBVIOUS
        <5> QED BY <3>7, <4>1, <5>1, <5>2
      <4>3. no_clash(next)
        BY <3>2, <3>6, <4>1 DEF no_clash
      <4>4. Good(next, i + 1)
        BY <4>1, <4>2, <4>3
      <4> HIDE DEF Good
      <4> QED BY <4>4 DEF next
    <3> QED BY <3>4, <3>8, <3>9
  <2> HIDE DEF Good
  <2> QED BY <2>1
<1>4. Len(queue) \in S
  <2> HIDE DEF S
  <2> QED BY <1>1, <1>2, <1>3, NatSetInduction
<1> QED BY <1>1, <1>4 DEF run

\* Appending a transaction that clashes with none queued brings no clash.
LEMMA AppendNoClash ==
  ASSUME NEW queue \in Seq(Transaction), no_clash(queue), NEW tx \in Transaction,
         \A i \in DOMAIN queue : ~ clash(queue[i], tx)
  PROVE  no_clash(Append(queue, tx))
<1> DEFINE more == Append(queue, tx)
<1>1. /\ DOMAIN more = DOMAIN queue \cup {Len(queue) + 1}
      /\ \A i \in DOMAIN queue : more[i] = queue[i]
      /\ more[Len(queue) + 1] = tx
  OBVIOUS
<1>2. \A i \in DOMAIN queue : ~ clash(tx, queue[i])
  BY DEF clash
<1> HIDE DEF more
<1>3. no_clash(more)
  BY <1>1, <1>2 DEF no_clash
<1> QED BY <1>3 DEF more

\* The queue of a fresh node is empty.
LEMMA InitQueueInv == Init => QueueInv
BY DEF Init, QueueInv, no_clash

\* Queue and admin handlers keep the invariant: the push of a submission checks the
\* queue again under its lock, a vault's send never clashes, mining only removes and
\* a restart empties.
LEMMA NextQueueInv == Inv /\ QueueInv /\ [Next]_vars => QueueInv'
<1> SUFFICES ASSUME Inv, QueueInv, [Next]_vars PROVE QueueInv'
  OBVIOUS
<1>0. /\ mempool \in Seq(Transaction) /\ no_clash(mempool)
      /\ submit \in [SubmitHandlers -> Transaction \cup {None}]
      /\ admin \in [AdminHandlers ->
                       [stage : {"count", "push"}, tx : Transaction] \cup {None}]
      /\ \A r \in AdminHandlers : admin[r] # None => admin[r].tx.sender \in {VaultA, VaultB}
  BY DEF Inv, TypeOK, QueueInv
<1>1. ASSUME UNCHANGED <<mempool, admin>>
      PROVE  QueueInv'
  BY <1>0, <1>1 DEF QueueInv
<1>2. ASSUME NEW r \in SubmitHandlers, NEW tx \in WalletTxs, SubmitCheck(r, tx)
      PROVE  QueueInv'
  BY <1>1, <1>2 DEF SubmitCheck
<1>3. ASSUME NEW r \in SubmitHandlers, SubmitPush(r)
      PROVE  QueueInv'
  <2> DEFINE tx == submit[r]
  <2>1. tx \in Transaction /\ admin' = admin
    BY <1>0, <1>3 DEF SubmitPush
  <2>2. CASE mempool' = mempool
    BY <1>1, <2>1, <2>2
  <2>3. CASE mempool' # mempool
    <3>1. ~ already_queued(mempool, tx) /\ mempool' = Append(mempool, tx)
      BY <1>3, <2>3 DEF SubmitPush
    <3> HIDE DEF tx
    <3>2. \A i \in DOMAIN mempool : ~ clash(mempool[i], tx)
      BY <3>1 DEF already_queued, clash
    <3>3. no_clash(mempool')
      BY <1>0, <2>1, <3>1, <3>2, AppendNoClash
    <3> QED BY <1>0, <2>1, <3>3 DEF QueueInv
  <2> QED BY <2>2, <2>3
<1>4. ASSUME NEW r \in AdminHandlers, NEW send \in AdminSends, AdminRead(r, send)
      PROVE  QueueInv'
  <2>1. send.vault \in {VaultA, VaultB}
    BY NodeAssumption
  <2> DEFINE fork3 == fork3_active(next_height)
             tx == [sender |-> send.vault, receiver |-> send.receiver,
                    amount |-> send.amount,
                    signature |-> IF fork3 THEN "v2" ELSE "v1",
                    timestamp |-> IF fork3 THEN engine.nonces[send.vault] ELSE WallClock]
             x == [stage |-> IF fork3 THEN "count" ELSE "push", tx |-> tx]
  <2>2. mempool' = mempool /\ admin' = [admin EXCEPT ![r] = x]
    BY <1>4 DEF AdminRead
  <2>3. x.tx.sender = send.vault
    OBVIOUS
  <2> HIDE DEF x
  <2> QED BY <1>0, <2>1, <2>2, <2>3 DEF QueueInv
<1>5. ASSUME NEW r \in AdminHandlers, AdminCount(r)
      PROVE  QueueInv'
  <2> DEFINE tx == admin[r].tx
             tx2 == [tx EXCEPT !.timestamp = @ + queued_from(tx.sender)]
  <2>1. /\ mempool' = mempool /\ admin[r] # None
        /\ admin' = [admin EXCEPT ![r] = [stage |-> "push", tx |-> tx2]]
    BY <1>5 DEF AdminCount
  <2>2. tx \in Transaction /\ tx.sender \in {VaultA, VaultB}
    BY <1>0, <2>1
  <2>3. tx2.sender = tx.sender
    BY <2>2 DEF Transaction
  <2> HIDE DEF tx2, tx
  <2>4. \A q \in AdminHandlers : admin'[q] # None => admin'[q].tx.sender \in {VaultA, VaultB}
    BY <1>0, <2>1, <2>2, <2>3
  <2> QED BY <1>0, <2>1, <2>4 DEF QueueInv
<1>6. ASSUME NEW r \in AdminHandlers, AdminPush(r)
      PROVE  QueueInv'
  <2> DEFINE tx == admin[r].tx
  <2>1. /\ admin[r] # None /\ mempool' = Append(mempool, tx)
        /\ admin' = [admin EXCEPT ![r] = None]
    BY <1>6 DEF AdminPush
  <2>2. tx \in Transaction /\ tx.sender \in {VaultA, VaultB}
    BY <1>0, <2>1
  <2> HIDE DEF tx
  <2>3. \A i \in DOMAIN mempool : ~ clash(mempool[i], tx)
    BY <2>2 DEF clash
  <2>4. no_clash(mempool')
    BY <1>0, <2>1, <2>2, <2>3, AppendNoClash
  <2> QED BY <1>0, <2>1, <2>4 DEF QueueInv
<1>7. ASSUME NEW miner \in Miners, MineBlock(miner)
      PROVE  QueueInv'
  <2>1. PICK p \in mining_orders(mempool, next_height) :
          LET queue   == [i \in DOMAIN mempool |-> mempool[p[i]]]
              drained == drain(engine, next_height, queue)[Len(queue)]
          IN  /\ queue \in Seq(Transaction)
              /\ drained.engine \in Engine
              /\ mempool' = drained.keep
              /\ engine'.nonces = drained.engine.nonces
    BY <1>7, MineBlockDrains
  <2> DEFINE queue == [i \in DOMAIN mempool |-> mempool[p[i]]]
  <2>2. queue \in Seq(Transaction) /\ mempool' = drain(engine, next_height, queue)[Len(queue)].keep
    BY <2>1
  <2>3. no_clash(queue)
    BY <1>0, OrderNoClash
  <2> HIDE DEF queue
  <2>4. no_clash(mempool')
    BY <2>2, <2>3, DrainNoClash
  <2>5. admin' = admin
    BY <1>7 DEF MineBlock, handlers
  <2> QED BY <1>0, <2>4, <2>5 DEF QueueInv
<1>8. ASSUME NEW b \in PeerBlocks, ApplyVerifiedBlock(b)
      PROVE  QueueInv'
  BY <1>1, <1>8 DEF ApplyVerifiedBlock, handlers
<1>9. CASE PutState
  BY <1>1, <1>9 DEF PutState, handlers
<1>10. CASE Restart
  BY <1>10 DEF Restart, QueueInv, no_clash
<1>11. CASE UNCHANGED vars
  BY <1>1, <1>11 DEF vars, handlers
<1> QED BY <1>2, <1>3, <1>4, <1>5, <1>6, <1>7, <1>8, <1>9, <1>10, <1>11 DEF Next

\* Two concurrent submissions never leave two queued transactions of one wallet
\* with the same number, although each checks the engine before it takes the queue.
THEOREM NodeQueuedNumbersUnique == NodeSpec => []QueuedNumbersUnique
<1>1. QueueInv => QueuedNumbersUnique
  BY NoClashUnique DEF QueueInv
<1> QED BY <1>1, InitInv, NextInv, InitQueueInv, NextQueueInv, PTL DEF NodeSpec
=============================================================================
