----------------------------- MODULE Consensus -----------------------------
(***************************************************************************)
(* The ledger rules of src/consensus.rs: what one transaction, one block   *)
(* and one mining reward do to the engine.  The module has no variables;   *)
(* it is the library the node and the network modules are built on.        *)
(*                                                                         *)
(* An engine is a record                                                   *)
(*   [balances, nonces : [Accounts -> Nat],                                *)
(*    total_minted_supply, chain_height : Nat].                            *)
(* The code's HashMaps answer 0 for an absent key, so they are total       *)
(* functions here.  The engine's difficulty_bits plays no part in what a   *)
(* transaction does and is kept by the modules that model difficulty.      *)
(*                                                                         *)
(* Accounts are numbered: the number stands for the public key, and the    *)
(* order of the numbers for the byte order the code sorts keys by.  A      *)
(* signature is abstracted to the message it signs: "v1" (sender,          *)
(* receiver, amount), "v2" (those, the chain ID and the nonce of the same  *)
(* transaction) or "bad" (anything else).                                  *)
(***************************************************************************)
EXTENDS Integers, Sequences

CONSTANTS
  NumAccounts,              \* accounts 1 .. NumAccounts
  ShortAddresses,           \* accounts whose key is not ADDRESS_LEN bytes long
  GLOBAL_MAX_SUPPLY, VAULT_A_ALLOCATION, VAULT_B_ALLOCATION,
  INITIAL_REWARD, HALVING_INTERVAL,
  FORK3_ACTIVATION_HEIGHT

Accounts == 1 .. NumAccounts
VaultA == 1
VaultB == 2

ASSUME NumAccountsAssumption == NumAccounts \in Nat /\ NumAccounts >= 2
ASSUME ShortAddressesAssumption == ShortAddresses \subseteq Accounts
ASSUME SupplyAssumption ==
  /\ GLOBAL_MAX_SUPPLY \in Nat
  /\ VAULT_A_ALLOCATION \in Nat
  /\ VAULT_B_ALLOCATION \in Nat
  /\ VAULT_A_ALLOCATION + VAULT_B_ALLOCATION <= GLOBAL_MAX_SUPPLY
ASSUME RewardAssumption ==
  INITIAL_REWARD \in Nat /\ HALVING_INTERVAL \in Nat \ {0}
ASSUME Fork3Assumption == FORK3_ACTIVATION_HEIGHT \in Nat \ {0}

Signatures == {"v1", "v2", "bad"}

Transaction ==
  [sender : Accounts, receiver : Accounts, amount : Nat,
   signature : Signatures, timestamp : Int]

Engine ==
  [balances : [Accounts -> Nat], nonces : [Accounts -> Nat],
   total_minted_supply : Nat, chain_height : Nat]

genesis ==
  [balances |-> [a \in Accounts |-> CASE a = VaultA -> VAULT_A_ALLOCATION
                                      [] a = VaultB -> VAULT_B_ALLOCATION
                                      [] OTHER      -> 0],
   nonces |-> [a \in Accounts |-> 0],
   total_minted_supply |-> VAULT_A_ALLOCATION + VAULT_B_ALLOCATION,
   chain_height |-> 0]

(***************************************************************************)
(* Block rewards.                                                          *)
(***************************************************************************)

\* reward >> k
shift_right(reward, k) ==
  LET half[i \in 0 .. k] == IF i = 0 THEN reward ELSE half[i - 1] \div 2 IN half[k]

\* Mutant of get_block_reward: the last reward is not cut to what is left.
get_block_reward_uncut(eng) ==
  LET halvings == eng.chain_height \div HALVING_INTERVAL
  IN  IF eng.total_minted_supply >= GLOBAL_MAX_SUPPLY \/ halvings >= 64 THEN 0
      ELSE shift_right(INITIAL_REWARD, halvings)

get_block_reward(eng) ==
  LET halvings == eng.chain_height \div HALVING_INTERVAL
      reward   == shift_right(INITIAL_REWARD, halvings)
      room     == GLOBAL_MAX_SUPPLY - eng.total_minted_supply
  IN  IF eng.total_minted_supply >= GLOBAL_MAX_SUPPLY \/ halvings >= 64 THEN 0
      ELSE IF reward < room THEN reward ELSE room

\* The height advances whether or not there is anything left to mint.
process_block_reward(eng, miner) ==
  [eng EXCEPT !.balances[miner] = @ + get_block_reward(eng),
              !.total_minted_supply = @ + get_block_reward(eng),
              !.chain_height = @ + 1]

(***************************************************************************)
(* One transaction.  tx_result is the Ok / Err(TxError) of the code, in    *)
(* the order in which the code tests for each error.                       *)
(***************************************************************************)

fork3_active(h) == h >= FORK3_ACTIVATION_HEIGHT

apply_transaction(eng, tx) ==
  IF tx.amount = 0 THEN "ZeroAmount"
  ELSE IF tx.signature # "v1" THEN "InvalidSignature"
  ELSE IF eng.balances[tx.sender] < tx.amount THEN "InsufficientBalance"
  ELSE "Ok"

\* Mutant of apply_transaction_v2: the balance is not looked at.
apply_transaction_v2_unfunded(eng, tx) ==
  IF tx.amount = 0 THEN "ZeroAmount"
  ELSE IF {tx.sender, tx.receiver} \cap ShortAddresses # {} THEN "BadAddress"
  ELSE IF tx.timestamp < eng.nonces[tx.sender] THEN "NonceTooLow"
  ELSE IF tx.timestamp > eng.nonces[tx.sender] THEN "NonceTooHigh"
  ELSE IF tx.signature # "v2" THEN "InvalidSignature"
  ELSE "Ok"

apply_transaction_v2(eng, tx) ==
  IF tx.amount = 0 THEN "ZeroAmount"
  ELSE IF {tx.sender, tx.receiver} \cap ShortAddresses # {} THEN "BadAddress"
  ELSE IF tx.timestamp < eng.nonces[tx.sender] THEN "NonceTooLow"
  ELSE IF tx.timestamp > eng.nonces[tx.sender] THEN "NonceTooHigh"
  ELSE IF tx.signature # "v2" THEN "InvalidSignature"
  ELSE IF eng.balances[tx.sender] < tx.amount THEN "InsufficientBalance"
  ELSE "Ok"

tx_result(eng, h, tx) ==
  IF ~ fork3_active(h) THEN apply_transaction(eng, tx)
  ELSE IF tx.timestamp < 0 THEN "BadNonce"
  ELSE apply_transaction_v2(eng, tx)

transfer(balances, tx) ==
  LET debited == [balances EXCEPT ![tx.sender] = @ - tx.amount]
  IN  [debited EXCEPT ![tx.receiver] = @ + tx.amount]

\* Before Fork 3 the transaction counters are left alone.
apply_tx(eng, h, tx) ==
  IF tx_result(eng, h, tx) # "Ok" THEN eng
  ELSE [eng EXCEPT !.balances = transfer(@, tx),
                   !.nonces[tx.sender] = IF fork3_active(h) THEN @ + 1 ELSE @]

(***************************************************************************)
(* A block's transactions, applied in order.  run[i] is the engine after   *)
(* the first i of them.  apply_block_txs restores the backup when any one  *)
(* of them fails.                                                          *)
(***************************************************************************)

block_run(eng, h, txs) ==
  LET run[i \in 0 .. Len(txs)] ==
        IF i = 0 THEN eng ELSE apply_tx(run[i - 1], h, txs[i])
  IN  run

block_txs_ok(eng, h, txs) ==
  \A i \in DOMAIN txs : tx_result(block_run(eng, h, txs)[i - 1], h, txs[i]) = "Ok"

\* Mutant of apply_block_txs: what went before the failure is not undone.
apply_block_txs_not_undone(eng, h, txs) == block_run(eng, h, txs)[Len(txs)]

apply_block_txs(eng, h, txs) ==
  IF block_txs_ok(eng, h, txs) THEN block_run(eng, h, txs)[Len(txs)] ELSE eng

(***************************************************************************)
(* Blocks.  A block is [miner : Accounts, txs : Seq(Transaction)] and its  *)
(* height is its place in the chain.                                       *)
(***************************************************************************)

Block == [miner : Accounts, txs : Seq(Transaction)]

apply_block(eng, block) ==
  process_block_reward(
    apply_block_txs(eng, eng.chain_height + 1, block.txs), block.miner)

\* replayed(blocks, n)[h] is the engine after the first h blocks, from genesis.
replayed(blocks, n) ==
  LET run[h \in 0 .. n] ==
        IF h = 0 THEN genesis ELSE apply_block(run[h - 1], blocks[h])
  IN  run

replay(blocks, h) == replayed(blocks, h)[h]

(***************************************************************************)
(* The sum of all balances, for the conservation properties.               *)
(***************************************************************************)

balance_sums(balances) ==
  LET sums[n \in 0 .. NumAccounts] ==
        IF n = 0 THEN 0 ELSE sums[n - 1] + balances[n]
  IN  sums

TotalBalance(balances) == balance_sums(balances)[NumAccounts]
=============================================================================
