------------------------------- MODULE Node --------------------------------
(***************************************************************************)
(* One running node: the consensus engine, the queue of unconfirmed        *)
(* transactions, the RocksDB database, and the handlers that share them.   *)
(*                                                                         *)
(* The engine and the queue are each behind a tokio mutex.  A handler that *)
(* holds one lock for several steps of the code does them in one action;   *)
(* a handler that takes a lock, lets it go and takes another is split      *)
(* there, and keeps in its own slot what it read.  The database is written *)
(* with two separate puts (block, then state): both happen under the       *)
(* engine lock, and a crash may fall between them, so the lock is held     *)
(* across two actions (writing).                                           *)
(*                                                                         *)
(* Left to other modules: difficulty, timestamps and the choice between    *)
(* chains.  A proof of work handed to mining/submit always suffices, and a *)
(* peer's block always links to the tip; either may still carry any        *)
(* transactions.  A put never fails (the code ignores or unwraps it).      *)
(***************************************************************************)
EXTENDS Consensus, FiniteSets

CONSTANTS
  SubmitHandlers,           \* concurrent POST /api/submit_tx handlers
  AdminHandlers,            \* concurrent POST /api/admin/send handlers
  WalletTxs,                \* transactions clients submit
  AdminSends,               \* [vault, receiver, amount] the operator asks for
  PeerBlocks,               \* blocks peers offer, [miner, txs]
  Miners,                   \* accounts that submit proofs of work
  MAX_MEMPOOL_TXS,
  MAX_PENDING_NONCE_AHEAD,
  WallClock,                \* Utc::now() as a timestamp: far above any nonce
  MaxHeight,                \* bound: no block is added above this height
  MaxQueue,                 \* bound: admin sends stop when this many are queued
  None                      \* an idle handler

ASSUME NodeAssumption ==
  /\ WalletTxs \subseteq Transaction
  /\ AdminSends \subseteq [vault : {VaultA, VaultB}, receiver : Accounts, amount : Nat]
  /\ PeerBlocks \subseteq [miner : Accounts, txs : Seq(Transaction)]
  /\ Miners \subseteq Accounts
  /\ MAX_MEMPOOL_TXS \in Nat /\ MAX_PENDING_NONCE_AHEAD \in Nat
  /\ WallClock \in Nat /\ MaxHeight \in Nat /\ MaxQueue \in Nat
  /\ None \notin Transaction

VARIABLES
  engine,     \* the engine in memory
  mempool,    \* the queue in memory, oldest first
  blocks,     \* on disk: key block_h holds blocks[h]
  saved,      \* on disk: key STATE_KEY, an engine without its nonces
  writing,    \* engine lock held: the block is on disk, the state not yet
  submit,     \* per handler: the checked transaction it is about to queue
  admin       \* per handler: the vault transaction it is putting together

disk == <<blocks, saved>>
handlers == <<submit, admin>>
vars == <<engine, mempool, disk, writing, handlers>>

State == [balances : [Accounts -> Nat],
          total_minted_supply : Nat, chain_height : Nat]

\* ConsensusState, the part of the engine that is persisted.
state(eng) == [balances |-> eng.balances,
               total_minted_supply |-> eng.total_minted_supply,
               chain_height |-> eng.chain_height]

next_height == engine.chain_height + 1

(***************************************************************************)
(* Start-up.                                                               *)
(***************************************************************************)

\* Where the transactions of blocks lo .. hi are.
Positions(bs, lo, hi) ==
  UNION {{h} \X DOMAIN bs[h].txs : h \in lo .. hi}

tx_at(bs, p) == bs[p[1]].txs[p[2]]

\* Mutant of rebuild_nonces: the block at the activation height is not counted.
rebuild_nonces_from_next(bs, st) ==
  [a \in Accounts |->
     Cardinality({p \in Positions(bs, FORK3_ACTIVATION_HEIGHT + 1, st.chain_height) :
                    tx_at(bs, p).sender = a})]

rebuild_nonces(bs, st) ==
  [a \in Accounts |->
     Cardinality({p \in Positions(bs, FORK3_ACTIVATION_HEIGHT, st.chain_height) :
                    tx_at(bs, p).sender = a})]

from_state(bs, st) ==
  [balances |-> st.balances, nonces |-> rebuild_nonces(bs, st),
   total_minted_supply |-> st.total_minted_supply, chain_height |-> st.chain_height]

Init ==
  /\ engine = genesis
  /\ mempool = << >>
  /\ blocks = << >>
  /\ saved = state(genesis)
  /\ writing = FALSE
  /\ submit = [r \in SubmitHandlers |-> None]
  /\ admin = [r \in AdminHandlers |-> None]

\* The process dies at any point and is started again on the same database.
Restart ==
  /\ engine' = from_state(blocks, saved)
  /\ mempool' = << >>
  /\ writing' = FALSE
  /\ submit' = [r \in SubmitHandlers |-> None]
  /\ admin' = [r \in AdminHandlers |-> None]
  /\ UNCHANGED disk

(***************************************************************************)
(* POST /api/submit_tx: the engine is read under its lock; the checks and  *)
(* the push run after that lock is released.                               *)
(***************************************************************************)

submittable(tx) ==
  /\ tx.amount # 0
  /\ engine.balances[tx.sender] >= tx.amount
  /\ IF fork3_active(next_height)
     THEN /\ {tx.sender, tx.receiver} \cap ShortAddresses = {}
          /\ tx.timestamp >= engine.nonces[tx.sender]
          /\ tx.timestamp <= engine.nonces[tx.sender] + MAX_PENDING_NONCE_AHEAD
          /\ tx.signature = "v2"
     ELSE tx.signature = "v1"

SubmitCheck(r, tx) ==
  /\ ~ writing
  /\ submit[r] = None
  /\ submittable(tx)
  /\ submit' = [submit EXCEPT ![r] = tx]
  /\ UNCHANGED <<engine, mempool, disk, writing, admin>>

\* Mutant of already_queued: only the very same transaction is a duplicate.
already_queued_identical(queue, tx) == \E i \in DOMAIN queue : queue[i] = tx

\* The same number twice (Fork 3), or the very same transaction (before it).
already_queued(queue, tx) ==
  \E i \in DOMAIN queue :
    /\ queue[i].sender = tx.sender
    /\ IF tx.signature = "v2"
       THEN queue[i].timestamp = tx.timestamp
       ELSE /\ queue[i].receiver = tx.receiver
            /\ queue[i].amount = tx.amount
            /\ queue[i].signature = tx.signature

SubmitPush(r) ==
  /\ submit[r] # None
  /\ mempool' = IF \/ already_queued(mempool, submit[r])
                   \/ Len(mempool) >= MAX_MEMPOOL_TXS
                THEN mempool ELSE Append(mempool, submit[r])
  /\ submit' = [submit EXCEPT ![r] = None]
  /\ UNCHANGED <<engine, disk, writing, admin>>

(***************************************************************************)
(* POST /api/admin/send: the engine's lock, then the queue's (to count),   *)
(* then the queue's again (to push).  Amount, address and balance are not  *)
(* checked, and the queue's limit does not apply.                          *)
(***************************************************************************)

AdminRead(r, send) ==
  /\ ~ writing
  /\ admin[r] = None
  /\ Len(mempool) < MaxQueue
  /\ LET fork3 == fork3_active(next_height)
     IN  admin' = [admin EXCEPT ![r] =
           [stage |-> IF fork3 THEN "count" ELSE "push",
            tx |-> [sender |-> send.vault, receiver |-> send.receiver,
                    amount |-> send.amount,
                    signature |-> IF fork3 THEN "v2" ELSE "v1",
                    timestamp |-> IF fork3 THEN engine.nonces[send.vault]
                                           ELSE WallClock]]]
  /\ UNCHANGED <<engine, mempool, disk, writing, submit>>

queued_from(vault) ==
  Cardinality({i \in DOMAIN mempool : mempool[i].sender = vault})

AdminCount(r) ==
  /\ admin[r] # None /\ admin[r].stage = "count"
  /\ LET tx == admin[r].tx
     IN  admin' = [admin EXCEPT ![r] =
           [stage |-> "push",
            tx |-> [tx EXCEPT !.timestamp = @ + queued_from(tx.sender)]]]
  /\ UNCHANGED <<engine, mempool, disk, writing, submit>>

AdminPush(r) ==
  /\ admin[r] # None /\ admin[r].stage = "push"
  /\ mempool' = Append(mempool, admin[r].tx)
  /\ admin' = [admin EXCEPT ![r] = None]
  /\ UNCHANGED <<engine, disk, writing, submit>>

(***************************************************************************)
(* POST /api/mining/submit: under the engine lock, the queue is drained    *)
(* into the new block, the reward is paid and the block is stored.         *)
(***************************************************************************)

\* The stable sort by sender, then number, as a permutation of the indices.
precedes(queue, i, j) ==
  \/ queue[i].sender < queue[j].sender
  \/ /\ queue[i].sender = queue[j].sender
     /\ \/ queue[i].timestamp < queue[j].timestamp
        \/ queue[i].timestamp = queue[j].timestamp /\ i < j

number_orders(queue) ==
  {p \in [DOMAIN queue -> DOMAIN queue] :
     \A i, j \in DOMAIN queue : i < j => precedes(queue, p[i], p[j])}

\* Mutant of mining_orders: first come, first served under Fork 3 too.
mining_orders_as_queued(queue, h) == {[i \in DOMAIN queue |-> i]}

mining_orders(queue, h) ==
  IF fork3_active(h) THEN number_orders(queue) ELSE {[i \in DOMAIN queue |-> i]}

\* Mutant of drain: each transaction is judged by the engine as it was before
\* the block, not by what the ones before it have spent.
drain_stale(eng, h, queue) ==
  LET accepted == SelectSeq(queue, LAMBDA tx : tx_result(eng, h, tx) = "Ok")
      keep     == SelectSeq(queue, LAMBDA tx : tx_result(eng, h, tx) = "NonceTooHigh")
  IN  [i \in 0 .. Len(queue) |->
         [engine |-> block_run(eng, h, accepted)[Len(accepted)],
          accepted |-> accepted, keep |-> keep]]

\* A transaction ahead of its account's number stays queued; any other that
\* fails is dropped.
drain(eng, h, queue) ==
  LET run[i \in 0 .. Len(queue)] ==
        IF i = 0 THEN [engine |-> eng, accepted |-> << >>, keep |-> << >>]
        ELSE LET d  == run[i - 1]
                 tx == queue[i]
                 result == tx_result(d.engine, h, tx)
             IN  [engine   |-> apply_tx(d.engine, h, tx),
                  accepted |-> IF result = "Ok"
                               THEN Append(d.accepted, tx) ELSE d.accepted,
                  keep     |-> IF result = "NonceTooHigh"
                               THEN Append(d.keep, tx) ELSE d.keep]
  IN  run

\* Mutant of put_block: a block left over from a crash is not overwritten.
put_block_if_absent(h, block) ==
  IF Len(blocks) >= h THEN blocks ELSE Append(blocks, block)

\* db.put of key block_h.
put_block(h, block) ==
  [i \in 1 .. (IF Len(blocks) > h THEN Len(blocks) ELSE h) |->
     IF i = h THEN block ELSE blocks[i]]

MineBlock(miner) ==
  /\ ~ writing
  /\ engine.chain_height < MaxHeight
  /\ \E p \in mining_orders(mempool, next_height) :
       LET queue   == [i \in DOMAIN mempool |-> mempool[p[i]]]
           drained == drain(engine, next_height, queue)[Len(queue)]
       IN  /\ engine' = process_block_reward(drained.engine, miner)
           /\ mempool' = drained.keep
           /\ blocks' = put_block(next_height,
                                  [miner |-> miner, txs |-> drained.accepted])
  /\ writing' = TRUE
  /\ UNCHANGED <<saved, handlers>>

(***************************************************************************)
(* apply_verified_block, for a block gossiped or fetched from a peer.  The *)
(* queue is not looked at.                                                 *)
(***************************************************************************)

ApplyVerifiedBlock(block) ==
  /\ ~ writing
  /\ engine.chain_height < MaxHeight
  /\ LET ok      == block_txs_ok(engine, next_height, block.txs)
         applied == apply_block_txs(engine, next_height, block.txs)
     IN  /\ engine' = IF ok THEN process_block_reward(applied, block.miner)
                            ELSE applied
         /\ blocks' = IF ok THEN put_block(next_height, block) ELSE blocks
         /\ writing' = ok
  /\ UNCHANGED <<mempool, saved, handlers>>

\* The second put of either: the state, then the engine lock is released.
PutState ==
  /\ writing
  /\ saved' = state(engine)
  /\ writing' = FALSE
  /\ UNCHANGED <<engine, mempool, blocks, handlers>>

Next ==
  \/ \E r \in SubmitHandlers, tx \in WalletTxs : SubmitCheck(r, tx)
  \/ \E r \in SubmitHandlers : SubmitPush(r)
  \/ \E r \in AdminHandlers, send \in AdminSends : AdminRead(r, send)
  \/ \E r \in AdminHandlers : AdminCount(r)
  \/ \E r \in AdminHandlers : AdminPush(r)
  \/ \E miner \in Miners : MineBlock(miner)
  \/ \E block \in PeerBlocks : ApplyVerifiedBlock(block)
  \/ PutState
  \/ Restart

NodeSpec == Init /\ [][Next]_vars

(***************************************************************************)
(* Properties.                                                             *)
(***************************************************************************)

\* The shape of memory and disk; block height + 1 may be on disk only as the
\* leftover of a crash between the two puts.
TypeOK ==
  /\ engine \in Engine
  /\ mempool \in Seq(Transaction)
  /\ blocks \in Seq(Block)
  /\ saved \in State
  /\ writing \in BOOLEAN
  /\ engine.chain_height = IF writing THEN saved.chain_height + 1 ELSE saved.chain_height
  /\ Len(blocks) \in {engine.chain_height, saved.chain_height + 1}
  /\ submit \in [SubmitHandlers -> Transaction \cup {None}]
  /\ admin \in [AdminHandlers ->
                   [stage : {"count", "push"}, tx : Transaction] \cup {None}]

\* Whatever is mined, sent, rejected, rolled back or lost in a crash, the
\* balances in memory and on disk add up to the supply that was minted, and
\* that never exceeds the cap (the clamp in get_block_reward, the two-sided
\* transfer in apply_transaction, the restore in apply_block_txs).
SupplyConserved ==
  \A ledger \in {engine, saved} :
    /\ TotalBalance(ledger.balances) = ledger.total_minted_supply
    /\ ledger.total_minted_supply <= GLOBAL_MAX_SUPPLY

\* The engine in memory, transaction counters included, is what replaying the
\* stored blocks from genesis gives.  So a node that mined a block, one that
\* got it from a peer and one that was restarted from disk in between agree.
EngineIsReplay == engine = replay(blocks, engine.chain_height)

\* The saved state never runs ahead of the stored blocks: at any crash point it
\* is what the blocks up to its height add up to (the order of the two puts).
SavedIsReplay ==
  /\ saved.chain_height <= Len(blocks)
  /\ saved = state(replay(blocks, saved.chain_height))

\* Replay protection: from Fork 3 on, no account's number is used by two
\* transactions of the chain, across restarts that rebuild the counters.
NoNumberTwice ==
  \A p, q \in Positions(blocks, FORK3_ACTIVATION_HEIGHT, engine.chain_height) :
    p # q /\ tx_at(blocks, p).sender = tx_at(blocks, q).sender
      => tx_at(blocks, p).timestamp # tx_at(blocks, q).timestamp

\* Two concurrent submissions never leave two queued transactions with the
\* same sender and number (vault sends, which are not checked, apart).
QueuedNumbersUnique ==
  \A i, j \in DOMAIN mempool :
    /\ i # j
    /\ {mempool[i].signature, mempool[j].signature} = {"v2"}
    /\ mempool[i].sender = mempool[j].sender
    /\ mempool[i].sender \notin {VaultA, VaultB}
    => mempool[i].timestamp # mempool[j].timestamp

\* After a block is mined under Fork 3 nothing that is still queued could have
\* gone into it: every kept transaction waits for a number that has not come.
KeptOnlyBehindGap ==
  [][\A miner \in Miners : MineBlock(miner) /\ fork3_active(next_height) =>
       \A i \in DOMAIN mempool' :
         mempool'[i].timestamp > engine'.nonces[mempool'[i].sender]]_vars

\* The committed chain is append-only and grows by valid blocks only, through
\* mining, peer blocks and crashes: the node implements LedgerChain.
Ledger == INSTANCE LedgerChain WITH chain <- SubSeq(blocks, 1, saved.chain_height)
CommittedChain == Ledger!Spec

\* What submit_tx and admin/send answer ("included when a miner produces the
\* next block") of a vault send that is good in itself.
good_send(tx) ==
  /\ tx.amount > 0
  /\ tx.receiver \notin ShortAddresses
  /\ engine.balances[tx.sender] >= tx.amount

QueuedSendIncluded ==
  [][\A miner \in Miners : MineBlock(miner) =>
       \A i \in DOMAIN mempool :
         good_send(mempool[i]) =>
           \E k \in DOMAIN blocks'[next_height].txs :
             blocks'[next_height].txs[k] = mempool[i]]_vars
=============================================================================
