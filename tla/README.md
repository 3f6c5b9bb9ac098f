# A TLA+ model of the Quantum-Lattice node

Modules, TLC configurations and TLAPS proofs for the Rust node in `src/src`
(consensus rules, database, HTTP handlers, peer-to-peer, accounts, vaults), to be
kept beside the code, for the mining pool in `src/ql-pool` and for the stand-alone
miner in `src/ql-miner`. Section 1 is the inventory of the whole repository, 2 maps modules to
code, 3 describes the runs, 4 the proofs, 5 what the project found in the code,
6 what is left out, 7 the plan.

## 1. The system

The program is a proof-of-work ledger. Every node keeps the whole chain; miners
and wallets talk to a node over HTTP; nodes talk to each other over TCP.

| component | source | state | operations |
|---|---|---|---|
| ledger rules | `src/src/consensus.rs`, `ledger.rs` | balances, transaction counters ("nonces"), minted supply, height | `apply_tx` (two rule sets, switched at `FORK3_ACTIVATION_HEIGHT`), `apply_block_txs` (all or nothing), `process_block_reward` |
| difficulty rules | `consensus.rs` | `difficulty_bits`, timestamps of the chain | `retarget_difficulty`, `effective_difficulty_bits`, `required_fine`, `next_fine`, `median_time_past` |
| node | `network.rs`, `main.rs` | engine and queue (each behind a tokio mutex), RocksDB keys `block_<h>` and the state | `POST /api/submit_tx`, `/api/admin/send`, `/api/mining/submit`; `apply_verified_block`; start-up |
| peer-to-peer | `network.rs`, `main.rs` | list of peers, one periodic task, one task per connection | `NewBlock`, `RequestHeight`, `RequestBlocks`, `catch_up`, `handle_incoming_block` |
| connection limit (`IpGuard`) | `network.rs` | open connections per address | acquire, drop |
| rate limiter | `ratelimit.rs` | per key: window start and count | `check` |
| accounts and one-time codes | `users.rs`, `network.rs` | RocksDB records `user:<email>` and `otp:<email>` | register, verify, resend, lookup, list |
| mining pool | `ql-pool/src/main.rs` | template, shares of the round, nonces seen, two files | share submission, win, payout, save and load |
| stand-alone miner | `ql-miner/src/main.rs` | template, found flag, winning nonce | worker threads, refresh |
| vault files | `wallet.rs`, `main.rs`, pool | per vault a public and an encrypted secret file; the pool's identity file | create, unlock, migrate, read back |
| mail, `fund_wallet`, WASM signer, vector generator | `email.rs`, `bin/`, `ql-wallet-wasm`, `generate_test_vectors.rs` | none of their own | one-shot calls |
| front-ends | HTML, desktop and mobile wallets, dashboards | user interface | HTTP calls |

**Interaction.** `submit_tx` and `admin/send` fill the queue; `mining/submit`
drains it into a block, applies it to the engine, writes it and gossips it; a
peer's block goes through `apply_verified_block`, from gossip or from
`catch_up`. The pool and the miner poll `mining/template` and post to
`mining/submit`; the pool pays with ordinary `submit_tx` calls. Every incoming
connection holds a slot of its caller's address until its handler ends, and a
handler that catches up calls other nodes meanwhile. The handlers of accounts
share one database and one rate limiter, and a task per registration makes the
code and mails it. Nodes and pool find their keys in files of the directory they
are started in.

**What is hard about it.** Handlers that read the engine under its lock and
queue under another later; two database writes per block with a crash possible
in between; counters that are not stored but counted again at start-up; four
difficulty rules in succession, each of which miner and verifier must compute
alike from clocks that differ; gossip that may be lost and a catch-up that
races with it; no choice between competing chains; connection slots kept by tasks
that need slots elsewhere; records read in one database call and written back in
another; key files written in place; a search whose threads report through two
variables while the template may be replaced.

**What makes each part correct.**

* Ledger: coins are conserved and capped; a block is all or nothing; a numbered
  transaction is applied once.
* Node: memory equals a replay of the disk; the saved state never runs ahead of
  the saved blocks; the committed chain only grows, by valid blocks; what is
  queued is mined unless something it depends on is missing.
* Difficulty: the stored number stays in its range; waiting never makes a block
  harder; a change of rules is continuous; nobody's choice of timestamps moves
  the difficulty other than by elapsed time.
* Network: the path that mines and the path that verifies accept the same
  blocks and compute the same difficulty; every node ends up on the same chain.
* Pool: a nonce is credited once, a share is paid for at most once, payments
  are covered and none is stuck, the shares of a round survive a crash.
* Accounts: an account keeps its address and its verification, the attempts at a
  code are bounded, a pending code is not lost to a wrong attempt.
* Connections: slots are given back on every path, and a full node is not shut
  out for good.
* Vaults: a node that runs holds the seed of every address it signs for, and the
  coins of genesis stay within reach of some seed on disk.
* Miner: it submits what it found, is refused only for what it cannot know, and
  never stops.

## 2. Modules

| module | what it is | code |
|---|---|---|
| `Consensus` | library: transactions, blocks, rewards, replay | `consensus.rs` 65-272, 367-380 |
| `LedgerChain` | abstract specification: an append-only chain of valid blocks | what a node promises its clients |
| `Node` | one node: engine, queue, disk, handlers, crashes | `network.rs` 134-152, 388-477, 857-928, 1095-1204, 1425-1466; `main.rs` 93-147 |
| `Difficulty` | library: the four difficulty rules, median time | `consensus.rs` 284-331, 410-551 |
| `DifficultyChain` | one chain growing under them, with any gaps | `network.rs` 416-464 |
| `Peers` | the nodes and whom each calls, for the next module and `Listener` | `main.rs` 174-190 |
| `Network` | several nodes: mining, gossip, catch-up, clocks | `network.rs` 97-110, 313-494, 546-568, 1095-1217; `main.rs` 174-190 |
| `Pool` | the pool's threads and files, with an abstract node | `ql-pool/src/main.rs` 445-457, 493-621, 783-1050, 1428-1478, 1567-1574, 1659-1713 |
| `Listener` | accept loop, slots per address, handlers and catch-ups that hold and need them | `network.rs` 184-215, 265-386, 479-571; `main.rs` 174-190 |
| `RateLimiter` | library: fixed windows per key | `ratelimit.rs` 22-40 |
| `Accounts` | accounts and codes over the database, behind the limiter | `users.rs` 19-187; `network.rs` 939-1045 |
| `Vault` | start of a node up to its chain; the pool's identity | `wallet.rs` 34-182; `main.rs` 46-133; `ql-pool/src/main.rs` 326-407 |
| `Pow` | library: leading zeros, 256-bit targets | `consensus.rs` 41-59, 490-536; the copies in `ql-miner/src/main.rs` 188-273 |
| `Miner` | the stand-alone miner and what it sees of its server | `ql-miner/src/main.rs` 142-164, 323-536; of the servers `network.rs` 1068-1204, `ql-pool/src/main.rs` 522-590, 783-826 |
| `NodeProofs` | theorems about `Node`, and the lemmas about `Consensus` they rest on | |
| `DifficultyProofs` | lemmas about `Difficulty`, for the three modules that have it | |
| `DifficultyChainProofs`, `PoolProofs`, `AccountsProofs`, `VaultProofs` | theorems about the module of that name | |
| `NetworkProofs` | theorems about `Network`, and about `Listener`, the connections of the same nodes | |
| `MinerProofs` | theorems about `Pow` and `Miner` | |
| `MCNode`, `MCDifficultyChain`, `MCNetwork`, `MCPool`, `MCListener`, `MCAccounts`, `MCVault`, `MCMiner` | constants for TLC | |

`PROJECT.json` maps each definition to its lines. Operators described as
"Mutant of ..." are no part of the specification: each is a plausible bug of the
operator after it, and shows which property would catch it.

**Consensus and Node.** `engine` is `ConsensusEngine` (a `HashMap` that answers
0 for a missing key is a total function), `mempool` the queue, `blocks` and
`saved` the database, `writing` the time between the two puts of a block, during
which the engine lock is held. Granularity follows the locks: `SubmitCheck` is
what `submit_tx` does under the engine lock and `SubmitPush` what it does under
the queue's; `admin/send` takes three locks one after the other and is
`AdminRead`, `AdminCount`, `AdminPush`; `MineBlock` and `ApplyVerifiedBlock` hold
the engine lock up to the first put, `PutState` is the second. `Restart` can
happen in any state, also between the puts. The `bool` and error returns of the
code are `tx_result`, tested in the code's order. A signature is abstracted to
what it signs ("v1", "v2", "bad"); keys are numbers; an address of the wrong
length is a member of `ShortAddresses`.

**Difficulty.** The rules are arithmetic on integers, division rounding toward
zero as Rust's does. `round(log2(target/actual))`, a float in the code, is
given exactly by comparing squares. A hash meets a fixed-point difficulty
exactly when its work is at least that number, which replaces the 256-bit
targets. The 20-bit floor of the old easing and of Fork 2 is one constant.

**Network.** A block commits to its whole past through `previous_block_hash`, so
a block is represented by the chain it ends. Nodes read clocks with fixed skews;
a second may pass between two reads of the clock in `mining/submit`.
`inflight` is a set of gossip messages: any may stay there for ever (lost) and
they are received in any order. A request to a peer is one step that is
answered (`Fetch`) or not (`FetchFails`); the peer's chain only grows between
its two answers, so answering both at once allows the same results. Each
connection handler and the periodic loop is a task with its own program counter,
so catch-ups overlap with each other, with gossip and with mining.

**Pool.** The code counts shares per address; the model keeps the shares, each
with the template and nonce it was credited for, and a count is the size of a
set, so that one share can be followed through memory, snapshots, files and
rounds. A submission is checked, claimed and credited in three steps, as the
template, `seen_shares` and `shares` each have a lock of their own; between them
the template may change. `SAVE_LOCK` is held from the read of the shares to the
rename of the new file: `SaverReads`/`SaverWrites` for the thread that saves,
`PayerReads`/`PayerWrites` for a payout. A payout is a thread that goes through
the stages take, save, keep, balance, pay; a repayment has its own first
stages. Each call to the node is a step, and may fail, or succeed with its
answer lost. The node is reduced to what the pool sees of it: the height it wants,
the pool's balance and counter, and the queue of the pool's payments with the
conditions of `submit_tx` and the settling of `mining/submit` (`Node` has them in
full). `Crash` can happen in any state and leaves the three files.

**Listener.** A connection is a record that is in a node's `backlog` until it is
accepted and then belongs to a handler; it carries a block or the request of a
task, and is `open` while that task waits. Tasks of a node are its periodic loop
and, per address, as many handler places as the limit allows and one more (so
that going past the limit can be seen). `Accept` is the accept loop with
`try_ip_guard`; a refused caller sees its request fail. `Serve` reads and answers a
request, `ReadBlock` and `HandBlockOver` are `handle_incoming_block` around its
`catch_up`, and whichever action ends a handler drops the guard. Any request may
be given up (`GivesUp`), which closes the connection but does not free the slot:
the server's handler has to notice. `request_height` and `request_blocks` are one
request. `StartLoop` waits for the loop's old connections to be gone, as a server keeps
one for 15 seconds and the loop sleeps for 60. Of a chain there is only the
height, and blocks are mined on a highest node: forks are `Network`'s.

**RateLimiter and Accounts.** `check` is a function of the map, as the code holds
the map's lock throughout. A request is a task with a stage between two accesses
to the database: `RegisterRead`/`RegisterStore`, then the task that makes the code
(`CreateCode`), `VerifyRead`/`VerifyAccount`/`VerifyStore`/`VerifyDelete`. Mail has
no state: a code that exists may be submitted, or never. E-mail addresses are
typed with a spelling (the spaces around them): the limiter keys them as typed and
in lower case, the database trims them. Both limits of a request are counted even
when the first refuses. Accounts stored in the format without `verified` are read
as unverified ones by lookup and list, and are an error for `verify_otp`.
`newest`, `compared`, `raced`, `doubled` are history variables.

**Vault.** A process goes through `look`, `create`/`migrate`/`locked` for each
vault, then reads the public keys and then loads or makes the chain. A file is
written in two steps, truncated and complete, and a crash may come at any point;
a torn secret file makes every later start panic (`expect`), a torn pool
identity is replaced. Nodes share the directory and have a database each.
Seeds are numbered as they are drawn.

**Pow and Miner.** `Pow` has the two tests as the code computes them, on
sequences of bytes of a width that is a constant; `pow2` is the code's shift of 1.
`Miner` is the main loop, its
threads step by step (test, store nonce, store flag), and of the server the height,
the age of the last block, the pool's template and the test of a submission. The
hash is a constant operator of height, address and nonce. A submission may be
served with its answer lost. The node's difficulty is `Difficulty`'s, so that the
miner's copy of the test is compared with the node's, before and after Fork 2.

**Composition.** `Network` leaves transactions out. That is what `Node` is for:
its `EngineIsReplay` says that what the transactions do is a function of the
chain, so one node never refuses for its transactions a block another one
built. `Node` leaves difficulty, timestamps and linking out; `Network` and
`DifficultyChain` have them.

## 3. Runs

Run one with `tlc -config <cfg> <module>`.

| run (`cfg`) | question | result |
|---|---|---|
| `node` (`MCNode`) | ledger, replay, disk, counters, queue, refinement of `LedgerChain` | holds |
| `node_send_race` (`MCNodeSendRace`) | is an acknowledged, valid vault send in the next block? | no |
| `difficulty_chain` (`MCDifficultyChain`) | range, drift, easing, continuity, median time | holds |
| `network` (`MCNetwork`) | do mining and verifying agree, on blocks and on difficulty? | holds |
| `network_sync` (`MCNetworkSync`) | do all nodes reach the miner's chain? | holds |
| `listener` (`MCListener`) | are slots counted, given back, and no node shut out? | holds |
| `pool` (`MCPool`) | is a share paid for at most once, with payments covered and without gaps? | holds |
| `pool_nonce` (`MCPoolNonce`) | is a nonce credited at most once for one template? | no |
| `pool_restart` (`MCPoolRestart`) | are shares that were saved still there after a restart? | no |
| `accounts` (`MCAccounts`) | are accounts and codes kept, and attempts bounded? | holds |
| `vault` (`MCVault`) | does a node hold the seeds of its addresses, after any crash? | holds |
| `miner` (`MCMiner`) | does the miner submit what it found, and never stop? | holds |

**node.** Four accounts: two vaults, one wallet that also mines, one address of
the wrong length. Fork 3 starts at height 2 and the bound is height 3, so blocks
are made under both rule sets, old transactions are still queued when the new
rules start, and the counters after a restart cover one block that counts and
one that does not. The supply cap is 3 above the allocations with rewards of
2, 2, 1: the halving and the cut last reward both occur. Two `submit_tx`
handlers race for one number; one `admin/send` handler runs beside them. The
queue holds two (enough for a transaction behind a gap, and for a sort that
matters). Peer blocks include one whose second transaction is invalid after the
first was applied. About 156,000 states.

* `SupplyConserved`: balances in memory and on disk sum to the minted supply,
  within the cap.
* `EngineIsReplay`, `SavedIsReplay`: memory, counters included, and the saved
  state are what the stored blocks add up to from genesis: mined, received
  and reloaded chains agree at every crash point.
* `NoNumberTwice`: from Fork 3 on no number of an account is used twice in the
  chain, over restarts.
* `QueuedNumbersUnique`: racing submissions never queue one number twice.
* `KeptOnlyBehindGap`: what mining leaves queued could not have been mined.
  Behind a vault send that was dropped, that is every later send of the vault.
* `CommittedChain`: `Node` implements `LedgerChain`, with the blocks up to the
  saved height as its chain. A crash between the puts leaves a block above that
  height, which a later block overwrites: invisible in the abstract chain.

**difficulty_chain.** The code's own numbers (300 s target, tau 3600 s, 65536
units a bit, both easings), with the activation heights brought down to 2, 5 and
7, a retargeting interval of 2 and a median window of 3. Every block has one of
six gaps: backwards, immediate, just under target, just beyond either easing's
grace, past every cap. Genesis has 25 bits, so that easing meets the floor.
`TypeOK` has the range that the stored number stays in, whatever the gaps. Chains
stop at height 7, and what is asked of the next block is looked at for
height 8 (`MaxHeight` is the height above which no block is added, and the run is
therefore allowed to deadlock). About 284,000 states.

**network.** Two nodes that mine and follow one another, clocks one second
apart, up to a second between two reads of the clock, three blocks, the second
under the first Fork 2 rule and the third past Easing 2; seconds and bits are
scaled down, keeping the order of grace, step, target and limits. Forks, stale
batches, late gossip and restarts all occur.

* `DifficultyIsReplay`: each node's difficulty is what its chain adds up to.
* `SyncableFromGenesis`: what a node mined or accepted, a new node with the
  same clock accepts from genesis on.
* `NoHonestBlockRefused`: with clocks within the limit, no node refuses the next
  block of another's chain that extends its own.

**network_sync.** Three nodes, one of them called by nobody, as a node started
with `QL_EXTRA_PEERS` is; one mines. Gossip may lose every block and replies are
cut to one block, so that a catch-up takes several rounds. Across both
activation heights.

**Fairness** of `network_sync` (`FairSpec`). Weak
fairness of the periodic loop: `main.rs` 174-190 starts it over every 60
seconds for ever. Weak fairness of each step of a catch-up: every request has
a timeout, and nothing else in the task blocks. Weak fairness of time.
Strong fairness of an answer to the loop from each peer: a peer asked again and
again answers some day. Nothing is assumed of gossip or of mining. Crashes stop
when the clock does (`MaxTime`); a node that restarts for ever need not catch up.

**pool.** Two miners, one connection, two shares, each of which also wins a block;
two payout threads, which are wins, manual triggers or repayments in every
combination, beside the saver; one block (the pool's or another miner's); a
repayment file with a round in it; one crash. The pool owns one unit and a block
earns two, so that rounding, an empty share of the payout and a balance that changes
between two payouts all occur. Two of each thread are enough for every race between
two holders of a lock, a file or a number; the miners are symmetric, and so
are the payout threads. About 1.3 million states.

* `PaidOnce`: once the payments of a round are started, none of its shares is in
  memory, in the file, in a snapshot on its way to the file or in another round.
  A saver that read before the payout and wrote after it would break that;
  `SAVE_LOCK` is why it does not happen.
* `PaymentsCovered`: overlapping payouts each divide the balance they read, yet
  what they queue together is covered: they read the same counter too, and
  all but one of them have their payments refused for the number.
* `NoGapInPayments`: no refused payment or lost answer makes a later one wait
  for a number that nobody will use.
* `RepaidOnce`: two calls of `/pool/repay` that read the same file pay it once.

**listener.** Two nodes that call each other, one slot per address, one block per
answer; one node is a block ahead at the start, and one more is mined. The loop and a
handler of one node are then more callers than the other has slots for; gossip,
the loop and catch-ups of handlers collide on every slot, and answers come late.
A handler that waits for a handler of the other node that waits for the first
would need four blocks (each node has to be two behind a block it receives); the
properties do not depend on it, as every wait is ended by its own timeout.

* `SlotsCounted`: what is counted for an address is what is held, at most the limit.
* `SlotsComeBack`: each handler ends, although it catches up under its slot.
* `EventuallyLevel`: when mining stops, all nodes reach one height.

*Fairness:* each task goes on, to its timeout if nothing else comes; the accept
loop accepts. Of the loop's calls: one made again and again gets through, is taken
in if a slot is free again and again, and is answered (strong fairness, as other
callers may be in between). Nothing is assumed of gossip, of mining, or of the
catch-ups of handlers other than that they end.

**accounts.** One e-mail address in two spellings, two wallet addresses, one
caller, two requests at once, two codes, two ticks and one restart; windows and
the life of a code last one tick, so that an attempt can fall on either side of
each boundary. The map forgets keys above two. The account may be there from the
start, in the old format. Requests, wallet addresses and spellings are
interchangeable. About 371,000 states.

* `AttemptsPerCode`: the submissions compared with one code are at most two
  windows' worth of the limits, and one more per restart; the limit per e-mail is
  multiplied by the spellings, the one per address bounds all of them.
* `OnlyRacedCodesAreLost`: the newest code stays usable while it is valid and
  unused, unless a request that had read an older one deletes it.
* `AccountsKept`: an account keeps its address and its verification, and lookup and
  list show it, except where two registrations of one e-mail overlapped.

**vault.** Two nodes and the pool in one directory, two vaults, five seeds, two
crashes; first starts, starts with old files, with and without a chain. The
two nodes are interchangeable. The run may deadlock: starts end when all
are online. About 2.1 million states.

* `SeedMatchesAddress`: a node that runs holds the seed of each address it signs
  for. The public file is written first: where a secret file is, the public one is
  complete.
* `TreasuryRecoverable`: an address that genesis allocated to stays that of its
  vault, and its seed is in the secret file or in a process that is migrating it.
* `IdentityKept`: the pool never works under a second identity.

The first two leave out vaults that two processes were creating at once, and the
second those whose migration a crash cut short: see section 5.

**miner.** Two threads, three nonces, two tries per batch, three heights, the
second the first under Fork 2 and the third under Easing 2, a clock of four seconds, hashes of eight bits and
eighths of a bit: nonces that pass at once, when eased, and never, templates
with no winner, two winners at once. About 87,000 states.

* `SubmitsWhatItFound`: the nonce submitted passes the test of the template
  searched, whichever threads won in whichever order.
* `RefusedOnlyIfMovedOn`: unless the server has moved on, credited the nonce
  before or waits for the last block to age, it takes what the miner found. On
  every hash there is, passing the template's test means passing the node's.
* `KeepsMining`: the main loop fetches for ever, and a miner of a node makes its chain
  grow through lost answers, refusals and the blocks of others.

*Fairness:* weak of each thread and of each step of the main loop, whose requests have
timeouts; of the clock; strong of an answered submission.

**Violations.** Each of the three violation runs is as small as shows the
disagreement; section 5 discusses them.

## 4. Proofs

TLAPS checks the modules named `...Proofs` (`tlapm NodeProofs.tla`, and so on). Each
theorem has the form `Spec => []P` (or `Spec => A` for an action property or the
abstract specification) with `P` the definition that a run of section 3 checks: TLC
shows it for the constants of the run, the theorem for all constants that meet the
assumptions. The argument is the same each time: an inductive invariant that
implies `P`, one lemma per action (or group of actions alike) that keeps it, and a
last step by `PTL`.

| property | theorem | what the property needs to be inductive |
|---|---|---|
| `Node`: `TypeOK`, `SupplyConserved` | `NodeTypeOK`, `NodeSupplyConserved` | each other (`Inv`): that a transfer keeps the sum needs balances that are naturals, and a reload needs the saved height within the stored blocks |
| `EngineIsReplay`, `SavedIsReplay` | `NodeEngineIsReplay`, `NodeSavedIsReplay` | each other and that every stored block up to the engine's height is valid where it stands (`ChainInv`); a leftover of a crash above the saved height may be anything, as no replay reads it |
| `NoNumberTwice` | `NodeNoNumberTwice` | nothing more: it follows from `ChainInv`. A replay counts one up for each number it meets, so a number met twice would have been refused the second time |
| `CommittedChain` | `NodeCommittedChain` | `ChainInv`; the step of the refinement is by cases: the second put appends a block, everything else stutters |
| `KeptOnlyBehindGap` | `NodeKeptOnlyBehindGap` | the type of the queue. The sort of `mining/submit` puts each account's numbers in order, hence a number that is kept is above a gap that nothing later in the pass can fill |
| `QueuedNumbersUnique` | `NodeQueuedNumbersUnique` | that vault sends come from vaults only (`QueueInv`); the check and the push of `submit_tx` are two steps, and what makes it safe is that the push compares with the whole queue |
| `DifficultyChain`: `TypeOK`, `WaitingNeverHurts`, `TemplateSufficient`, `Fork2StartsWhereTheOldRuleEnded` | `DifficultyTypeOK`, `DifficultyWaitingNeverHurts`, `DifficultyTemplateSufficient`, `DifficultyFork2Starts` | the type; the rest are facts about the rules (`Required`: more waiting, no more work; `CeilBits`; `AtTheSwitch`) |
| `DriftDependsOnElapsedTime` | `DifficultyDrift` | `EveryStepIsTheRule`: each stored number is what the rule made of the one before. Then by induction on the number of blocks: each division rounds by less than one unit |
| `MedianTimeAdvances` | `DifficultyMedianAdvances` | `LaterThanTheMedian`: every Fork 2 block was later than the median before it. The code's `v[len / 2]` is shown to exist and to be unique (`OneMedian`), and a later block not to lower it (`MedianKept`) |
| `Network`: `TypeOK` | `NetworkTypeOK` | `Shape`: every block anywhere (on a node, on its way, in an answer, held by a handler) ends an honest chain: its timestamps rise, and none is above the clock of some node |
| `DifficultyIsReplay`, `SyncableFromGenesis` | `NetworkDifficultyIsReplay`, `NetworkSyncableFromGenesis` | `Shape` and each other. A block that a node mines is one that it would have accepted (`MinedIsAcceptable`): the median is never above the tip, so mining never lifts a timestamp |
| `NoHonestBlockRefused` | `NetworkNoHonestBlockRefused` | follows from the three: the difficulty below the block is the same on both nodes, and its timestamp is not above a clock that is within the limit |
| `Pool`: `TypeOK`, `PaidOnce`, `RepaidOnce`, `PaymentsCovered`, `NoGapInPayments` | `PoolTypeOK`, `PoolPaidOnce`, `PoolRepaidOnce`, `PoolPaymentsCovered`, `PoolNoGapInPayments` | `IInv`: one thread between its read and its write of the shares file (`OneWriter`); rounds that share no share, with memory, file and snapshots apart from those paid (`RoundsApart`, `PaidGone`); queued numbers without a gap, and what a thread still means to pay within what is left of the balance it read as long as its numbers are free (`ClaimsCovered`) |
| `Accounts`: `TypeOK`, `OnlyRacedCodesAreLost`, `AccountsKept` | `AccountsTypeOK`, `AccountsOnlyRacedCodesAreLost`, `AccountsAreKept` | `DirectoryInv`: what each request may still believe of the database between two accesses (`AccountIsStored`, `DeleteJustified`, `RegistersAlone`, `PendingIsNewest`) |
| `AttemptsPerCode` | `AccountsAttemptsPerCode` | `AttemptsInv`: the comparisons of a code split over the limiter's keys, each part within what the windows of the key can have let pass (`allowance`) |
| `Listener`: `ListenerTypeOK`, `SlotsCounted` | `ListenerTypeCorrect`, `ListenerSlotsCounted` | `ServerInv`: an open connection is in one place, a backlog or a handler that has not read it, carries the height its caller asked from, and its caller waits (`Waited`, `OnePlace`). An answer is written into the caller's state: without that, the answer to a request given up could end or revive a slot that another handler holds by now |
| `Vault`: `TypeOK`, `SeedMatchesAddress`, `TreasuryRecoverable`, `IdentityKept` | `VaultTypeOK`, `VaultSeedMatchesAddress`, `VaultTreasuryRecoverable`, `VaultIdentityKept` | `FilesInv`: per vault, what its two files say of each other and of each process that went past it; `PoolInv`: the identity in use is the one on disk |
| `Miner`: `TypeOK`, `SubmitsWhatItFound` | `MinerTypeOK`, `MinerSubmitsWhatItFound` | `LoopInv`, `ThreadInv`, `FoundInv`: what a thread is about to store, and what is stored, passes the test of the template that all threads still have; the flag is raised by a thread that stored its nonce before |
| `RefusedOnlyIfMovedOn` | `MinerRefusedOnlyIfMovedOn` | `ServerInv`, that the pool's template asks no less than the block it is for, and `TemplateInv`: while the height is the template's, the server asks no more than the template, because waiting only eases a block. The rest is `Pow`: a hash that meets a target meets every easier one (`EasierTargetIsMet`), and at whole bits the target and the leading zeros are one test (`WholeBitsAgree`, the claim of `consensus.rs` 496) |

**Assumptions.** Those of the modules, each named, evaluated by TLC in the runs:
* `Consensus`, `Node`: at least two accounts, allocations within the cap, a positive
  halving interval and activation height, transactions and blocks of their types.
* `Difficulty`: divisors are positive; the activation heights come in the code's
  order, and the first is not that of genesis; the easing's floor is not above the cap.
* `DifficultyChain`, `Network`: genesis has a difficulty in range (a natural number, in
  `Network`); the clock does not begin after its own bound.
* `Pool`: the repayment file's shares are told apart from those of the run; every
  quantity is natural and the bound on heights is not 0 (the template's 0 means none).
* `Accounts`: finitely many callers and spellings, kinds of keys that differ, limits that are
  not 0, and what the code's windows meet: no shorter than the life of a code, and not
  forgotten while they last.
* `Vault`: seeds for at least the vaults there are.
* `Peers`, `Listener`: nodes, finitely many for `Listener`, with peer lists; limits that
  are not 0; starting heights within the bound.
* `Pow`, `Miner`: positive widths, `FP_ONE` a power of two, bounds that are not 0, and of
  `exp2_factor` that it is 0 at 0, below `FP_ONE` and monotone (TLC checks it of the table of
  the run). No difficulty is closer than `FP_SHIFT` bits to the width of a hash: the code
  allows whole bits up to 256, but above 240 `target_from_fine` shifts by a
  negative amount, which no chain gets near (Fork 2 stops at 200).

**Conditions.** Two theorems of `Network` say when they hold. `OneClockRead`: the
blocks mined are under Fork 2's rule, or the two reads of the clock before Fork 2 fall
in the same second; without it `DifficultyIsReplay` is false of the code (section 5).
`ClocksAgree`: clocks differ by no more than the limits on a block's timestamp. The
runs of `Network` meet both, and `MCNetwork` states so.

**Recursion.** Sums, replays, drains and chains are recursive functions, and the library's
induction rules take an operator, which the provers cannot instantiate.
`NatSetInduction` states induction with a set instead and is proved from the
well-foundedness of `<`. Lemmas such as `BalanceSumsUnfold`, `BlockRunUnfold`,
`DrainUnfold` and `ReplayedBits` show that a recursive function exists and meets its
equations; the rest is ordinary induction over heights, blocks or transactions.

**One hash, two tests.** `MinerProofs` follows `target_from_fine` through its steps, for a
hash of any number of bytes of any size: a smaller difficulty has a greater exponent, a
greater exponent a mantissa and shift that are not smaller (`TargetsGrow`), a greater number
bytes that are not smaller at the first place where they differ (`BytesOrdered`,
`BelowLarger`), and 2^k the bytes that are one 1 after k zeros (`BytesOfPower`).

**Model-checked only.** All liveness (`EventuallyInSync`, `SlotsComeBack`,
`EventuallyLevel`, `KeepsMining`), which is beyond the prover, as fairness needs `ENABLED`.
The three expected violations are TLC's counterexamples. Every invariant and every other
action property that a run checks is proved.

## 5. Findings

Disagreements between the code and what it or its documentation says of itself,
each shown by a run:

1. `admin/send` takes a number in three separate lock sections
   (`network.rs` 1425-1466). Two concurrent sends can take the same one. Both are
   answered "included when a miner produces the next block"; mining drops the
   second. (`node_send_race`)
2. The pool's `claim_share` clears the set of credited nonces when it is called
   with another template than last time (line 1569). A handler that copied the
   previous template just before a refresh clears the set of the current one, and a
   nonce of that can be credited again. The set is there to stop "one valid share
   being credited repeatedly" (455). (`pool_nonce`)
3. `process_payouts` overwrites `pool_shares.txt` with the emptied round (916)
   before it writes `last_round_shares.txt` (920). After a crash in between the
   round is in neither file, while "a restart loses at most 20s" (1393) and
   the second file is there "so a lost payout can be replayed". (`pool_restart`)

Met while modelling, and visible in the modules, but without a run of their own:

* `admin/send` checks neither receiver nor balance. A send that mining drops has
  used up its place in the count, and later sends of that vault wait behind a
  number that nothing is about to supply. Nor does it look at `MAX_MEMPOOL_TXS`.
* There is no fork choice: `apply_verified_block` takes only a child of the own
  tip. Two nodes that each accept a miner's block at one height never agree again.
  This is why `network_sync` and `listener` mine on one chain only.
* Before Fork 2, `mining/submit` reads the clock at line 1111 for the easing and
  again at 1139 for the timestamp. If an easing step falls between, miner and
  peers hold one chain and two difficulties. Fork 2 derives both from one read,
  and from there `DifficultyIsReplay` holds (`OneClockRead` in section 4).
* A verification that read a code just before a resend replaced it deletes the new
  one (`users.rs` 159-187): `raced` in `OnlyRacedCodesAreLost`.
* Accounts stored without `verified` are found by lookup but can never be verified:
  `verify_otp` reads the new format only (180).
* Two registrations of one e-mail at once both succeed, the second replacing the
  first's address (`users.rs` 80-98): `doubled` in `AccountsKept`.
* The limiter's key has the e-mail as it was typed, in lower case (991); the
  database's is trimmed. Each spelling has attempts of its own; the limit per
  address bounds them all.
* Migrating an old vault overwrites the only copy of its seed in place; a crash
  during that write loses it (`interrupted`). Two first starts in one directory
  at once can leave the public file of one and the secret file of the other
  (`doubled`). A start with a torn secret file panics each time.

## 6. Not modelled

* Failing database writes: in the model a put succeeds. The code ignores some
  failures (line 467), which `PROJECT.json` lists as a hazard.
* Signatures and hash functions, by what they decide; key derivation and
  encryption, by what they give back. A random source that fails, two equal
  random codes, and `create_new_wallet`, which nothing calls.
* Framing, size limits and the byte budget of a reply (a batch is limited by its
  number of blocks, as `MAX_BLOCKS_PER_RESPONSE` does), TLS, HTTP parsing. A
  handler's write has no timeout in the code; in `Listener` it ends.
* Read-only handlers, front-ends, SMTP, command-line tools: they keep no state.
* Integer width: amounts are bounded by the supply cap, which is far below
  2^64, and a transfer is applied only when the balance covers it.
* In the pool: statistics (`payout_history`, the totals in `pool_state.txt`), the
  dashboard, the format of payments before Fork 3, the node's request limits. A win
  that the node refuses for its age is dropped by the pool (836), as in `Pool`.

## 7. Plan

Done: all components that keep state, at least in part (section 2); every safety
property that a run checks, proved, and the refinement of `LedgerChain`.

What would come next:

1. An abstract specification of `Pool`, a ledger of rounds in which a share is credited
   and paid at most once, and the pool's totals file.
2. Database writes that fail (`network.rs` 467), in `Node`.
3. `Listener` on the blocks of `Network` in place of heights, forks included.
