------------------------------ MODULE Network ------------------------------
(***************************************************************************)
(* Several nodes: mining/submit, block gossip, and the catch-up that asks  *)
(* peers for missing blocks, with clocks that disagree and a network that  *)
(* loses, delays and reorders messages.                                    *)
(*                                                                         *)
(* A block's hash commits, through previous_block_hash, to every block     *)
(* before it, so a block is represented by the chain it ends: a sequence   *)
(* of headers from genesis on.  It links to a node's tip exactly when all  *)
(* of it but the last header is that node's chain.  A header's work stands *)
(* for its nonce: it is the largest fixed-point difficulty its proof of    *)
(* work meets, and does not depend on the timestamp (calculate_pow_hash    *)
(* leaves the timestamp out).                                              *)
(*                                                                         *)
(* Left to Node: transactions, the queue and the database.  What a block's *)
(* transactions do is a function of the chain (Node!EngineIsReplay), so a  *)
(* block built by one node is never refused for them by another.           *)
(***************************************************************************)
EXTENDS Difficulty, Peers, SequencesExt

CONSTANTS
  MiningNodes,              \* the nodes miners submit their work to
  Works,                    \* what a miner's nonce may be worth
  Skew,                     \* each node's clock, relative to true time
  ClockReadDelays,          \* seconds that may pass between two reads of a clock
  Handlers,                 \* a node's handlers of incoming blocks
  GENESIS_DIFFICULTY_BITS, MIN_BLOCK_INTERVAL_SECS,
  PRE_FORK2_FUTURE_SECS,    \* the code's literal 7200
  MaxTime                   \* bound: the clock stops, and no node restarts, here

ASSUME NetworkAssumption ==
  /\ MiningNodes \subseteq Nodes
  /\ Works \subseteq Nat /\ Skew \in [Nodes -> Int] /\ ClockReadDelays \subseteq Nat
  /\ MIN_BLOCK_INTERVAL_SECS \in Nat \ {0}
  /\ {GENESIS_DIFFICULTY_BITS, PRE_FORK2_FUTURE_SECS, MaxTime} \subseteq Nat
  /\ MIN_BLOCK_INTERVAL_SECS <= MaxTime
  /\ "loop" \notin Handlers

VARIABLES
  chain,            \* per node: its blocks, from genesis
  difficulty_bits,  \* per node: engine.state.difficulty_bits
  now,              \* true time, in seconds
  inflight,         \* NewBlock messages sent and not (yet) received
  task              \* per node: its catch-up loop and its block handlers

vars == <<chain, difficulty_bits, now, inflight, task>>

Tasks == {"loop"} \cup Handlers

Header == [timestamp : Int, work : Nat, miner : Nodes \cup {"none"}]
genesis_block == [timestamp |-> 0, work |-> 0, miner |-> "none"]

NoBlock == << >>

tip_height(c) == Len(c) - 1
timestamp_at(c, h) == c[h + 1].timestamp
times(c) == [h \in 0 .. tip_height(c) |-> timestamp_at(c, h)]
mtp(c, h) == median_time_past(h, times(c))
utc(n) == now + Skew[n]

Idle == [stage |-> "idle", peer |-> 0, our_height |-> 0, batch |-> << >>,
         offered |-> NoBlock]

Init ==
  /\ chain = [n \in Nodes |-> <<genesis_block>>]
  /\ difficulty_bits = [n \in Nodes |-> GENESIS_DIFFICULTY_BITS]
  /\ now = MIN_BLOCK_INTERVAL_SECS
  /\ inflight = {}
  /\ task = [n \in Nodes |-> [t \in Tasks |-> Idle]]

(***************************************************************************)
(* Accepting a block.                                                      *)
(***************************************************************************)

gap_of(c) == timestamp_at(c, tip_height(c)) - timestamp_at(c, tip_height(c) - 1)

timestamp_ok(c, clock) ==
  LET h == tip_height(c)
      timestamp == timestamp_at(c, h)
  IN  IF fork2_active(h) THEN fork2_timestamp_ok(timestamp, mtp(c, h - 1), clock)
      ELSE h >= EMERGENCY_ACTIVATION_HEIGHT => timestamp <= clock + PRE_FORK2_FUTURE_SECS

enough_work(c, bits) == c[Len(c)].work >= required(bits, tip_height(c), gap_of(c))

links(c, block) == Len(block) = Len(c) + 1 /\ Front(block) = c

\* Mutant of accepts: the age of the tip is taken from the node's own clock.
accepts_by_clock(n, block) ==
  LET parent_ts == timestamp_at(block, tip_height(block) - 1)
  IN  /\ links(chain[n], block)
      /\ timestamp_ok(block, utc(n))
      /\ block[Len(block)].work >=
           required(difficulty_bits[n], tip_height(block), utc(n) - parent_ts)

accepts(n, block) ==
  /\ links(chain[n], block)
  /\ timestamp_ok(block, utc(n))
  /\ enough_work(block, difficulty_bits[n])

\* The difficulty the node goes on with once its chain is c, gap_secs being what
\* the difficulty rule took for the last block's gap.
bits_after(bits, c, gap_secs) ==
  difficulty_after(bits, tip_height(c), gap_secs, times(c))

apply_verified_block(n, block) ==
  IF accepts(n, block)
  THEN /\ chain' = [chain EXCEPT ![n] = block]
       /\ difficulty_bits' =
            [difficulty_bits EXCEPT ![n] = bits_after(@, block, gap_of(block))]
  ELSE UNCHANGED <<chain, difficulty_bits>>

(***************************************************************************)
(* POST /api/mining/submit.  The clock is read to see how old the tip is,  *)
(* and again, delay seconds later, for the timestamp (before Fork 2) and   *)
(* for the limit on it (from Fork 2 on).                                   *)
(***************************************************************************)

mined(n, work, delay, rule_gap, block_ts) ==
  LET c     == chain[n]
      block == Append(c, [timestamp |-> block_ts, work |-> work, miner |-> n])
  IN  /\ work >= required(difficulty_bits[n], Len(c), rule_gap)
      /\ fork2_active(Len(c)) => block_ts <= utc(n) + delay + FORK2_FUTURE_LIMIT_SECS
      /\ chain' = [chain EXCEPT ![n] = block]
      /\ difficulty_bits' =
           [difficulty_bits EXCEPT ![n] = bits_after(@, block, rule_gap)]
      /\ inflight' = inflight \cup {[to |-> p, block |-> block] : p \in ToSet(PeerList[n])}

\* Mutant of MineBlock: Fork 2 too takes the timestamp from a later read of the
\* clock than the gap its difficulty is computed from.
MineBlock_late_timestamp(n, work, delay) ==
  LET since == utc(n) - timestamp_at(chain[n], Len(chain[n]) - 1)
  IN  /\ Len(chain[n]) <= MaxHeight /\ now + delay <= MaxTime
      /\ since >= MIN_BLOCK_INTERVAL_SECS
      /\ mined(n, work, delay, since, utc(n) + delay)
      /\ now' = now + delay
      /\ UNCHANGED task

\* Mutant of MineBlock: the same, the other way round.
MineBlock_late_gap(n, work, delay) ==
  LET since == utc(n) - timestamp_at(chain[n], Len(chain[n]) - 1)
  IN  /\ Len(chain[n]) <= MaxHeight /\ now + delay <= MaxTime
      /\ since >= MIN_BLOCK_INTERVAL_SECS
      /\ mined(n, work, delay, since + delay, utc(n))
      /\ now' = now + delay
      /\ UNCHANGED task

MineBlock(n, work, delay) ==
  LET h      == Len(chain[n])
      tip_ts == timestamp_at(chain[n], h - 1)
      since  == utc(n) - tip_ts
      fork2_ts == greater(tip_ts + since, mtp(chain[n], h - 1) + 1)
  IN  /\ h <= MaxHeight /\ now + delay <= MaxTime
      /\ since >= MIN_BLOCK_INTERVAL_SECS
      /\ IF fork2_active(h) THEN mined(n, work, delay, fork2_ts - tip_ts, fork2_ts)
                            ELSE mined(n, work, delay, since, utc(n) + delay)
      /\ now' = now + delay
      /\ UNCHANGED task

(***************************************************************************)
(* The catch-up, run by the periodic loop and by the handler of a block    *)
(* that is too far ahead.  Each step holds the engine lock at most once.   *)
(***************************************************************************)

set_task(n, t, value) == task' = [task EXCEPT ![n][t] = value]

\* Turn to the i-th peer; when there is none, a handler goes on to its block.
turn_to(n, i, offered) ==
  IF i <= Len(PeerList[n])
  THEN [Idle EXCEPT !.stage = "read", !.peer = i, !.offered = offered]
  ELSE IF offered # NoBlock THEN [Idle EXCEPT !.stage = "offer", !.offered = offered]
  ELSE Idle

WakeLoop(n) ==
  /\ task[n]["loop"].stage = "idle"
  /\ set_task(n, "loop", turn_to(n, 1, NoBlock))
  /\ UNCHANGED <<chain, difficulty_bits, now, inflight>>

ReadHeight(n, t) ==
  /\ task[n][t].stage = "read"
  /\ set_task(n, t, [task[n][t] EXCEPT !.stage = "fetch",
                                       !.our_height = tip_height(chain[n])])
  /\ UNCHANGED <<chain, difficulty_bits, now, inflight>>

\* Mutant of blocks_from: the last block asked for is left out.
blocks_from_but_last(c, from_height) ==
  LET last == lesser(tip_height(c), from_height + MAX_BLOCKS_PER_RESPONSE - 1)
  IN  [i \in 1 .. greater(last - from_height, 0) |-> SubSeq(c, 1, from_height + i)]

\* The peer's answers to RequestHeight and RequestBlocks(our_height + 1).  Its
\* chain only grows, so both are answered here at once.
blocks_from(c, from_height) ==
  LET last == lesser(tip_height(c), from_height + MAX_BLOCKS_PER_RESPONSE - 1)
  IN  [i \in 1 .. greater(last - from_height + 1, 0) |-> SubSeq(c, 1, from_height + i)]

\* Mutant of Fetch: an empty answer is gone through like any other.
Fetch_maybe_empty(n, t, p) ==
  /\ task[n][t].stage = "fetch"
  /\ PeerList[n][task[n][t].peer] = p
  /\ set_task(n, t, [task[n][t] EXCEPT !.stage = "apply",
                       !.batch = blocks_from(chain[p], task[n][t].our_height + 1)])
  /\ UNCHANGED <<chain, difficulty_bits, now, inflight>>

Fetch(n, t, p) ==
  /\ task[n][t].stage = "fetch"
  /\ PeerList[n][task[n][t].peer] = p
  /\ LET batch == blocks_from(chain[p], task[n][t].our_height + 1)
     IN  set_task(n, t, IF batch = << >>
                        THEN turn_to(n, task[n][t].peer + 1, task[n][t].offered)
                        ELSE [task[n][t] EXCEPT !.stage = "apply", !.batch = batch])
  /\ UNCHANGED <<chain, difficulty_bits, now, inflight>>

\* No connection, no answer within the timeout, or a broken answer.
FetchFails(n, t) ==
  /\ task[n][t].stage = "fetch"
  /\ set_task(n, t, turn_to(n, task[n][t].peer + 1, task[n][t].offered))
  /\ UNCHANGED <<chain, difficulty_bits, now, inflight>>

\* A rejection ends the business with this peer; a batch that is all applied is
\* followed by another question to it.
ApplyNext(n, t) ==
  LET this == task[n][t]
      block == Head(this.batch)
  IN  /\ this.stage = "apply"
      /\ apply_verified_block(n, block)
      /\ set_task(n, t, IF ~ accepts(n, block) THEN turn_to(n, this.peer + 1, this.offered)
                        ELSE IF Len(this.batch) = 1 THEN turn_to(n, this.peer, this.offered)
                        ELSE [this EXCEPT !.batch = Tail(@)])
      /\ UNCHANGED <<now, inflight>>

(***************************************************************************)
(* handle_incoming_block: the height is read first, the block applied in   *)
(* any case, after a catch-up if it is too far ahead.                      *)
(***************************************************************************)

ReceiveBlock(n, t, m) ==
  /\ m \in inflight /\ m.to = n
  /\ t \in Handlers /\ task[n][t].stage = "idle"
  /\ inflight' = inflight \ {m}
  /\ set_task(n, t, IF tip_height(m.block) > tip_height(chain[n]) + 1
                    THEN turn_to(n, 1, m.block)
                    ELSE [Idle EXCEPT !.stage = "offer", !.offered = m.block])
  /\ UNCHANGED <<chain, difficulty_bits, now>>

OfferBlock(n, t) ==
  /\ task[n][t].stage = "offer"
  /\ apply_verified_block(n, task[n][t].offered)
  /\ set_task(n, t, Idle)
  /\ UNCHANGED <<now, inflight>>

\* Chain and difficulty are on disk (Node says what a crash leaves there).
Restart(n) ==
  /\ now < MaxTime
  /\ task' = [task EXCEPT ![n] = [t \in Tasks |-> Idle]]
  /\ UNCHANGED <<chain, difficulty_bits, now, inflight>>

Tick ==
  /\ now < MaxTime
  /\ now' = now + 1
  /\ UNCHANGED <<chain, difficulty_bits, inflight, task>>

CatchUp(n, t) ==
  \/ ReadHeight(n, t)
  \/ \E p \in Nodes : Fetch(n, t, p)
  \/ FetchFails(n, t)
  \/ ApplyNext(n, t)
  \/ OfferBlock(n, t)

Next ==
  \/ \E n \in MiningNodes, work \in Works, delay \in ClockReadDelays :
       MineBlock(n, work, delay)
  \/ \E n \in Nodes : WakeLoop(n)
  \/ \E n \in Nodes, t \in Tasks : CatchUp(n, t)
  \/ \E n \in Nodes, t \in Handlers, m \in inflight : ReceiveBlock(n, t, m)
  \/ \E n \in Nodes : Restart(n)
  \/ Tick

Spec == Init /\ [][Next]_vars

(***************************************************************************)
(* The loop sleeps a minute and starts again for ever, a task runs to its  *)
(* end (every request has a timeout), time passes, and a peer that is      *)
(* asked again and again answers some day.  Nothing is assumed of gossip.  *)
(***************************************************************************)
Fairness ==
  /\ WF_vars(Tick)
  /\ \A n \in Nodes : WF_vars(WakeLoop(n))
  /\ \A n \in Nodes, t \in Tasks : WF_vars(CatchUp(n, t))
  /\ \A n, p \in Nodes : SF_vars(Fetch(n, "loop", p))

FairSpec == Spec /\ Fairness

(***************************************************************************)
(* Properties.                                                             *)
(***************************************************************************)

TypeOK ==
  /\ \A n \in Nodes : chain[n] \in Seq(Header) /\ chain[n] # << >>
  /\ difficulty_bits \in [Nodes -> Nat]
  /\ now \in 0 .. MaxTime
  /\ \A m \in inflight : m.to \in Nodes /\ m.block \in Seq(Header)
  /\ \A n \in Nodes, t \in Tasks :
       /\ task[n][t].stage \in {"idle", "read", "fetch", "apply", "offer"}
       /\ task[n][t].peer \in 0 .. Len(PeerList[n])
       /\ task[n][t].our_height \in 0 .. tip_height(chain[n])
       /\ (task[n][t].stage = "apply") <=> (task[n][t].batch # << >>)

\* The first h blocks of c after genesis, and the difficulty a node that accepts
\* them one by one ends up with.
prefix(c, h) == SubSeq(c, 1, h + 1)

replayed_bits(c) ==
  LET bits[h \in 0 .. tip_height(c)] ==
        IF h = 0 THEN GENESIS_DIFFICULTY_BITS
        ELSE bits_after(bits[h - 1], prefix(c, h), gap_of(prefix(c, h)))
  IN  bits

\* "MUST be called identically on every path that advances the chain": the
\* difficulty a node holds is the one its blocks add up to, whether it mined
\* them, heard of them or fetched them.
DifficultyIsReplay ==
  \A n \in Nodes : difficulty_bits[n] = replayed_bits(chain[n])[tip_height(chain[n])]

\* Whatever a node has accepted, a new node with the same clock accepts block by
\* block from genesis: mining/submit never stores a block that
\* apply_verified_block would refuse.
SyncableFromGenesis ==
  \A n \in Nodes : \A h \in 1 .. tip_height(chain[n]) :
    /\ timestamp_ok(prefix(chain[n], h), utc(n))
    /\ enough_work(prefix(chain[n], h), replayed_bits(chain[n])[h - 1])

\* As long as the clocks agree within the limit, a node never refuses a block
\* another one holds on top of its own chain.
NoHonestBlockRefused ==
  \A n, p \in Nodes :
    IsStrictPrefix(chain[n], chain[p])
      => accepts(n, prefix(chain[p], tip_height(chain[n]) + 1))

\* When the difficulty is the same on every path: the blocks mined are under Fork 2's
\* rule, which reads the clock once, or both reads return the same second.
OneClockRead == FORK2_ACTIVATION_HEIGHT <= 1 \/ ClockReadDelays \subseteq {0}

\* The clocks agree within the limits that a block's timestamp is held against.
ClocksAgree ==
  \A m, n \in Nodes : /\ Skew[m] - Skew[n] <= FORK2_FUTURE_LIMIT_SECS
                      /\ Skew[m] - Skew[n] <= PRE_FORK2_FUTURE_SECS

\* "every node stays genuinely current on its own": once mining stops, all nodes
\* come to hold the same chain, though every gossiped block may be lost.
EventuallyInSync == <>[](\A n, p \in Nodes : chain[n] = chain[p])
=============================================================================
