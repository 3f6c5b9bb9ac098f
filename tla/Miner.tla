------------------------------- MODULE Miner -------------------------------
(***************************************************************************)
(* The stand-alone miner, src/ql-miner/src/main.rs: fetch a template,      *)
(* search with several threads, join them, submit what was found; against  *)
(* a node, a node from before fixed-point difficulty, or a pool.  Of the   *)
(* server there is what a miner sees of it: the height of the next block,  *)
(* the seconds since the last one, the pool's template, and the test of a  *)
(* submission.  Any request may fail, before or after the server has       *)
(* served it; each has a timeout.                                          *)
(***************************************************************************)
EXTENDS Pow

CONSTANTS
  Servers,                  \* kinds of server: "node", "old node", "pool"
  Threads,
  Nonces,                   \* 0 .. n, wrapping
  Own, PoolAddress,         \* whose address is hashed
  hash_of(_, _, _),         \* of height (which tells the tip), address, nonce
  BASE_BITS, BASE_FP,       \* the stored difficulty, up to Fork 2 and after it
  BATCH,                    \* nonces a thread tries for one template
  MIN_BLOCK_INTERVAL_SECS,
  POOL_DIFFICULTY_REDUCTION_BITS, POOL_MIN_BITS,
  MaxHeight,                \* bound: the chain stops here
  MaxAge                    \* bound: the clock stops so long after a block

ASSUME MinerAssumption ==
  /\ Servers \subseteq {"node", "old node", "pool"}
  /\ {BASE_BITS, BASE_FP, MIN_BLOCK_INTERVAL_SECS, POOL_DIFFICULTY_REDUCTION_BITS, POOL_MIN_BITS,
      MaxAge} \subseteq Nat
  /\ {BATCH, MaxHeight} \subseteq Nat \ {0}
  /\ BASE_BITS + FP_SHIFT <= HASH_BITS
  /\ IsFiniteSet(Nonces) /\ Nonces # {} /\ Nonces = 0 .. Cardinality(Nonces) - 1
  /\ \A h \in 1 .. MaxHeight, a \in {Own, PoolAddress}, n \in Nonces : hash_of(h, a, n) \in Hashes

VARIABLES
  kind,           \* the kind of server
  height,         \* of the block the node wants next
  age,            \* seconds since its last block
  pool_template,  \* the pool's: height and fixed-point difficulty
  claimed,        \* the pool's: nonces credited for that height
  stage,          \* of the main loop: fetch, search, submit, sleep
  template,       \* what is searched: height, address, bits, fp
  thread,         \* per thread: stage, nonce, nonces tried
  found_flag, winning_nonce,
  sleep           \* seconds left to sleep

\* fine_fp, when the template does not say: an old node's, or a pool's.
NotSent == -1

pool == <<pool_template, claimed>>
server == <<kind, height, age, pool>>
search == <<thread, found_flag, winning_nonce>>
vars == <<server, stage, template, search, sleep>>

\* The node's rule for the next block.
node_asks ==
  IF kind = "old node" THEN effective_difficulty_bits(BASE_BITS, height, age) * FP_ONE
  ELSE required(IF height <= FORK2_ACTIVATION_HEIGHT THEN BASE_BITS ELSE BASE_FP,
                height, age)

\* The pool's difficulty for shares, in bits.
pool_difficulty_bits ==
  greater(pool_template.fp \div FP_ONE - POOL_DIFFICULTY_REDUCTION_BITS, POOL_MIN_BITS)

resting == [t \in Threads |-> [stage |-> "done", nonce |-> 0, tried |-> 0]]

Init ==
  /\ kind \in Servers /\ height = 1 /\ age = 0
  /\ pool_template = [height |-> 1, fp |-> node_asks] /\ claimed = {}
  /\ stage = "fetch" /\ sleep = 0
  /\ template = [height |-> 0, address |-> Own, bits |-> 0, fp |-> NotSent]
  /\ thread = resting /\ found_flag = FALSE /\ winning_nonce = 0

(***************************************************************************)
(* The server.                                                             *)
(***************************************************************************)

\* The height a submission is hashed for, whatever template it came from.
server_height == IF kind = "pool" THEN pool_template.height ELSE height

too_early == kind # "pool" /\ age < MIN_BLOCK_INTERVAL_SECS

\* The node's test of a hash: a target since Fork 2, leading zeros before it
\* and at an old node.
node_accepts(hash) ==
  IF kind = "node" /\ fork2_active(height) THEN meets_target(hash, node_asks)
  ELSE meets_difficulty(hash, node_asks \div FP_ONE)

\* Does the server take the nonce?
takes(nonce) ==
  IF kind = "pool"
  THEN /\ meets_difficulty(hash_of(server_height, PoolAddress, nonce), pool_difficulty_bits)
       /\ nonce \notin claimed
  ELSE ~too_early /\ node_accepts(hash_of(height, Own, nonce))

\* A submission is served: a block, or a share, or nothing.
served(nonce) ==
  /\ IF takes(nonce) /\ kind # "pool" /\ height < MaxHeight
     THEN height' = height + 1 /\ age' = 0 ELSE UNCHANGED <<height, age>>
  /\ claimed' = IF takes(nonce) /\ kind = "pool" THEN claimed \cup {nonce} ELSE claimed
  /\ UNCHANGED <<kind, pool_template>>

\* Another miner's block, or one of the pool's.
NodeMines ==
  /\ height < MaxHeight
  /\ height' = height + 1 /\ age' = 0
  /\ UNCHANGED <<kind, pool, stage, template, search, sleep>>

RefreshTemplate ==
  /\ kind = "pool"
  /\ pool_template' = [height |-> height, fp |-> node_asks]
  /\ claimed' = IF height = pool_template.height THEN claimed ELSE {}
  /\ UNCHANGED <<kind, height, age, stage, template, search, sleep>>

Tick ==
  /\ age < MaxAge
  /\ age' = age + 1
  /\ sleep' = greater(sleep - 1, 0)
  /\ UNCHANGED <<kind, height, pool, stage, template, search>>

(***************************************************************************)
(* The main loop.                                                          *)
(***************************************************************************)

hash_address == IF kind = "pool" THEN PoolAddress ELSE Own

\* Mutant of flag_at_start: the flag of the last search is kept.
flag_at_start_kept == found_flag

flag_at_start == FALSE

\* A template arrives and the threads start, each at a nonce of its own.  A
\* failed request is made again five seconds later.
Fetch ==
  /\ stage = "fetch"
  /\ template' = [height |-> server_height, address |-> hash_address,
                  bits |-> IF kind = "pool" THEN pool_difficulty_bits ELSE ceil_bits(node_asks),
                  fp |-> IF kind = "node" THEN node_asks ELSE NotSent]
  /\ thread' \in [Threads -> {[stage |-> "search", nonce |-> n, tried |-> 0] : n \in Nonces}]
  /\ found_flag' = flag_at_start /\ winning_nonce' = 0
  /\ stage' = "search"
  /\ UNCHANGED <<server, sleep>>

\* The search's test: a target when a fixed-point difficulty was sent.
good(hash) ==
  IF template.fp # NotSent THEN meets_target(hash, template.fp)
  ELSE meets_difficulty(hash, template.bits)

passes(nonce) == good(hash_of(template.height, template.address, nonce))

\* Mutant of batch_done: one nonce too many.
batch_done_late(tried) == tried > BATCH

batch_done(tried) == tried = BATCH

\* One turn of a thread's loop: stop when another has won, else try a nonce.
Try(t) ==
  /\ thread[t].stage = "search"
  /\ LET me == thread[t]
     IN  thread' = [thread EXCEPT ![t] =
           IF found_flag THEN [me EXCEPT !.stage = "done"]
           ELSE IF passes(me.nonce) THEN [me EXCEPT !.stage = "won"]
           ELSE [me EXCEPT !.nonce = (me.nonce + 1) % Cardinality(Nonces),
                           !.tried = @ + 1,
                           !.stage = IF batch_done(me.tried + 1) THEN "done" ELSE "search"]]
  /\ UNCHANGED <<server, stage, template, found_flag, winning_nonce, sleep>>

\* A thread that won stores its nonce, and in a second step the flag.
StoreNonce(t) ==
  /\ thread[t].stage = "won"
  /\ winning_nonce' = thread[t].nonce
  /\ thread' = [thread EXCEPT ![t].stage = "stored"]
  /\ UNCHANGED <<server, stage, template, found_flag, sleep>>

StoreFlag(t) ==
  /\ thread[t].stage = "stored"
  /\ found_flag' = TRUE
  /\ thread' = [thread EXCEPT ![t].stage = "done"]
  /\ UNCHANGED <<server, stage, template, winning_nonce, sleep>>

\* All threads are joined before the flag and the nonce are read.
Join ==
  /\ stage = "search" /\ \A t \in Threads : thread[t].stage = "done"
  /\ stage' = IF found_flag THEN "submit" ELSE "fetch"
  /\ thread' = resting
  /\ UNCHANGED <<server, template, found_flag, winning_nonce, sleep>>

\* What a refusal makes the miner wait: as told by the node, or two seconds.
wait_secs == IF too_early THEN MIN_BLOCK_INTERVAL_SECS - age ELSE 2

\* The submission is served and answered.
Submit ==
  /\ stage = "submit"
  /\ served(winning_nonce)
  /\ IF takes(winning_nonce) THEN stage' = "fetch" /\ sleep' = 0
     ELSE stage' = "sleep" /\ sleep' = wait_secs
  /\ UNCHANGED <<template, search>>

\* No answer comes, whether or not the submission was served: the miner goes on.
SubmitFails ==
  /\ stage = "submit"
  /\ served(winning_nonce) \/ UNCHANGED server
  /\ stage' = "fetch"
  /\ UNCHANGED <<template, search, sleep>>

\* Mutant of after_refusal: what was refused is submitted again.
after_refusal_retry == "submit"

after_refusal == "fetch"

\* (At the end of the clock the rest of a wait is skipped.)
Wake ==
  /\ stage = "sleep"
  /\ sleep = 0 \/ age = MaxAge
  /\ stage' = after_refusal /\ sleep' = 0
  /\ UNCHANGED <<server, template, search>>

Next ==
  \/ \E t \in Threads : Try(t) \/ StoreNonce(t) \/ StoreFlag(t)
  \/ Fetch \/ Join \/ Submit \/ SubmitFails \/ Wake
  \/ NodeMines \/ RefreshTemplate \/ Tick

Spec == Init /\ [][Next]_vars

\* The threads run, time passes, and a server that is asked again and again
\* answers some day.
Fairness ==
  /\ WF_vars(Fetch) /\ WF_vars(Join) /\ WF_vars(Wake) /\ WF_vars(Tick)
  /\ WF_vars(Submit \/ SubmitFails) /\ SF_vars(Submit)
  /\ \A t \in Threads : WF_vars(Try(t) \/ StoreNonce(t) \/ StoreFlag(t))

FairSpec == Spec /\ Fairness

(***************************************************************************)
(* Properties.                                                             *)
(***************************************************************************)

\* Loop, threads and server have their shapes; threads only run in a search, and
\* the flag is up only when a nonce was stored in this search.
TypeOK ==
  /\ kind \in Servers /\ height \in 1 .. MaxHeight /\ age \in 0 .. MaxAge
  /\ pool_template.height \in 1 .. height /\ pool_template.fp \in Nat
  /\ claimed \subseteq Nonces
  /\ stage \in {"fetch", "search", "submit", "sleep"}
  /\ template.height \in 0 .. height /\ template.bits \in Nat
  /\ template.fp \in Nat \cup {NotSent}
  /\ \A t \in Threads :
       /\ thread[t].stage \in {"search", "won", "stored", "done"}
       /\ thread[t].nonce \in Nonces /\ thread[t].tried \in 0 .. BATCH
       /\ stage # "search" => thread[t].stage = "done"
  /\ found_flag \in BOOLEAN /\ winning_nonce \in Nonces
  /\ sleep \in 0 .. greater(2, MIN_BLOCK_INTERVAL_SECS)

\* What is submitted was found for the template just searched: whichever threads
\* won, in whichever order they stored nonce and flag, the nonce read after the
\* join passes the test of this template, and is not the 0 it began as.
SubmitsWhatItFound ==
  stage = "submit" => passes(winning_nonce)

\* A submission is refused only for what the miner cannot know: the server has
\* moved on to another block, the last block is too young, or the pool has
\* credited this nonce before.  No hash that passes a template's test fails the
\* node's, however long the search and the wait took: waiting only widens the
\* target, and up to Fork 2, where the miner compares with a target and the node
\* counts leading zeros, the two tests agree on every hash.
RefusedOnlyIfMovedOn ==
  stage = "submit" /\ template.height = server_height =>
    IF kind = "pool" THEN takes(winning_nonce) \/ winning_nonce \in claimed
    ELSE \A hash \in Hashes : good(hash) => node_accepts(hash)

\* The miner never stops for good, and alone keeps the chain of a node growing
\* through lost answers, refusals and blocks of others.
KeepsMining ==
  /\ []<>(stage = "fetch")
  /\ kind # "pool" ~> height = MaxHeight
=============================================================================
