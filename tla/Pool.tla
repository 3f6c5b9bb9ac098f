-------------------------------- MODULE Pool --------------------------------
(***************************************************************************)
(* The mining pool, src/ql-pool/src/main.rs: a thread per miner connection *)
(* that credits shares, a thread that refreshes the template, one that     *)
(* saves the shares every 20 seconds, and a thread per payout, with a node *)
(* that answers late or not at all and crashes at any point.               *)
(*                                                                         *)
(* The pool counts shares per address.  Here the shares themselves are     *)
(* kept, each with the template and the nonce it was credited for, so that *)
(* one can be followed; the count is the size of a set.  Every nonce meets *)
(* the pool's difficulty, WinningNonces the node's.                        *)
(*                                                                         *)
(* Left out: the statistics (payout_history and the all-time totals), the  *)
(* format of payments before Fork 3, and the node's limit on requests.     *)
(***************************************************************************)
EXTENDS Integers, FiniteSets, FiniteSetsExt

CONSTANTS
  Miners,
  Nonces, WinningNonces,
  Connections,              \* threads in handle_miner_connection
  Payers,                   \* threads in a payout or a repayment
  RepayRound,               \* the shares the operator has put into repay.txt
  FUNDING,                  \* the pool's balance at the node to begin with
  REWARD,                   \* what a block of the pool's earns
  MAX_PENDING_NONCE_AHEAD,  \* the node's
  MaxHeight,                \* bound: the chain stops here
  MaxShares,                \* bound: shares credited in all
  MaxCrashes                \* bound: crashes of the pool

ASSUME PoolAssumption ==
  /\ WinningNonces \subseteq Nonces
  /\ {FUNDING, REWARD, MAX_PENDING_NONCE_AHEAD, MaxHeight, MaxShares,
      MaxCrashes} \subseteq Nat
  /\ MaxHeight # 0
  \* Shares from before the run: 0, where those of the run are numbered from 1.
  /\ IsFiniteSet(RepayRound)
  /\ RepayRound \subseteq [id : {0}, miner : Miners, template : Nat, nonce : Nonces]

VARIABLES
  node,         \* the node: height, and the pool's balance, counter and queue
  template,     \* state.template: the height of the block being mined, 0 for none
  seen_shares,  \* [template, nonces] already credited
  shares,       \* state.shares: of this round
  connection,   \* per connection: the submission it is serving
  saver,        \* the saving thread: the shares it is about to write
  payer,        \* per payout thread
  pool_shares,  \* file pool_shares.txt
  last_round,   \* file last_round_shares.txt
  repay,        \* file repay.txt
  crashes,      \* crashes so far
  credited,     \* history: every share ever credited
  saved,        \* history: every share ever written to pool_shares.txt
  paid,         \* history: every share of a round whose payments were started
  repaid        \* history: how often repay.txt was paid

threads == <<template, seen_shares, connection>>
files == <<pool_shares, last_round, repay>>
history == <<credited, saved, paid, repaid>>
vars == <<node, threads, shares, saver, payer, files, crashes, history>>

Share == [id : Nat, miner : Miners, template : Nat, nonce : Nonces]

no_submission == [stage |-> "idle", template |-> 0]
no_save == [stage |-> "idle", snapshot |-> {}]
no_payout ==
  [stage |-> "idle", nonce |-> 0, template |-> 0, round |-> {}, snapshot |-> {},
   available |-> 0, next_nonce |-> 0, unpaid |-> {}]

Init ==
  /\ node = [height |-> 1, balance |-> FUNDING, nonce |-> 0, queued |-> {}]
  /\ template = 0
  /\ seen_shares = [template |-> 0, nonces |-> {}]
  /\ shares = {} /\ pool_shares = {} /\ last_round = {} /\ repay = RepayRound
  /\ connection = [c \in Connections |-> no_submission]
  /\ saver = no_save
  /\ payer = [p \in Payers |-> no_payout]
  /\ crashes = 0
  /\ credited = {} /\ saved = {} /\ paid = {} /\ repaid = 0

(***************************************************************************)
(* The node: height is that of the block it wants mined next.              *)
(***************************************************************************)

queued_at(n, number) == {tx \in n.queued : tx.number = number}

\* A block is mined: queued payments are applied in number order as long as
\* they are covered; those behind a gap stay queued.
settled(n) ==
  LET step[k \in 0 .. Cardinality(n.queued)] ==
        IF k = 0 THEN n
        ELSE LET m  == step[k - 1]
                 due == queued_at(m, m.nonce)
                 amount == MapThenSumSet(LAMBDA tx : tx.amount, due)
             IN  IF due = {} THEN m
                 ELSE IF amount > m.balance THEN [m EXCEPT !.queued = @ \ due]
                 ELSE [m EXCEPT !.queued = @ \ due, !.balance = @ - amount, !.nonce = @ + 1]
  IN  [step[Cardinality(n.queued)] EXCEPT !.height = @ + 1]

\* Another miner's block.
NodeMines ==
  /\ node.height < MaxHeight
  /\ node' = settled(node)
  /\ UNCHANGED <<threads, shares, saver, payer, files, crashes, history>>

\* POST /api/submit_tx of a payment of the pool's: is it queued?
queueable(tx) ==
  /\ tx.amount # 0 /\ tx.amount <= node.balance
  /\ tx.number \in node.nonce .. node.nonce + MAX_PENDING_NONCE_AHEAD
  /\ queued_at(node, tx.number) = {}

(***************************************************************************)
(* Templates and shares.                                                   *)
(***************************************************************************)

RefreshTemplate ==
  /\ template' = node.height
  /\ UNCHANGED <<node, seen_shares, connection, shares, saver, payer, files,
                 crashes, history>>

\* A submission is checked against a copy of the template.
SubmitShare(c, miner, nonce) ==
  /\ connection[c].stage = "idle"
  /\ template # 0
  /\ Cardinality(credited) < MaxShares
  /\ connection' = [connection EXCEPT ![c] =
       [stage |-> "claim", template |-> template, nonce |-> nonce, miner |-> miner]]
  /\ UNCHANGED <<node, template, seen_shares, shares, saver, payer, files,
                 crashes, history>>

already_claimed(s) ==
  seen_shares.template = s.template /\ s.nonce \in seen_shares.nonces

ClaimShare(c) ==
  LET s == connection[c]
  IN  /\ s.stage = "claim"
      /\ seen_shares' =
           [template |-> s.template,
            nonces |-> {s.nonce} \cup (IF seen_shares.template = s.template
                                       THEN seen_shares.nonces ELSE {})]
      /\ connection' = [connection EXCEPT ![c] =
           IF already_claimed(s) THEN no_submission ELSE [s EXCEPT !.stage = "credit"]]
      /\ UNCHANGED <<node, template, shares, saver, payer, files, crashes, history>>

\* The share is credited, and a win handed to a thread of its own.
CreditShare(c) ==
  LET s == connection[c]
      share == [id |-> Cardinality(credited) + 1, miner |-> s.miner,
                template |-> s.template, nonce |-> s.nonce]
  IN  /\ s.stage = "credit"
      /\ Cardinality(credited) < MaxShares
      /\ shares' = shares \cup {share}
      /\ credited' = credited \cup {share}
      /\ IF s.nonce \in WinningNonces
         THEN \E p \in Payers :
                /\ payer[p].stage = "idle"
                /\ payer' = [payer EXCEPT ![p] =
                     [no_payout EXCEPT !.stage = "win", !.template = s.template,
                                       !.nonce = s.nonce]]
         ELSE UNCHANGED payer
      /\ connection' = [connection EXCEPT ![c] = no_submission]
      /\ UNCHANGED <<node, template, seen_shares, saver, files, crashes, saved, paid, repaid>>

(***************************************************************************)
(* Saving the shares.  SAVE_LOCK is held from the read of the shares to    *)
(* the rename of the new file.                                             *)
(***************************************************************************)

save_locked ==
  saver.stage = "write" \/ \E p \in Payers : payer[p].stage = "write"

\* Mutant of SaverReads: the thread reads the shares before it has the lock.
SaverReads_unlocked ==
  /\ saver.stage = "idle"
  /\ saver' = [stage |-> "write", snapshot |-> shares]
  /\ UNCHANGED <<node, threads, shares, payer, files, crashes, history>>

SaverReads ==
  /\ ~ save_locked
  /\ saver' = [stage |-> "write", snapshot |-> shares]
  /\ UNCHANGED <<node, threads, shares, payer, files, crashes, history>>

SaverWrites ==
  /\ saver.stage = "write"
  /\ pool_shares' = saver.snapshot
  /\ saved' = saved \cup saver.snapshot
  /\ saver' = no_save
  /\ UNCHANGED <<node, threads, shares, payer, last_round, repay, crashes,
                 credited, paid, repaid>>

(***************************************************************************)
(* A payout: after a win, or triggered by hand.                            *)
(***************************************************************************)

set_payer(p, value) == payer' = [payer EXCEPT ![p] = value]

\* The node takes the win if it still wants a block at that height.  Its answer
\* may be lost, or the request itself.
SubmitWin(p) ==
  /\ payer[p].stage = "win"
  /\ \/ /\ payer[p].template = node.height /\ node.height < MaxHeight
        /\ node' = [settled(node) EXCEPT !.balance = @ + REWARD]
        /\ \E answered \in BOOLEAN :
             set_payer(p, IF answered THEN [payer[p] EXCEPT !.stage = "take"] ELSE no_payout)
     \/ /\ UNCHANGED node
        /\ set_payer(p, no_payout)
  /\ UNCHANGED <<threads, shares, saver, files, crashes, history>>

\* POST /pool/test-trigger-payout.
TriggerPayout(p) ==
  /\ payer[p].stage = "idle"
  /\ set_payer(p, [no_payout EXCEPT !.stage = "take"])
  /\ UNCHANGED <<node, threads, shares, saver, files, crashes, history>>

TakeShares(p) ==
  /\ payer[p].stage = "take"
  /\ set_payer(p, [payer[p] EXCEPT !.stage = "save", !.round = shares])
  /\ shares' = {}
  /\ UNCHANGED <<node, threads, saver, files, crashes, history>>

\* Mutant of PayerReads: SAVE_LOCK is taken for the write only.
PayerReads_unlocked(p) ==
  /\ payer[p].stage = "save"
  /\ set_payer(p, [payer[p] EXCEPT !.stage = "write", !.snapshot = shares])
  /\ UNCHANGED <<node, threads, shares, saver, files, crashes, history>>

PayerReads(p) ==
  /\ payer[p].stage = "save"
  /\ ~ save_locked
  /\ set_payer(p, [payer[p] EXCEPT !.stage = "write", !.snapshot = shares])
  /\ UNCHANGED <<node, threads, shares, saver, files, crashes, history>>

PayerWrites(p) ==
  /\ payer[p].stage = "write"
  /\ pool_shares' = payer[p].snapshot
  /\ saved' = saved \cup payer[p].snapshot
  /\ set_payer(p, IF payer[p].round = {} THEN no_payout
                  ELSE [payer[p] EXCEPT !.stage = "keep", !.snapshot = {}])
  /\ UNCHANGED <<node, threads, shares, saver, last_round, repay, crashes,
                 credited, paid, repaid>>

SaveLastRound(p) ==
  /\ payer[p].stage = "keep"
  /\ last_round' = payer[p].round
  /\ set_payer(p, [payer[p] EXCEPT !.stage = "balance"])
  /\ UNCHANGED <<node, threads, shares, saver, pool_shares, repay, crashes, history>>

\* POST /pool/repay: the file is read, and the payments follow once the balance
\* is known and the file is out of the way.
ReadRepayFile(p) ==
  /\ payer[p].stage = "idle"
  /\ repay # {}
  /\ set_payer(p, [no_payout EXCEPT !.stage = "repay_balance", !.round = repay])
  /\ UNCHANGED <<node, threads, shares, saver, files, crashes, history>>

contributors(round) == {share.miner : share \in round}

\* GET /api/balance; without an answer, or with nothing to pay out, it is over.
ReadBalance(p) ==
  LET this == [payer[p] EXCEPT !.available = node.balance, !.next_nonce = node.nonce,
                               !.unpaid = contributors(payer[p].round)]
      answered == node.balance > 0
  IN  \/ /\ payer[p].stage = "balance" /\ answered
         /\ set_payer(p, [this EXCEPT !.stage = "pay"])
         /\ paid' = paid \cup payer[p].round
         /\ UNCHANGED <<node, threads, shares, saver, files, crashes,
                        credited, saved, repaid>>
      \/ /\ payer[p].stage = "repay_balance" /\ answered
         /\ set_payer(p, [this EXCEPT !.stage = "rename"])
         /\ UNCHANGED <<node, threads, shares, saver, files, crashes, history>>
      \/ /\ payer[p].stage \in {"balance", "repay_balance"}
         /\ set_payer(p, no_payout)
         /\ UNCHANGED <<node, threads, shares, saver, files, crashes, history>>

\* Mutant of RenameRepayFile: a failed rename is not looked at.
RenameRepayFile_unchecked(p) ==
  /\ payer[p].stage = "rename"
  /\ repay' = {}
  /\ set_payer(p, [payer[p] EXCEPT !.stage = "pay"])
  /\ repaid' = repaid + 1
  /\ UNCHANGED <<node, threads, shares, saver, pool_shares, last_round, crashes,
                 credited, saved, paid>>

RenameRepayFile(p) ==
  /\ payer[p].stage = "rename"
  /\ repay' = {}
  /\ IF repay # {}
     THEN set_payer(p, [payer[p] EXCEPT !.stage = "pay"]) /\ repaid' = repaid + 1
     ELSE set_payer(p, no_payout) /\ UNCHANGED repaid
  /\ UNCHANGED <<node, threads, shares, saver, pool_shares, last_round, crashes,
                 credited, saved, paid>>

\* Mutant of payout_units: rounded to the nearest unit.
payout_units_nearest(available_units, count, total_shares) ==
  (2 * available_units * count + total_shares) \div (2 * total_shares)

payout_units(available_units, count, total_shares) ==
  (available_units * count) \div total_shares

payment(p, miner) ==
  LET of == {share \in payer[p].round : share.miner = miner}
  IN  [number |-> payer[p].next_nonce,
       amount |-> payout_units(payer[p].available, Cardinality(of),
                               Cardinality(payer[p].round))]

\* Mutant of Pay: the number moves on for a payment that was not queued, too.
Pay_always_next(p, miner) ==
  LET tx   == payment(p, miner)
      this == [payer[p] EXCEPT !.unpaid = @ \ {miner}, !.next_nonce = @ + 1]
  IN  /\ payer[p].stage = "pay" /\ miner \in payer[p].unpaid
      /\ \/ queueable(tx) /\ node' = [node EXCEPT !.queued = @ \cup {tx}]
         \/ UNCHANGED node
      /\ set_payer(p, this)
      /\ UNCHANGED <<threads, shares, saver, files, crashes, history>>

\* The next contributor, in any order.  The number moves on only when the node's
\* answer says that the payment is queued.
Pay(p, miner) ==
  LET tx   == payment(p, miner)
      this == [payer[p] EXCEPT !.unpaid = @ \ {miner}]
  IN  /\ payer[p].stage = "pay" /\ miner \in payer[p].unpaid
      /\ \/ /\ queueable(tx)
            /\ node' = [node EXCEPT !.queued = @ \cup {tx}]
            /\ \E answered \in BOOLEAN :
                 set_payer(p, IF answered THEN [this EXCEPT !.next_nonce = @ + 1] ELSE this)
         \/ UNCHANGED node /\ set_payer(p, this)
      /\ UNCHANGED <<threads, shares, saver, files, crashes, history>>

EndPayout(p) ==
  /\ payer[p].stage = "pay" /\ payer[p].unpaid = {}
  /\ set_payer(p, no_payout)
  /\ UNCHANGED <<node, threads, shares, saver, files, crashes, history>>

\* The process dies and is started again: what is left is what was saved.
Crash ==
  /\ crashes < MaxCrashes
  /\ crashes' = crashes + 1
  /\ template' = 0
  /\ seen_shares' = [template |-> 0, nonces |-> {}]
  /\ shares' = pool_shares
  /\ connection' = [c \in Connections |-> no_submission]
  /\ saver' = no_save
  /\ payer' = [p \in Payers |-> no_payout]
  /\ UNCHANGED <<node, files, history>>

Payout(p) ==
  \/ SubmitWin(p)
  \/ TriggerPayout(p)
  \/ TakeShares(p)
  \/ PayerReads(p)
  \/ PayerWrites(p)
  \/ SaveLastRound(p)
  \/ ReadRepayFile(p)
  \/ ReadBalance(p)
  \/ RenameRepayFile(p)
  \/ \E miner \in Miners : Pay(p, miner)
  \/ EndPayout(p)

Next ==
  \/ NodeMines
  \/ RefreshTemplate
  \/ \E c \in Connections, miner \in Miners, nonce \in Nonces : SubmitShare(c, miner, nonce)
  \/ \E c \in Connections : ClaimShare(c)
  \/ \E c \in Connections : CreditShare(c)
  \/ SaverReads
  \/ SaverWrites
  \/ \E p \in Payers : Payout(p)
  \/ Crash

Spec == Init /\ [][Next]_vars

(***************************************************************************)
(* Properties.                                                             *)
(***************************************************************************)

\* The shape of memory and files; one thread at most is between its read of the
\* shares and the write of the file.
TypeOK ==
  /\ node.height \in 1 .. MaxHeight /\ node.balance \in Nat /\ node.nonce \in Nat
  /\ node.queued \subseteq [number : Nat, amount : Nat]
  /\ template \in 0 .. node.height
  /\ UNION {shares, pool_shares, saved, paid} \subseteq credited
  /\ credited \subseteq Share
  /\ \A p \in Payers :
       /\ payer[p].round \subseteq credited \cup RepayRound
       /\ payer[p].unpaid \subseteq contributors(payer[p].round)
  /\ saver.stage = "write" => \A p \in Payers : payer[p].stage # "write"
  /\ \A p, q \in Payers : payer[p].stage = "write" /\ payer[q].stage = "write" => p = q

\* Once payments for a round are started, none of its shares can be paid for
\* again: neither memory, nor the file a restart reads, nor a snapshot on its way
\* to that file, nor another round holds one.  So no order of savers, payouts,
\* triggers and crashes pays a share twice.
PaidOnce ==
  paid \cap UNION ({shares, pool_shares, saver.snapshot}
                   \cup {payer[p].round : p \in {q \in Payers : payer[q].stage # "pay"}})
    = {}

\* "the payouts of a round can never add up to more than the pool actually
\* holds", with payouts, repayments and blocks overlapping too: the payments
\* queued at the node are covered by the balance, so none is dropped at mining.
PaymentsCovered == MapThenSumSet(LAMBDA tx : tx.amount, node.queued) <= node.balance

\* Refused payments and lost answers leave no gap in the numbers of the queued
\* ones: no payment waits in the queue for ever.
NoGapInPayments ==
  {tx.number : tx \in node.queued}
    = node.nonce .. node.nonce + Cardinality(node.queued) - 1

\* "Rename FIRST so a second call can never repeat the payout."
RepaidOnce == repaid <= 1

\* "stops one valid share being credited repeatedly": between them the handlers
\* credit a nonce at most once for one template.
NonceCreditedOnce ==
  \A s, t \in credited : s.template = t.template /\ s.nonce = t.nonce => s = t

\* "a restart loses at most 20s", "a lost payout can be replayed": a share that
\* has been in the file and has not been paid for is, when the pool has come up
\* again, in this round or in last_round_shares.txt.
RestartKeepsSavedShares ==
  [][crashes' # crashes => saved \ paid \subseteq shares' \cup last_round']_vars
=============================================================================
