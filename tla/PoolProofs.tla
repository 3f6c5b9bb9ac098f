----------------------------- MODULE PoolProofs -----------------------------
(***************************************************************************)
(* Proofs about Pool.                                                      *)
(***************************************************************************)
EXTENDS Pool, FiniteSetTheorems, WellFoundedInduction, TLAPS

(***************************************************************************)
(* The shape of the threads.                                               *)
(***************************************************************************)

\* What a payout thread's memory holds.
Payout_memory ==
  [stage : {"idle", "win", "take", "save", "write", "keep", "balance",
            "repay_balance", "rename", "pay"},
   nonce : Nonces \cup {0}, template : Nat, round : SUBSET (credited \cup RepayRound),
   snapshot : SUBSET credited, available : Nat, next_nonce : Nat, unpaid : SUBSET Miners]

\* What a connection's thread remembers of the submission it serves.
Submission ==
  {no_submission} \cup
  [stage : {"claim", "credit"}, template : Nat, nonce : Nonces, miner : Miners]

NodeShape ==
  /\ node \in [height : Nat, balance : Nat, nonce : Nat, queued : SUBSET [number : Nat, amount : Nat]]
  /\ node.height \in 1 .. MaxHeight

ThreadShape ==
  /\ template \in 0 .. node.height
  /\ connection \in [Connections -> Submission]
  /\ saver \in [stage : {"idle", "write"}, snapshot : SUBSET credited]
  /\ payer \in [Payers -> Payout_memory]

\* The shares are those credited, each numbered once.
ShareShape ==
  /\ IsFiniteSet(credited) /\ credited \subseteq Share
  /\ \A share \in credited : share.id \in 1 .. Cardinality(credited)
  /\ UNION {shares, pool_shares, saved, paid} \subseteq credited
  /\ repay \subseteq RepayRound /\ repaid \in Nat /\ crashes \in Nat

(***************************************************************************)
(* Where the shares of a round may be.                                     *)
(***************************************************************************)

\* The stages of a payout that has taken a round of the pool's and has not begun
\* to pay; and those of a repayment.
taken == {"save", "write", "keep", "balance"}
repaying == {"repay_balance", "rename"}

\* One thread at most holds SAVE_LOCK; without it a thread has no snapshot.
OneWriter ==
  /\ \A p \in Payers : payer[p].stage = "write" => saver.stage # "write"
  /\ \A p, q \in Payers : payer[p].stage = "write" /\ payer[q].stage = "write" => p = q
  /\ saver.stage # "write" => saver.snapshot = {}
  /\ \A p \in Payers : payer[p].stage # "write" => payer[p].snapshot = {}

\* What a thread's round is: shares of the pool's, or of the repayment's file.
RoundsOf ==
  \A p \in Payers :
    /\ payer[p].stage \in {"idle", "win", "take"} => payer[p].round = {}
    /\ payer[p].stage \in repaying => payer[p].round \subseteq RepayRound
    /\ payer[p].stage \in taken => payer[p].round \subseteq credited
    /\ payer[p].stage \in repaying \cup {"keep", "balance", "pay"} => payer[p].round # {}

\* A round that was taken is neither in memory nor with another payout, and not in
\* the snapshot its own thread writes; once that is written it is in no snapshot
\* and not in the file.
RoundsApart ==
  \A p \in Payers : payer[p].stage \in taken =>
    /\ payer[p].round \cap shares = {}
    /\ payer[p].round \cap payer[p].snapshot = {}
    /\ \A q \in Payers \ {p} : payer[q].stage \in taken => payer[p].round \cap payer[q].round = {}
    /\ payer[p].stage \in {"keep", "balance"} =>
         /\ payer[p].round \cap pool_shares = {}
         /\ payer[p].round \cap saver.snapshot = {}
         /\ \A q \in Payers : payer[p].round \cap payer[q].snapshot = {}

\* A share that payments were started for is nowhere any more.
PaidGone ==
  /\ paid \cap shares = {}
  /\ paid \cap pool_shares = {}
  /\ paid \cap saver.snapshot = {}
  /\ \A p \in Payers :
       /\ paid \cap payer[p].snapshot = {}
       /\ payer[p].stage \in taken => paid \cap payer[p].round = {}

\* repay.txt is gone once it has been paid.
RepayGone == repaid = 0 \/ (repaid = 1 /\ repay = {})

\* A contributor of a round is paid for its shares in it.
UnpaidContribute == \A p \in Payers : payer[p].unpaid \subseteq contributors(payer[p].round)

Shape == ThreadShape /\ ShareShape
RoundInv == OneWriter /\ RoundsOf /\ RoundsApart /\ PaidGone /\ RepayGone /\ UnpaidContribute

(***************************************************************************)
(* The queue at the node.                                                  *)
(***************************************************************************)

total(txs) == MapThenSumSet(LAMBDA tx : tx.amount, txs)

\* The number after the last one that is queued.
next_free == node.nonce + Cardinality(node.queued)

\* The shares of a set of contributors.
shares_of(round, miners) == {share \in round : share.miner \in miners}

\* What a round's contributors that are still to be paid can claim between them.
claim(p) ==
  payout_units(payer[p].available, Cardinality(shares_of(payer[p].round, payer[p].unpaid)),
               Cardinality(payer[p].round))

\* The queue: consecutive numbers, each once.
QueueShape ==
  /\ IsFiniteSet(node.queued)
  /\ \A tx \in node.queued : tx.number \in node.nonce .. next_free - 1
  /\ \A number \in node.nonce .. next_free - 1 : \E tx \in node.queued : tx.number = number
  /\ \A tx, ty \in node.queued : tx.number = ty.number => tx = ty

\* A payout has read a balance that covers what is queued and what it has still to
\* pay, or its numbers are taken: another payout has overtaken it, or it has lost
\* an answer, and nothing it sends is queued any more.
ClaimsCovered ==
  \A p \in Payers : payer[p].stage \in {"rename", "pay"} =>
    /\ payer[p].next_nonce <= next_free
    /\ payer[p].next_nonce = next_free => total(node.queued) + claim(p) <= node.balance

QueueInv == QueueShape /\ total(node.queued) <= node.balance /\ ClaimsCovered

IInv == NodeShape /\ Shape /\ RoundInv /\ QueueInv

(***************************************************************************)
(* Lemmas.                                                                 *)
(***************************************************************************)

USE DEF taken, repaying

\* A payout thread's step changes its own memory only.
LEMMA PayerStep ==
  ASSUME NEW p \in Payers, NEW v, payer \in [Payers -> Payout_memory],
         credited \subseteq credited', v \in Payout_memory', set_payer(p, v)
  PROVE  /\ payer' \in [Payers -> Payout_memory']
         /\ payer'[p] = v
         /\ \A q \in Payers \ {p} : payer'[q] = payer[q]
<1>1. payer' = [payer EXCEPT ![p] = v]
  BY DEF set_payer
<1>2. \A q \in Payers : payer[q] \in Payout_memory'
  BY DEF Payout_memory
<1>3. payer'[p] = v /\ \A q \in Payers \ {p} : payer'[q] = payer[q]
  BY <1>1
<1> QED
  BY <1>1, <1>2, <1>3

\* The memory of a thread that does nothing has its shape.
LEMMA NoPayout ==
  /\ no_payout \in Payout_memory
  /\ no_payout.stage = "idle" /\ no_payout.round = {} /\ no_payout.snapshot = {}
  /\ no_payout.unpaid = {}
  BY DEF no_payout, Payout_memory

\* A share about to be credited is a new one.
LEMMA FreshShare ==
  ASSUME ShareShape, NEW share, share.id = Cardinality(credited) + 1
  PROVE  /\ share \notin credited
         /\ Cardinality(credited \cup {share}) = Cardinality(credited) + 1
         /\ IsFiniteSet(credited \cup {share})
<1>1. Cardinality(credited) \in Nat
  BY FS_CardinalityType DEF ShareShape
<1>2. share \notin credited
  BY <1>1 DEF ShareShape
<1> QED
  BY <1>2, FS_AddElement DEF ShareShape

\* A share of the repayment's was not credited in this run.
LEMMA RepayApart ==
  ASSUME ShareShape
  PROVE  credited \cap RepayRound = {}
  BY PoolAssumption DEF ShareShape

(***************************************************************************)
(* A step of a payout that has no round of the pool's in hand.             *)
(***************************************************************************)

\* A thread that moves between stages without a taken round, with files, memory and
\* payments left alone, disturbs nothing.
LEMMA QuietStep ==
  ASSUME RoundInv, NEW p \in Payers, payer'[p].stage \notin taken,
         payer'[p].snapshot = {},
         payer'[p].stage \in {"idle", "win", "take"} => payer'[p].round = {},
         payer'[p].stage \in repaying => payer'[p].round \subseteq RepayRound,
         payer'[p].stage \in repaying \cup {"pay"} => payer'[p].round # {},
         payer'[p].unpaid \subseteq contributors(payer'[p].round),
         \A q \in Payers \ {p} : payer'[q] = payer[q],
         UNCHANGED <<shares, pool_shares, saver, paid>>,
         credited \subseteq credited', RepayGone'
  PROVE  RoundInv'
<1>1. OneWriter'
  BY DEF RoundInv, OneWriter
<1>2. RoundsOf'
  BY DEF RoundInv, RoundsOf
<1>3. RoundsApart'
  BY DEF RoundInv, RoundsApart
<1>4. PaidGone'
  BY DEF RoundInv, PaidGone
<1>5. UnpaidContribute'
  BY DEF RoundInv, UnpaidContribute, contributors
<1> QED
  BY <1>1, <1>2, <1>3, <1>4, <1>5 DEF RoundInv

(***************************************************************************)
(* The steps that move shares about.                                       *)
(***************************************************************************)

\* Threads and files are as they were: so is where the shares are.
LEMMA RoundFrame ==
  ASSUME RoundInv, UNCHANGED <<shares, saver, payer, files, paid, repaid>>,
         credited \subseteq credited'
  PROVE  RoundInv'
  BY DEF RoundInv, OneWriter, RoundsOf, RoundsApart, PaidGone, RepayGone,
         UnpaidContribute, contributors, files

\* A new share is in memory and nowhere else; a thread that was idle may have its win.
LEMMA CreditRounds ==
  ASSUME RoundInv, Shape, NEW share, share \notin credited, shares' = shares \cup {share},
         credited \subseteq credited', UNCHANGED <<saver, files, paid, repaid>>,
         \A p \in Payers :
           /\ payer'[p].stage = payer[p].stage
              \/ (payer[p].stage = "idle" /\ payer'[p].stage = "win")
           /\ payer'[p].round = payer[p].round /\ payer'[p].snapshot = payer[p].snapshot
           /\ payer'[p].unpaid = payer[p].unpaid
  PROVE  RoundInv'
<1>1. /\ OneWriter /\ RoundsOf /\ UnpaidContribute /\ RepayGone
      /\ RoundsApart /\ PaidGone
  BY DEF RoundInv
<1>2. /\ UNION {shares, pool_shares, saved, paid} \subseteq credited
      /\ saver.snapshot \subseteq credited
      /\ \A p \in Payers : payer[p].snapshot \subseteq credited
  BY DEF Shape, ShareShape, ThreadShape, Payout_memory
<1>3. UNCHANGED <<saver, pool_shares, last_round, repay, paid, repaid>>
  BY DEF files
<1>4. share \notin paid /\ \A p \in Payers : payer[p].stage \in taken => share \notin payer[p].round
  BY <1>1, <1>2 DEF RoundsOf
<1>5. OneWriter'
  BY <1>1, <1>2, <1>3, <1>4 DEF OneWriter
<1>6. RoundsOf'
  BY <1>1, <1>2, <1>3, <1>4 DEF RoundsOf
<1>7. RoundsApart'
  BY <1>1, <1>2, <1>3, <1>4 DEF RoundsApart
<1>8. PaidGone'
  BY <1>1, <1>2, <1>3, <1>4 DEF PaidGone
<1>9. RepayGone'
  BY <1>1, <1>2, <1>3, <1>4 DEF RepayGone
<1>10. UnpaidContribute'
  BY <1>1, <1>2, <1>3, <1>4 DEF UnpaidContribute, contributors
<1> QED
  BY <1>5, <1>6, <1>7, <1>8, <1>9, <1>10 DEF RoundInv

\* The saving thread has the lock, and reads shares that no round has taken.
LEMMA SaverReadsRounds ==
  ASSUME RoundInv, Shape, SaverReads
  PROVE  RoundInv'
<1>1. /\ OneWriter /\ RoundsOf /\ UnpaidContribute /\ RepayGone
      /\ RoundsApart /\ PaidGone
  BY DEF RoundInv
<1>2. /\ saver' = [stage |-> "write", snapshot |-> shares]
      /\ UNCHANGED <<shares, payer, pool_shares, repay, credited, paid, repaid>>
      /\ saver.stage # "write" /\ \A p \in Payers : payer[p].stage # "write"
  BY DEF SaverReads, save_locked, files, history
<1>3. saver'.stage = "write" /\ saver'.snapshot = shares
  BY <1>2
<1>4. OneWriter'
  BY <1>1, <1>2, <1>3 DEF OneWriter
<1>5. RoundsOf'
  BY <1>1, <1>2, <1>3 DEF RoundsOf
<1>6. RoundsApart'
  BY <1>1, <1>2, <1>3 DEF RoundsApart
<1>7. PaidGone'
  BY <1>1, <1>2, <1>3 DEF PaidGone
<1>8. RepayGone'
  BY <1>1, <1>2, <1>3 DEF RepayGone
<1>9. UnpaidContribute'
  BY <1>1, <1>2, <1>3 DEF UnpaidContribute, contributors
<1> QED
  BY <1>4, <1>5, <1>6, <1>7, <1>8, <1>9 DEF RoundInv

\* What is written has no share of a round that is waiting to be paid.
LEMMA SaverWritesRounds ==
  ASSUME RoundInv, Shape, SaverWrites
  PROVE  RoundInv'
<1>1. /\ OneWriter /\ RoundsOf /\ UnpaidContribute /\ RepayGone
      /\ RoundsApart /\ PaidGone
  BY DEF RoundInv
<1>2. /\ pool_shares' = saver.snapshot
      /\ saver' = [stage |-> "idle", snapshot |-> {}]
      /\ UNCHANGED <<shares, payer, repay, credited, paid, repaid>>
  BY DEF SaverWrites, no_save
<1>3. saver'.stage = "idle" /\ saver'.snapshot = {}
  BY <1>2
<1>4. OneWriter'
  BY <1>1, <1>2, <1>3 DEF OneWriter
<1>5. RoundsOf'
  BY <1>1, <1>2, <1>3 DEF RoundsOf
<1>6. RoundsApart'
  BY <1>1, <1>2, <1>3 DEF RoundsApart
<1>7. PaidGone'
  BY <1>1, <1>2, <1>3 DEF PaidGone
<1>8. RepayGone'
  BY <1>1, <1>2, <1>3 DEF RepayGone
<1>9. UnpaidContribute'
  BY <1>1, <1>2, <1>3 DEF UnpaidContribute, contributors
<1> QED
  BY <1>4, <1>5, <1>6, <1>7, <1>8, <1>9 DEF RoundInv

\* The shares in memory become the round of one payout.
LEMMA TakeSharesRounds ==
  ASSUME RoundInv, Shape, NEW p \in Payers, TakeShares(p)
  PROVE  RoundInv'
<1>1. /\ OneWriter /\ RoundsOf /\ UnpaidContribute /\ RepayGone
      /\ RoundsApart /\ PaidGone
  BY DEF RoundInv
<1>2. /\ payer[p].stage = "take" /\ shares' = {}
      /\ set_payer(p, [payer[p] EXCEPT !.stage = "save", !.round = shares])
      /\ UNCHANGED <<saver, pool_shares, repay, paid, repaid>>
  BY DEF TakeShares, files, history
<1>3. payer \in [Payers -> Payout_memory]
  BY DEF Shape, ThreadShape
<1>4. /\ payer'[p].stage = "save" /\ payer'[p].round = shares
      /\ payer'[p].snapshot = payer[p].snapshot /\ payer'[p].unpaid = payer[p].unpaid
      /\ \A q \in Payers \ {p} : payer'[q] = payer[q]
  BY <1>2, <1>3 DEF set_payer, Payout_memory
<1>5. shares \subseteq credited /\ payer[p].unpaid = {} /\ payer[p].snapshot = {} /\ credited' = credited
  BY <1>1, <1>2 DEF Shape, ShareShape, RoundsOf, UnpaidContribute, contributors, OneWriter,
                    TakeShares, history
<1>6. OneWriter'
  BY <1>1, <1>2, <1>3, <1>4, <1>5 DEF OneWriter
<1>7. RoundsOf'
  BY <1>1, <1>2, <1>3, <1>4, <1>5 DEF RoundsOf
<1>8. RoundsApart'
  BY <1>1, <1>2, <1>3, <1>4, <1>5 DEF RoundsApart
<1>9. PaidGone'
  BY <1>1, <1>2, <1>3, <1>4, <1>5 DEF PaidGone
<1>10. RepayGone'
  BY <1>1, <1>2, <1>3, <1>4, <1>5 DEF RepayGone
<1>11. UnpaidContribute'
  BY <1>1, <1>2, <1>3, <1>4, <1>5 DEF UnpaidContribute, contributors
<1> QED
  BY <1>6, <1>7, <1>8, <1>9, <1>10, <1>11 DEF RoundInv

\* With the lock, the payout reads the shares credited since.
LEMMA PayerReadsRounds ==
  ASSUME RoundInv, Shape, NEW p \in Payers, PayerReads(p)
  PROVE  RoundInv'
<1>1. /\ OneWriter /\ RoundsOf /\ UnpaidContribute /\ RepayGone
      /\ RoundsApart /\ PaidGone
  BY DEF RoundInv
<1>2. /\ payer[p].stage = "save"
      /\ set_payer(p, [payer[p] EXCEPT !.stage = "write", !.snapshot = shares])
      /\ UNCHANGED <<shares, saver, pool_shares, repay, credited, paid, repaid>>
      /\ saver.stage # "write" /\ \A q \in Payers : payer[q].stage # "write"
  BY DEF PayerReads, save_locked, files, history
<1>3. payer \in [Payers -> Payout_memory]
  BY DEF Shape, ThreadShape
<1>4. /\ payer'[p].stage = "write" /\ payer'[p].round = payer[p].round
      /\ payer'[p].snapshot = shares /\ payer'[p].unpaid = payer[p].unpaid
      /\ \A q \in Payers \ {p} : payer'[q] = payer[q]
  BY <1>2, <1>3 DEF set_payer, Payout_memory
<1>5. OneWriter'
  BY <1>1, <1>2, <1>3, <1>4 DEF OneWriter
<1>6. RoundsOf'
  BY <1>1, <1>2, <1>3, <1>4 DEF RoundsOf
<1>7. RoundsApart'
  BY <1>1, <1>2, <1>3, <1>4 DEF RoundsApart
<1>8. PaidGone'
  BY <1>1, <1>2, <1>3, <1>4 DEF PaidGone
<1>9. RepayGone'
  BY <1>1, <1>2, <1>3, <1>4 DEF RepayGone
<1>10. UnpaidContribute'
  BY <1>1, <1>2, <1>3, <1>4 DEF UnpaidContribute, contributors
<1> QED
  BY <1>5, <1>6, <1>7, <1>8, <1>9, <1>10 DEF RoundInv

\* From here on the round is in no file and in no snapshot.
LEMMA PayerWritesRounds ==
  ASSUME RoundInv, Shape, NEW p \in Payers, PayerWrites(p)
  PROVE  RoundInv'
<1>1. /\ OneWriter /\ RoundsOf /\ UnpaidContribute /\ RepayGone
      /\ RoundsApart /\ PaidGone
  BY DEF RoundInv
<1>2. /\ payer[p].stage = "write" /\ pool_shares' = payer[p].snapshot
      /\ set_payer(p, IF payer[p].round = {} THEN no_payout
                      ELSE [payer[p] EXCEPT !.stage = "keep", !.snapshot = {}])
      /\ UNCHANGED <<shares, saver, repay, credited, paid, repaid>>
  BY DEF PayerWrites
<1>3. payer \in [Payers -> Payout_memory]
  BY DEF Shape, ThreadShape
<1>4. /\ payer'[p].stage = "keep" \/ payer'[p].stage = "idle"
      /\ payer'[p].round = payer[p].round
      /\ payer'[p].stage = "keep" => payer'[p].round # {}
      /\ payer'[p].snapshot = {} /\ payer'[p].unpaid \subseteq payer[p].unpaid
      /\ payer'[p].stage = "idle" => payer'[p].round = {}
      /\ \A q \in Payers \ {p} : payer'[q] = payer[q]
  BY <1>2, <1>3 DEF set_payer, Payout_memory, no_payout
<1>5. \A q \in Payers \ {p} : payer[q].stage # "write" /\ payer[q].snapshot = {}
  BY <1>1, <1>2 DEF OneWriter
<1>6. saver.snapshot = {}
  BY <1>1, <1>2 DEF OneWriter
<1>7. OneWriter'
  BY <1>1, <1>2, <1>3, <1>4, <1>5, <1>6 DEF OneWriter
<1>8. RoundsOf'
  BY <1>1, <1>2, <1>3, <1>4, <1>5, <1>6 DEF RoundsOf
<1>9. RoundsApart'
  BY <1>1, <1>2, <1>3, <1>4, <1>5, <1>6 DEF RoundsApart
<1>10. PaidGone'
  BY <1>1, <1>2, <1>3, <1>4, <1>5, <1>6 DEF PaidGone
<1>11. RepayGone'
  BY <1>1, <1>2, <1>3, <1>4, <1>5, <1>6 DEF RepayGone
<1>12. UnpaidContribute'
  BY <1>1, <1>2, <1>3, <1>4, <1>5, <1>6 DEF UnpaidContribute, contributors
<1> QED
  BY <1>7, <1>8, <1>9, <1>10, <1>11, <1>12 DEF RoundInv

\* The payments begin: the round counts as paid, and is nowhere else.
LEMMA BeginsToPayRounds ==
  ASSUME RoundInv, Shape, NEW p \in Payers, payer[p].stage = "balance",
         payer'[p].stage = "pay", payer'[p].round = payer[p].round,
         payer'[p].snapshot = payer[p].snapshot,
         payer'[p].unpaid = contributors(payer[p].round),
         \A q \in Payers \ {p} : payer'[q] = payer[q],
         paid' = paid \cup payer[p].round,
         UNCHANGED <<shares, saver, files, credited, repaid>>
  PROVE  RoundInv'
<1>1. /\ OneWriter /\ RoundsOf /\ UnpaidContribute /\ RepayGone
      /\ RoundsApart /\ PaidGone
  BY DEF RoundInv
<1>2. UNCHANGED <<shares, saver, pool_shares, repay, repaid>>
  BY DEF files
<1>3. payer[p].stage \in taken /\ payer[p].stage \notin repaying
  OBVIOUS
<1>4. OneWriter'
  BY <1>1, <1>2, <1>3 DEF OneWriter
<1>5. RoundsOf'
  BY <1>1, <1>2, <1>3 DEF RoundsOf
<1>6. RoundsApart'
  BY <1>1, <1>2, <1>3 DEF RoundsApart
<1>7. PaidGone'
  <2>1. payer[p].round \cap (shares \cup pool_shares \cup saver.snapshot) = {}
    BY <1>1, <1>3 DEF RoundsApart
  <2>2. \A q \in Payers : payer[p].round \cap payer[q].snapshot = {}
    BY <1>1, <1>3 DEF RoundsApart
  <2>3. \A q \in Payers \ {p} : payer[q].stage \in taken => payer[p].round \cap payer[q].round = {}
    BY <1>1, <1>3 DEF RoundsApart
  <2>4. paid' \cap (shares' \cup pool_shares' \cup saver'.snapshot) = {}
    BY <1>1, <1>2, <2>1 DEF PaidGone
  <2>5. ASSUME NEW q \in Payers PROVE paid' \cap payer'[q].snapshot = {}
    BY <1>1, <2>2 DEF PaidGone
  <2>6. ASSUME NEW q \in Payers, payer'[q].stage \in taken PROVE paid' \cap payer'[q].round = {}
    <3>1. q # p /\ payer'[q] = payer[q]
      BY <2>6
    <3> QED
      BY <1>1, <2>3, <2>6, <3>1 DEF PaidGone
  <2> QED
    BY <2>4, <2>5, <2>6 DEF PaidGone
<1>8. RepayGone'
  BY <1>1, <1>2, <1>3 DEF RepayGone
<1>9. UnpaidContribute'
  BY <1>1, <1>2, <1>3 DEF UnpaidContribute, contributors
<1> QED
  BY <1>4, <1>5, <1>6, <1>7, <1>8, <1>9 DEF RoundInv

\* After a crash no thread has anything.
LEMMA CrashRounds ==
  ASSUME RoundInv, Shape, Crash
  PROVE  RoundInv'
<1>1. /\ OneWriter /\ RoundsOf /\ UnpaidContribute /\ RepayGone
      /\ RoundsApart /\ PaidGone
  BY DEF RoundInv
<1>2. /\ shares' = pool_shares /\ saver' = [stage |-> "idle", snapshot |-> {}]
      /\ UNCHANGED <<pool_shares, repay, paid, repaid>>
  BY DEF Crash, files, history, no_save
<1>3. \A q \in Payers : /\ payer'[q].stage = "idle" /\ payer'[q].round = {}
                         /\ payer'[q].snapshot = {} /\ payer'[q].unpaid = {}
  BY NoPayout DEF Crash
<1>4. saver'.stage = "idle" /\ saver'.snapshot = {}
  BY <1>2
<1>5. OneWriter'
  BY <1>1, <1>2, <1>3, <1>4 DEF OneWriter
<1>6. RoundsOf'
  BY <1>1, <1>2, <1>3, <1>4 DEF RoundsOf
<1>7. RoundsApart'
  BY <1>1, <1>2, <1>3, <1>4 DEF RoundsApart
<1>8. PaidGone'
  BY <1>1, <1>2, <1>3, <1>4 DEF PaidGone
<1>9. RepayGone'
  BY <1>1, <1>2, <1>3, <1>4 DEF RepayGone
<1>10. UnpaidContribute'
  BY <1>1, <1>2, <1>3, <1>4 DEF UnpaidContribute, contributors
<1> QED
  BY <1>5, <1>6, <1>7, <1>8, <1>9, <1>10 DEF RoundInv

(***************************************************************************)
(* The shape, step by step.                                                *)
(***************************************************************************)

\* A payout thread's step keeps the shape when what it leaves in its memory and in
\* the files has it.
LEMMA PayoutShape ==
  ASSUME Shape, NEW p \in Payers, NEW v, set_payer(p, v), v \in Payout_memory,
         UNCHANGED <<threads, saver, credited, crashes>>,
         node.height \in Nat, node'.height \in Nat, node'.height >= node.height,
         UNION {shares', pool_shares', saved', paid'} \subseteq credited,
         repay' \subseteq repay, repaid' \in Nat
  PROVE  /\ Shape'
         /\ payer'[p] = v
         /\ \A q \in Payers \ {p} : payer'[q] = payer[q]
<1>1. Payout_memory' = Payout_memory
  BY DEF Payout_memory
<1>2. payer \in [Payers -> Payout_memory] /\ credited \subseteq credited'
  BY DEF Shape, ThreadShape
<1>3. /\ payer' \in [Payers -> Payout_memory']
      /\ payer'[p] = v /\ \A q \in Payers \ {p} : payer'[q] = payer[q]
  BY <1>1, <1>2, PayerStep, Zenon
<1>4. ThreadShape'
  BY <1>3 DEF Shape, ThreadShape, threads
<1>5. ShareShape'
  BY DEF Shape, ShareShape
<1> QED
  BY <1>3, <1>4, <1>5 DEF Shape

\* A new template is that of the node's height.
LEMMA RefreshTemplateShape ==
  ASSUME Shape, NodeShape, RefreshTemplate
  PROVE  Shape'
<1>1. /\ template' = node.height /\ node' = node
      /\ UNCHANGED <<connection, saver, payer, credited, shares, pool_shares, repay, crashes,
                     saved, paid, repaid>>
  BY DEF RefreshTemplate, files, history
<1>2. ThreadShape'
  BY <1>1 DEF Shape, NodeShape, ThreadShape, Payout_memory
<1>3. ShareShape'
  BY <1>1 DEF Shape, ShareShape
<1> QED
  BY <1>2, <1>3 DEF Shape

\* A submission remembers the template it was checked against.
LEMMA SubmitShareShape ==
  ASSUME Shape, NodeShape, NEW c \in Connections, NEW miner \in Miners, NEW nonce \in Nonces,
         SubmitShare(c, miner, nonce)
  PROVE  Shape'
<1>1. /\ connection' = [connection EXCEPT ![c] =
           [stage |-> "claim", template |-> template, nonce |-> nonce, miner |-> miner]]
      /\ UNCHANGED <<node, template, saver, payer, credited, shares, pool_shares, repay, crashes,
                     saved, paid, repaid>>
  BY DEF SubmitShare, files, history
<1>2. template \in Nat
  BY DEF Shape, ThreadShape, NodeShape
<1>3. [stage |-> "claim", template |-> template, nonce |-> nonce, miner |-> miner] \in Submission
  BY <1>2 DEF Submission
<1>4. connection' \in [Connections -> Submission]
  BY <1>1, <1>3 DEF Shape, ThreadShape
<1>5. ThreadShape'
  BY <1>1, <1>4 DEF Shape, ThreadShape, Payout_memory
<1>6. ShareShape'
  BY <1>1 DEF Shape, ShareShape
<1> QED
  BY <1>5, <1>6 DEF Shape

\* A claim keeps its submission, or ends it.
LEMMA ClaimShareShape ==
  ASSUME Shape, NEW c \in Connections, ClaimShare(c)
  PROVE  Shape'
<1>1. /\ connection' = [connection EXCEPT ![c] =
           IF already_claimed(connection[c]) THEN no_submission
           ELSE [connection[c] EXCEPT !.stage = "credit"]]
      /\ connection[c].stage = "claim"
      /\ UNCHANGED <<node, template, saver, payer, credited, shares, pool_shares, repay, crashes,
                     saved, paid, repaid>>
  BY DEF ClaimShare, files, history
<1>2. connection[c] \in Submission \ {no_submission}
  BY <1>1 DEF Shape, ThreadShape, no_submission
<1>3. [connection[c] EXCEPT !.stage = "credit"] \in Submission /\ no_submission \in Submission
  BY <1>2 DEF Submission
<1>4. connection' \in [Connections -> Submission]
  BY <1>1, <1>3 DEF Shape, ThreadShape
<1>5. ThreadShape'
  BY <1>1, <1>4 DEF Shape, ThreadShape, Payout_memory
<1>6. ShareShape'
  BY <1>1 DEF Shape, ShareShape
<1> QED
  BY <1>5, <1>6 DEF Shape

\* The saving thread's steps.
LEMMA SaverShape ==
  ASSUME Shape, SaverReads \/ SaverWrites
  PROVE  Shape'
<1>1. /\ UNCHANGED <<node, template, connection, payer, credited, shares, repay, crashes,
                     paid, repaid>>
      /\ saver' = [stage |-> "write", snapshot |-> shares] \/ saver' = no_save
      /\ pool_shares' \in {pool_shares, saver.snapshot}
      /\ saved' \in {saved, saved \cup saver.snapshot}
  BY DEF SaverReads, SaverWrites, files, history, threads
<1>2. saver.snapshot \subseteq credited /\ shares \subseteq credited
  BY DEF Shape, ThreadShape, ShareShape
<1>3. saver' \in [stage : {"idle", "write"}, snapshot : SUBSET credited]
  BY <1>1, <1>2 DEF no_save
<1>4. ThreadShape'
  BY <1>1, <1>3 DEF Shape, ThreadShape, Payout_memory
<1>5. UNION {shares', pool_shares', saved', paid'} \subseteq credited
  BY <1>1, <1>2 DEF Shape, ShareShape
<1>6. ShareShape'
  BY <1>1, <1>5 DEF Shape, ShareShape
<1> QED
  BY <1>4, <1>6 DEF Shape

\* A crash leaves nothing in memory but the shares of the file.
LEMMA CrashShape ==
  ASSUME Shape, NodeShape, Crash
  PROVE  Shape'
<1>1. /\ crashes' = crashes + 1 /\ template' = 0 /\ shares' = pool_shares
      /\ connection' = [c \in Connections |-> no_submission]
      /\ saver' = no_save /\ payer' = [p \in Payers |-> no_payout]
      /\ UNCHANGED <<node, pool_shares, repay, credited, saved, paid, repaid>>
  BY DEF Crash, files, history
<1>2. no_payout \in Payout_memory'
  BY <1>1, NoPayout DEF Payout_memory
<1>3. ThreadShape'
  BY <1>1, <1>2 DEF ThreadShape, Submission, no_save, NodeShape
<1>4. ShareShape'
  BY <1>1 DEF Shape, ShareShape
<1> QED
  BY <1>3, <1>4 DEF Shape

\* The payout threads when a share is credited: one that was idle may have the win.
LEMMA WinHandedOver ==
  ASSUME Shape, NEW c \in Connections, CreditShare(c), credited \subseteq credited',
         connection[c].template \in Nat, connection[c].nonce \in Nonces, OneWriter, RoundsOf,
         UnpaidContribute
  PROVE  /\ payer' \in [Payers -> Payout_memory']
         /\ \A p \in Payers :
              /\ payer'[p] = payer[p] \/ (payer[p].stage = "idle" /\ payer'[p].stage = "win")
              /\ payer'[p].round = payer[p].round /\ payer'[p].snapshot = payer[p].snapshot
              /\ payer'[p].unpaid = payer[p].unpaid
<1> DEFINE won == [no_payout EXCEPT !.stage = "win", !.template = connection[c].template,
                                    !.nonce = connection[c].nonce]
<1>1. payer \in [Payers -> Payout_memory'] /\ Payout_memory \subseteq Payout_memory'
  BY DEF Shape, ThreadShape, Payout_memory
<1>2. won \in Payout_memory
  BY NoPayout DEF Payout_memory
<1>3. /\ won.stage = "win" /\ won.round = {} /\ won.snapshot = {} /\ won.unpaid = {}
  BY DEF no_payout
<1>4. CASE payer' = payer
  BY <1>1, <1>4
<1>5. CASE \E p \in Payers : payer[p].stage = "idle" /\ payer' = [payer EXCEPT ![p] = won]
  <2>1. PICK p \in Payers : payer[p].stage = "idle" /\ payer' = [payer EXCEPT ![p] = won]
    BY <1>5
  <2>2. payer[p].round = {} /\ payer[p].snapshot = {} /\ payer[p].unpaid = {}
    BY <2>1 DEF OneWriter, RoundsOf, UnpaidContribute, contributors
  <2> HIDE DEF won
  <2>3. payer' \in [Payers -> Payout_memory']
    BY <1>1, <1>2, <2>1
  <2>4. payer'[p] = won /\ \A q \in Payers \ {p} : payer'[q] = payer[q]
    BY <1>1, <2>1
  <2> QED
    BY <1>3, <2>1, <2>2, <2>3, <2>4
<1>6. payer' = payer \/ \E p \in Payers : payer[p].stage = "idle" /\ payer' = [payer EXCEPT ![p] = won]
  BY DEF CreditShare
<1> QED
  BY <1>4, <1>5, <1>6

\* A share is credited under the next number.
LEMMA CreditShareStep ==
  ASSUME Shape, NodeShape, RoundInv, NEW c \in Connections, CreditShare(c)
  PROVE  Shape' /\ RoundInv'
<1> DEFINE s == connection[c]
           share == [id |-> Cardinality(credited) + 1, miner |-> s.miner,
                     template |-> s.template, nonce |-> s.nonce]
<1>1. /\ s.stage = "credit"
      /\ shares' = shares \cup {share} /\ credited' = credited \cup {share}
      /\ connection' = [connection EXCEPT ![c] = no_submission]
      /\ UNCHANGED <<node, template, saver, files, crashes, saved, paid, repaid>>
  BY DEF CreditShare
<1>2. s \in Submission \ {no_submission}
  BY <1>1 DEF Shape, ThreadShape, no_submission
<1>3. s.template \in Nat /\ s.nonce \in Nonces /\ s.miner \in Miners
  BY <1>2 DEF Submission
<1>4. Cardinality(credited) \in Nat
  BY FS_CardinalityType DEF Shape, ShareShape
<1>5. share \in Share /\ share.id = Cardinality(credited) + 1
  BY <1>3, <1>4 DEF Share
<1> HIDE DEF share
<1>6. /\ share \notin credited /\ IsFiniteSet(credited')
      /\ Cardinality(credited') = Cardinality(credited) + 1
  BY <1>1, <1>5, FreshShare DEF Shape
<1>7. ShareShape'
  <2>1. ASSUME NEW t \in credited' PROVE t \in Share /\ t.id \in 1 .. Cardinality(credited')
    BY <1>1, <1>4, <1>5, <1>6 DEF Shape, ShareShape
  <2>2. UNION {shares', pool_shares', saved', paid'} \subseteq credited'
    BY <1>1 DEF Shape, ShareShape, files
  <2> QED
    BY <1>1, <1>6, <2>1, <2>2 DEF Shape, ShareShape, files
<1>8. credited \subseteq credited'
  BY <1>1
<1>9. /\ payer' \in [Payers -> Payout_memory']
      /\ \A p \in Payers :
           /\ payer'[p] = payer[p] \/ (payer[p].stage = "idle" /\ payer'[p].stage = "win")
           /\ payer'[p].round = payer[p].round /\ payer'[p].snapshot = payer[p].snapshot
           /\ payer'[p].unpaid = payer[p].unpaid
  BY <1>3, <1>8, WinHandedOver DEF RoundInv
<1>10. connection' \in [Connections -> Submission]
  BY <1>1 DEF Shape, ThreadShape, Submission
<1>11. ThreadShape'
  BY <1>1, <1>9, <1>10 DEF Shape, ThreadShape
<1>12. RoundInv'
  BY <1>1, <1>6, <1>9, CreditRounds
<1> QED
  BY <1>7, <1>11, <1>12 DEF Shape

\* The order < on Nat.
Below == {ss \in Nat \X Nat : ss[1] < ss[2]}

\* The library's well-foundedness of < on Nat, as a set of pairs.
LEMMA BelowWellFounded == IsWellFoundedOn(Below, Nat)
BY NatLessThanWellFounded DEF OpToRel, Below

\* Induction over Nat in set form: every inductive set holds all of Nat.  The
\* library's rule takes an operator, which the provers cannot instantiate.
LEMMA NatSetInduction ==
  ASSUME NEW S, 0 \in S, \A n \in Nat : n \in S => n + 1 \in S
  PROVE  \A n \in Nat : n \in S
<1> DEFINE T == Nat \ S
<1>1. SUFFICES ASSUME T # {} PROVE FALSE
  OBVIOUS
<1>2. \E x \in T : \A y \in T : <<y, x>> \notin Below
  <2> HIDE DEF T
  <2>1. T \subseteq Nat
    BY DEF T
  <2> QED BY <1>1, <2>1, BelowWellFounded, WFMin
<1>3. PICK x \in T : \A y \in T : <<y, x>> \notin Below
  BY <1>2
<1>4. x # 0 /\ x \in Nat /\ x - 1 \in Nat /\ x - 1 < x
  OBVIOUS
<1>5. x - 1 \notin S
  BY <1>4
<1>6. <<x - 1, x>> \in Below
  BY <1>4 DEF Below
<1> QED BY <1>3, <1>4, <1>5, <1>6

(***************************************************************************)
(* The sum of the amounts of a finite set of payments.                     *)
(***************************************************************************)

Payment == [number : Nat, amount : Nat]
picked(s) == CHOOSE x \in s : TRUE

\* The recursion by which the community module adds up the subsets of S.
adds_up(g, S) ==
  g = [s \in SUBSET S |-> IF s = {} THEN 0 ELSE picked(s).amount + g[s \ {picked(s)}]]

\* The sum is the value at S of a function that recursion holds for, if there is one.
LEMMA TotalIsChoice ==
  ASSUME NEW S
  PROVE  total(S) = (CHOOSE g : adds_up(g, S))[S]
  BY DEF total, MapThenSumSet, MapThenFoldSet, adds_up, picked

\* One payment fewer.
LEMMA OneFewer ==
  ASSUME NEW s, IsFiniteSet(s), NEW x \in s
  PROVE  /\ IsFiniteSet(s \ {x}) /\ Cardinality(s \ {x}) = Cardinality(s) - 1
         /\ Cardinality(s) \in Nat /\ Cardinality(s) > 0
  BY FS_RemoveElement, FS_CardinalityType, FS_EmptySet

\* There is such a function.
LEMMA SumExists ==
  ASSUME NEW S, IsFiniteSet(S)
  PROVE  \E g : adds_up(g, S)
<1> DEFINE upto(n) == {s \in SUBSET S : Cardinality(s) <= n}
           partly(g, n) == g = [s \in upto(n) |->
             IF s = {} THEN 0 ELSE picked(s).amount + g[s \ {picked(s)}]]
           N == {n \in Nat : \E g : partly(g, n)}
<1>1. \A s \in SUBSET S : IsFiniteSet(s) /\ Cardinality(s) \in Nat /\ Cardinality(s) <= Cardinality(S)
  BY FS_Subset, FS_CardinalityType
<1>2. 0 \in N
  <2>1. upto(0) = {{}}
    BY <1>1, FS_EmptySet
  <2>2. partly([s \in {{}} |-> 0], 0)
    BY <2>1
  <2> QED
    BY <2>2
<1>3. ASSUME NEW n \in N PROVE n + 1 \in N
  <2>1. PICK g : partly(g, n)
    OBVIOUS
  <2> DEFINE h == [s \in upto(n + 1) |->
               IF s = {} THEN 0 ELSE picked(s).amount + g[s \ {picked(s)}]]
  <2>2. upto(n) \subseteq upto(n + 1)
    BY <1>1
  <2>3. ASSUME NEW s \in upto(n) PROVE h[s] = g[s]
    BY <2>1, <2>2
  <2>4. ASSUME NEW s \in upto(n + 1), s # {} PROVE h[s \ {picked(s)}] = g[s \ {picked(s)}]
    <3>1. picked(s) \in s
      BY <2>4 DEF picked
    <3>2. s \ {picked(s)} \in upto(n)
      BY <1>1, <3>1, OneFewer
    <3> QED
      BY <2>3, <3>2
  <2>5. h = [s \in upto(n + 1) |-> IF s = {} THEN 0 ELSE picked(s).amount + h[s \ {picked(s)}]]
    BY <2>4
  <2>6. partly(h, n + 1)
    BY <2>5
  <2> HIDE DEF partly, h
  <2> QED
    BY <2>6
<1>4. \A n \in Nat : n \in N
  <2> HIDE DEF N
  <2> QED
    BY <1>2, <1>3, NatSetInduction
<1>5. Cardinality(S) \in Nat /\ upto(Cardinality(S)) = SUBSET S
  BY <1>1, FS_CardinalityType
<1>6. PICK g : partly(g, Cardinality(S))
  BY <1>4, <1>5
<1> QED
  BY <1>5, <1>6 DEF adds_up

\* The sum of a smaller set is that of a recursion over a larger one.
LEMMA SumSame ==
  ASSUME NEW S, NEW T, NEW g, NEW h, adds_up(g, S), adds_up(h, T), IsFiniteSet(S)
  PROVE  \A s \in SUBSET S : s \subseteq T => g[s] = h[s]
<1> DEFINE N == {n \in Nat : \A s \in SUBSET S :
                   s \subseteq T /\ Cardinality(s) = n => g[s] = h[s]}
<1>1. \A s \in SUBSET S : IsFiniteSet(s) /\ Cardinality(s) \in Nat
  BY FS_Subset, FS_CardinalityType
<1>2. g[{}] = 0 /\ h[{}] = 0
  BY DEF adds_up
<1>3. 0 \in N
  BY <1>1, <1>2, FS_EmptySet
<1>4. ASSUME NEW n \in Nat, n \in N PROVE n + 1 \in N
  <2>1. ASSUME NEW s \in SUBSET S, s \subseteq T, Cardinality(s) = n + 1 PROVE g[s] = h[s]
    <3>1. s # {}
      BY <2>1, FS_EmptySet
    <3>2. picked(s) \in s
      BY <3>1 DEF picked
    <3>3. s \ {picked(s)} \in SUBSET S /\ Cardinality(s \ {picked(s)}) = n
      BY <1>1, <2>1, <3>2, OneFewer
    <3>4. g[s \ {picked(s)}] = h[s \ {picked(s)}]
      BY <1>4, <2>1, <3>3
    <3>5. /\ g[s] = picked(s).amount + g[s \ {picked(s)}]
          /\ h[s] = picked(s).amount + h[s \ {picked(s)}]
      BY <2>1, <3>1 DEF adds_up
    <3> QED
      BY <3>4, <3>5
  <2> QED
    BY <2>1
<1>5. \A n \in Nat : n \in N
  <2> HIDE DEF N
  <2> QED
    BY <1>3, <1>4, NatSetInduction
<1> QED
  BY <1>1, <1>5

\* Whichever payment is taken out, the rest and it add up to the same.
LEMMA SumAnyOrder ==
  ASSUME NEW S, NEW g, adds_up(g, S), IsFiniteSet(S), S \subseteq Payment
  PROVE  \A s \in SUBSET S : /\ g[s] \in Nat
                             /\ \A x \in s : g[s] = x.amount + g[s \ {x}]
<1> DEFINE N == {n \in Nat : \A s \in SUBSET S : Cardinality(s) <= n =>
                   g[s] \in Nat /\ \A x \in s : g[s] = x.amount + g[s \ {x}]}
<1>1. \A s \in SUBSET S : IsFiniteSet(s) /\ Cardinality(s) \in Nat
  BY FS_Subset, FS_CardinalityType
<1>2. 0 \in N
  <2>1. \A s \in SUBSET S : Cardinality(s) <= 0 => s = {}
    BY <1>1, FS_EmptySet
  <2>2. g[{}] = 0
    BY DEF adds_up
  <2>3. \A s \in SUBSET S : Cardinality(s) <= 0 =>
          g[s] \in Nat /\ \A x \in s : g[s] = x.amount + g[s \ {x}]
    BY <2>1, <2>2
  <2> QED
    BY <2>3
<1>3. ASSUME NEW n \in Nat, n \in N PROVE n + 1 \in N
  <2>0. \A r \in SUBSET S : Cardinality(r) <= n =>
          g[r] \in Nat /\ \A x \in r : g[r] = x.amount + g[r \ {x}]
    BY <1>3
  <2>1. ASSUME NEW s \in SUBSET S, Cardinality(s) = n + 1
        PROVE  g[s] \in Nat /\ \A x \in s : g[s] = x.amount + g[s \ {x}]
    <3> DEFINE y == picked(s)
    <3>1. s # {}
      BY <2>1, FS_EmptySet
    <3>2. y \in s /\ y.amount \in Nat
      BY <3>1 DEF picked, Payment
    <3>3. g[s] = y.amount + g[s \ {y}]
      BY <2>1, <3>1 DEF adds_up
    <3> HIDE DEF y
    <3>4. s \ {y} \in SUBSET S /\ Cardinality(s \ {y}) <= n
      BY <1>1, <2>1, <3>2, OneFewer
    <3>5. g[s \ {y}] \in Nat /\ \A x \in s \ {y} : g[s \ {y}] = x.amount + g[(s \ {y}) \ {x}]
      BY <2>0, <3>4
    <3>6. ASSUME NEW x \in s, x # y PROVE g[s] = x.amount + g[s \ {x}]
      <4>1. s \ {x} \in SUBSET S /\ Cardinality(s \ {x}) <= n /\ y \in s \ {x}
        BY <1>1, <2>1, <3>2, <3>6, OneFewer
      <4>2. g[s \ {x}] = y.amount + g[(s \ {x}) \ {y}]
        BY <2>0, <4>1
      <4>3. (s \ {x}) \ {y} = (s \ {y}) \ {x}
        OBVIOUS
      <4>4. g[s \ {y}] = x.amount + g[(s \ {x}) \ {y}]
        BY <3>5, <3>6, <4>3
      <4>5. x.amount \in Nat
        BY DEF Payment
      <4>6. (s \ {x}) \ {y} \in SUBSET S /\ Cardinality((s \ {x}) \ {y}) <= n
        BY <1>1, <4>1, OneFewer
      <4>7. g[(s \ {x}) \ {y}] \in Nat
        BY <2>0, <4>6
      <4> QED
        BY <3>2, <3>3, <4>2, <4>4, <4>5, <4>7
    <3>7. g[s] \in Nat
      BY <3>2, <3>3, <3>5
    <3>8. \A x \in s : g[s] = x.amount + g[s \ {x}]
      BY <3>3, <3>6
    <3> QED
      BY <3>7, <3>8
  <2>2. ASSUME NEW s \in SUBSET S, Cardinality(s) <= n + 1, Cardinality(s) # n + 1
        PROVE  Cardinality(s) <= n
    BY <1>1, <2>2
  <2>3. ASSUME NEW s \in SUBSET S, Cardinality(s) <= n + 1
        PROVE  g[s] \in Nat /\ \A x \in s : g[s] = x.amount + g[s \ {x}]
    BY <2>0, <2>1, <2>2, <2>3
  <2> QED
    BY <2>3
<1>4. \A n \in Nat : n \in N
  <2> HIDE DEF N
  <2> QED
    BY <1>2, <1>3, NatSetInduction
<1> QED
  BY <1>1, <1>4

\* The total of a set of payments: nothing for none, and with each its amount.
LEMMA Total ==
  ASSUME NEW S, IsFiniteSet(S), S \subseteq Payment
  PROVE  /\ total(S) \in Nat
         /\ \A x \in S : total(S) = x.amount + total(S \ {x})
<1> DEFINE g == CHOOSE g : adds_up(g, S)
<1>1. adds_up(g, S) /\ total(S) = g[S]
  BY SumExists, TotalIsChoice
<1> HIDE DEF g
<1>2. g[S] \in Nat /\ \A x \in S : g[S] = x.amount + g[S \ {x}]
  BY <1>1, SumAnyOrder
<1>3. ASSUME NEW x \in S PROVE total(S \ {x}) = g[S \ {x}]
  <2> DEFINE h == CHOOSE h : adds_up(h, S \ {x})
  <2>1. IsFiniteSet(S \ {x})
    BY OneFewer
  <2>2. adds_up(h, S \ {x}) /\ total(S \ {x}) = h[S \ {x}]
    BY <2>1, SumExists, TotalIsChoice
  <2> HIDE DEF h
  <2> QED
    BY <1>1, <2>1, <2>2, SumSame
<1> QED
  BY <1>1, <1>2, <1>3

\* No payments, no amount.
LEMMA TotalOfNone == total({}) = 0
<1>1. IsFiniteSet({})
  BY FS_EmptySet
<1> DEFINE g == CHOOSE g : adds_up(g, {})
<1>2. adds_up(g, {}) /\ total({}) = g[{}]
  BY <1>1, SumExists, TotalIsChoice
<1> HIDE DEF g
<1> QED
  BY <1>2 DEF adds_up

\* One more payment in the queue.
LEMMA TotalWith ==
  ASSUME NEW S, IsFiniteSet(S), S \subseteq Payment, NEW x \in Payment, x \notin S
  PROVE  total(S \cup {x}) = total(S) + x.amount
<1>1. IsFiniteSet(S \cup {x}) /\ S \cup {x} \subseteq Payment /\ (S \cup {x}) \ {x} = S
  BY FS_AddElement
<1>2. total(S \cup {x}) = x.amount + total(S)
  BY <1>1, Total
<1>3. total(S) \in Nat /\ x.amount \in Nat
  BY Total DEF Payment
<1> QED
  BY <1>2, <1>3

(***************************************************************************)
(* Mining applies the whole queue when it is consecutive and covered.      *)
(***************************************************************************)

\* One turn of the loop in which a block applies what is queued.
one_settled(m) ==
  LET due == queued_at(m, m.nonce)
      amount == total(due)
  IN  IF due = {} THEN m
      ELSE IF amount > m.balance THEN [m EXCEPT !.queued = @ \ due]
      ELSE [m EXCEPT !.queued = @ \ due, !.balance = @ - amount, !.nonce = @ + 1]

turns(g) ==
  g = [k \in 0 .. Cardinality(node.queued) |->
         IF k = 0 THEN node ELSE one_settled(g[k - 1])]

\* The loop meets its own equation.
LEMMA TurnsExist ==
  ASSUME IsFiniteSet(node.queued)
  PROVE  \E g : turns(g)
<1> DEFINE partly(g, n) == g = [k \in 0 .. n |-> IF k = 0 THEN node ELSE one_settled(g[k - 1])]
           N == {n \in Nat : \E g : partly(g, n)}
<1>1. 0 \in N
  <2>1. partly([k \in 0 .. 0 |-> node], 0)
    OBVIOUS
  <2> HIDE DEF partly
  <2> QED
    BY <2>1
<1>2. ASSUME NEW n \in Nat, n \in N PROVE n + 1 \in N
  <2>1. PICK g : partly(g, n)
    BY <1>2
  <2> DEFINE h == [k \in 0 .. n + 1 |-> IF k = 0 THEN node ELSE one_settled(g[k - 1])]
  <2>2. \A k \in 0 .. n : h[k] = g[k]
    BY <2>1
  <2>3. \A k \in 0 .. n + 1 : k # 0 => k - 1 \in 0 .. n
    OBVIOUS
  <2>4. h = [k \in 0 .. n + 1 |-> IF k = 0 THEN node ELSE one_settled(h[k - 1])]
    BY <2>2, <2>3
  <2>5. partly(h, n + 1)
    BY <2>4
  <2> HIDE DEF partly, h
  <2> QED
    BY <2>5
<1>3. Cardinality(node.queued) \in N
  <2> HIDE DEF N
  <2>1. \A n \in Nat : n \in N
    BY <1>1, <1>2, NatSetInduction
  <2> QED
    BY <2>1, FS_CardinalityType
<1> QED
  BY <1>3 DEF turns

\* settled is the last of the turns, one block higher.
LEMMA SettledIsLastTurn ==
  settled(node) = [(CHOOSE g : turns(g))[Cardinality(node.queued)] EXCEPT !.height = @ + 1]
  BY DEF settled, turns, one_settled, total

\* What is left in the queue after k turns.
rest(k) == {tx \in node.queued : tx.number >= node.nonce + k}

\* The next payment is there, alone with its number, and covered.
LEMMA NextIsDue ==
  ASSUME NodeShape, QueueShape, NEW k \in Nat, k < Cardinality(node.queued)
  PROVE  \E tx \in rest(k) :
           /\ {ty \in rest(k) : ty.number = node.nonce + k} = {tx}
           /\ rest(k) \ {tx} = rest(k + 1)
           /\ total({tx}) = tx.amount
           /\ total(rest(k)) = tx.amount + total(rest(k + 1))
<1>1. /\ node.queued \subseteq Payment /\ node.nonce \in Nat /\ Cardinality(node.queued) \in Nat
      /\ IsFiniteSet(node.queued)
  BY FS_CardinalityType DEF NodeShape, Payment, QueueShape
<1>2. node.nonce + k \in node.nonce .. next_free - 1
  BY <1>1 DEF next_free
<1>3. PICK tx \in node.queued : tx.number = node.nonce + k
  BY <1>2 DEF QueueShape
<1>4. tx \in rest(k)
  BY <1>1, <1>3 DEF rest
<1>5. \A ty \in node.queued : ty.number = node.nonce + k => ty = tx
  BY <1>3 DEF QueueShape
<1>6. {ty \in rest(k) : ty.number = node.nonce + k} = {tx}
  BY <1>3, <1>4, <1>5 DEF rest
<1>7. rest(k) \ {tx} = rest(k + 1)
  <2>1. \A ty \in node.queued : ty.number \in Nat
    BY <1>1 DEF Payment
  <2> QED
    BY <1>1, <1>3, <1>5, <2>1 DEF rest
<1>8. IsFiniteSet(rest(k)) /\ rest(k) \subseteq Payment
  BY <1>1, FS_Subset DEF rest
<1>9. total(rest(k)) = tx.amount + total(rest(k + 1))
  BY <1>4, <1>7, <1>8, Total
<1>10. total({tx}) = tx.amount
  <2>1. IsFiniteSet({tx}) /\ {tx} \subseteq Payment /\ {tx} \ {tx} = {} /\ tx.amount \in Nat
    BY <1>1, <1>3, FS_Singleton DEF Payment
  <2> QED
    BY <2>1, Total, TotalOfNone
<1> QED
  BY <1>4, <1>6, <1>7, <1>9, <1>10

\* A payment applied to a node's record, field by field.
LEMMA NodeExcept ==
  ASSUME NEW m, NEW tx,
         m = [height |-> m.height, nonce |-> m.nonce, queued |-> m.queued, balance |-> m.balance]
  PROVE  [m EXCEPT !.queued = @ \ {tx}, !.balance = @ - tx.amount, !.nonce = @ + 1] =
           [height |-> m.height, nonce |-> m.nonce + 1, queued |-> m.queued \ {tx},
            balance |-> m.balance - tx.amount]
<1> DEFINE r == [m EXCEPT !.queued = @ \ {tx}, !.balance = @ - tx.amount, !.nonce = @ + 1]
<1>1. r \in [height : {m.height}, nonce : {m.nonce + 1}, queued : {m.queued \ {tx}},
             balance : {m.balance - tx.amount}]
  OBVIOUS
<1> HIDE DEF r
<1>2. r = [height |-> m.height, nonce |-> m.nonce + 1, queued |-> m.queued \ {tx},
           balance |-> m.balance - tx.amount]
  BY <1>1
<1> QED
  BY <1>2 DEF r

\* The node after k turns.
LEMMA AfterTurns ==
  ASSUME NodeShape, QueueShape, total(node.queued) <= node.balance, NEW g, turns(g)
  PROVE  \A k \in 0 .. Cardinality(node.queued) :
           g[k] = [height |-> node.height, nonce |-> node.nonce + k, queued |-> rest(k),
                   balance |-> node.balance - (total(node.queued) - total(rest(k)))]
<1> DEFINE K == Cardinality(node.queued)
           after(k) == [height |-> node.height, nonce |-> node.nonce + k, queued |-> rest(k),
                        balance |-> node.balance - (total(node.queued) - total(rest(k)))]
           N == {k \in Nat : k <= K => g[k] = after(k)}
<1>1. /\ node.queued \subseteq Payment /\ node.nonce \in Nat /\ K \in Nat /\ node.balance \in Nat
      /\ IsFiniteSet(node.queued)
  BY FS_CardinalityType DEF NodeShape, Payment, QueueShape
<1>2. \A k : total(rest(k)) \in Nat
  BY <1>1, FS_Subset, Total DEF rest
<1>3. total(node.queued) \in Nat
  BY <1>1, Total
<1>4. 0 \in N
  <2>1. g[0] = node
    BY <1>1 DEF turns
  <2>2. rest(0) = node.queued
    <3>1. \A tx \in node.queued : tx.number >= node.nonce + 0
      BY <1>1 DEF QueueShape
    <3> QED
      BY <3>1 DEF rest
  <2>3. after(0) = node
    BY <1>1, <1>3, <2>2 DEF NodeShape
  <2> QED
    BY <2>1, <2>3
<1>5. ASSUME NEW k \in Nat, k \in N PROVE k + 1 \in N
  <2>1. SUFFICES ASSUME k + 1 <= K PROVE g[k + 1] = after(k + 1)
    OBVIOUS
  <2>2. g[k] = after(k)
    BY <1>1, <1>5, <2>1
  <2>3. g[k + 1] = one_settled(g[k])
    BY <1>1, <2>1 DEF turns
  <2>4. PICK tx \in rest(k) : /\ {ty \in rest(k) : ty.number = node.nonce + k} = {tx}
                              /\ rest(k) \ {tx} = rest(k + 1)
                              /\ total({tx}) = tx.amount
                              /\ total(rest(k)) = tx.amount + total(rest(k + 1))
    <3>1. k < Cardinality(node.queued)
      BY <1>1, <2>1
    <3> QED
      BY <3>1, NextIsDue
  <2>5. tx.amount \in Nat
    BY <1>1 DEF rest, Payment
  <2> DEFINE m == g[k]
  <2>6. queued_at(m, m.nonce) = {tx}
    BY <2>2, <2>4 DEF queued_at
  <2>7. ~ (tx.amount > m.balance)
    BY <1>1, <1>2, <1>3, <2>2, <2>4, <2>5
  <2>8. one_settled(m) = [m EXCEPT !.queued = @ \ {tx}, !.balance = @ - tx.amount, !.nonce = @ + 1]
    BY <2>4, <2>6, <2>7 DEF one_settled
  <2>9. m.balance - tx.amount = node.balance - (total(node.queued) - total(rest(k + 1)))
    BY <1>1, <1>2, <1>3, <2>2, <2>4, <2>5
  <2>10. m.queued \ {tx} = rest(k + 1)
    BY <2>2, <2>4
  <2>11. m.nonce + 1 = node.nonce + (k + 1) /\ m.height = node.height
    BY <1>1, <2>2
  <2>12. [m EXCEPT !.queued = @ \ {tx}, !.balance = @ - tx.amount, !.nonce = @ + 1] =
           [height |-> m.height, nonce |-> m.nonce + 1, queued |-> m.queued \ {tx},
            balance |-> m.balance - tx.amount]
    <3>1. m = [height |-> m.height, nonce |-> m.nonce, queued |-> m.queued, balance |-> m.balance]
      BY <2>2
    <3> QED
      BY <3>1, NodeExcept, Zenon
  <2> QED
    BY <2>3, <2>8, <2>9, <2>10, <2>11, <2>12
<1>6. \A k \in Nat : k \in N
  <2> HIDE DEF N
  <2> QED
    BY <1>4, <1>5, NatSetInduction
<1> QED
  BY <1>1, <1>6

\* A block empties the queue, takes the total from the balance and moves the number
\* on past all of it.
LEMMA Settled ==
  ASSUME NodeShape, QueueShape, total(node.queued) <= node.balance
  PROVE  /\ settled(node) = [height |-> node.height + 1, nonce |-> next_free, queued |-> {},
                             balance |-> node.balance - total(node.queued)]
         /\ next_free \in Nat /\ total(node.queued) \in Nat
<1> DEFINE K == Cardinality(node.queued)
           g == CHOOSE g : turns(g)
<1>1. /\ node.queued \subseteq Payment /\ node.nonce \in Nat /\ K \in Nat /\ node.balance \in Nat
      /\ IsFiniteSet(node.queued) /\ total(node.queued) \in Nat
  BY FS_CardinalityType, Total DEF NodeShape, Payment, QueueShape
<1>2. turns(g)
  BY <1>1, TurnsExist
<1>3. settled(node) = [g[K] EXCEPT !.height = @ + 1]
  BY SettledIsLastTurn
<1> HIDE DEF g
<1>4. g[K] = [height |-> node.height, nonce |-> node.nonce + K, queued |-> rest(K),
              balance |-> node.balance - (total(node.queued) - total(rest(K)))]
  BY <1>1, <1>2, AfterTurns
<1>5. rest(K) = {}
  <2>1. \A tx \in node.queued : tx.number \in Nat /\ tx.number <= node.nonce + K - 1
    BY <1>1 DEF QueueShape, next_free, Payment
  <2> QED
    BY <1>1, <2>1 DEF rest
<1>6. next_free = node.nonce + K /\ next_free \in Nat
  BY <1>1 DEF next_free
<1> HIDE DEF K
<1>7. node.balance - (total(node.queued) - total(rest(K))) = node.balance - total(node.queued)
  BY <1>1, <1>5, TotalOfNone
<1>8. g[K] = [height |-> node.height, nonce |-> next_free, queued |-> {},
              balance |-> node.balance - total(node.queued)]
  BY <1>4, <1>5, <1>6, <1>7
<1>9. settled(node) \in [height : {node.height + 1}, nonce : {next_free}, queued : {{}},
                         balance : {node.balance - total(node.queued)}]
  BY <1>3, <1>8
<1> QED
  BY <1>1, <1>6, <1>9

(***************************************************************************)
(* What a round's contributors can claim.                                  *)
(***************************************************************************)

\* Rounding down never adds up to more than the whole.
LEMMA UnitsAddUp ==
  ASSUME NEW units \in Nat, NEW one \in Nat, NEW others \in Nat, NEW all \in Nat, all > 0
  PROVE  /\ payout_units(units, one, all) \in Nat /\ payout_units(units, others, all) \in Nat
         /\ payout_units(units, one + others, all) \in Nat
         /\ payout_units(units, one, all) + payout_units(units, others, all)
              <= payout_units(units, one + others, all)
         /\ payout_units(units, all, all) = units
<1> DEFINE x == units * one
           y == units * others
           a == x \div all
           b == y \div all
<1>1. /\ x \in Nat /\ y \in Nat /\ x + y \in Nat
      /\ units * (one + others) = x + y
  OBVIOUS
<1> HIDE DEF x, y
<1>2. a \in Nat /\ all * a <= x /\ b \in Nat /\ all * b <= y
  BY <1>1
<1> HIDE DEF a, b
<1>3. all * (a + b) <= x + y
  BY <1>1, <1>2
<1>4. a + b <= (x + y) \div all /\ (x + y) \div all \in Nat
  BY <1>1, <1>2, <1>3
<1>5. (units * all) \div all = units
  OBVIOUS
<1> QED
  BY <1>1, <1>2, <1>4, <1>5 DEF payout_units, a, b, x, y

\* A round that is being paid is finite and not empty.
LEMMA RoundFinite ==
  ASSUME Shape, RoundInv, NEW p \in Payers,
         payer[p].stage \in repaying \cup {"balance", "pay"}
  PROVE  /\ IsFiniteSet(payer[p].round)
         /\ \A part \in SUBSET payer[p].round : IsFiniteSet(part) /\ Cardinality(part) \in Nat
         /\ Cardinality(payer[p].round) \in Nat /\ Cardinality(payer[p].round) > 0
         /\ payer[p].available \in Nat /\ payer[p].next_nonce \in Nat
<1>1. payer[p] \in Payout_memory
  BY DEF Shape, ThreadShape
<1>2. payer[p].round \subseteq credited \cup RepayRound
  BY <1>1 DEF Payout_memory
<1>3. IsFiniteSet(credited \cup RepayRound)
  BY FS_Union, PoolAssumption DEF Shape, ShareShape
<1>4. IsFiniteSet(payer[p].round)
  BY <1>2, <1>3, FS_Subset
<1>5. payer[p].round # {}
  BY DEF RoundInv, RoundsOf
<1>6. \A part \in SUBSET payer[p].round : IsFiniteSet(part) /\ Cardinality(part) \in Nat
  BY <1>4, FS_Subset, FS_CardinalityType
<1>7. Cardinality(payer[p].round) \in Nat /\ Cardinality(payer[p].round) # 0
  BY <1>4, <1>5, FS_CardinalityType, FS_EmptySet
<1>8. payer[p].available \in Nat /\ payer[p].next_nonce \in Nat
  BY <1>1 DEF Payout_memory
<1> QED
  BY <1>4, <1>6, <1>7, <1>8

\* A claim is a number of units; when one contributor has been dealt with it falls by
\* that payment's amount at least.
LEMMA ClaimFalls ==
  ASSUME Shape, RoundInv, NEW p \in Payers, payer[p].stage = "pay", NEW miner \in payer[p].unpaid
  PROVE  /\ payment(p, miner).amount \in Nat
         /\ payout_units(payer[p].available,
                         Cardinality(shares_of(payer[p].round, payer[p].unpaid \ {miner})),
                         Cardinality(payer[p].round)) \in Nat
         /\ claim(p) \in Nat
         /\ payment(p, miner).amount
              + payout_units(payer[p].available,
                             Cardinality(shares_of(payer[p].round, payer[p].unpaid \ {miner})),
                             Cardinality(payer[p].round)) <= claim(p)
<1> DEFINE round == payer[p].round
           one == {share \in round : share.miner = miner}
           others == shares_of(round, payer[p].unpaid \ {miner})
           both == shares_of(round, payer[p].unpaid)
<1>1. one \in SUBSET round /\ others \in SUBSET round /\ both \in SUBSET round
  BY DEF shares_of
<1>2. both = one \cup others /\ one \cap others = {}
  BY DEF shares_of
<1>3. /\ IsFiniteSet(one) /\ IsFiniteSet(others)
      /\ Cardinality(one) \in Nat /\ Cardinality(others) \in Nat
      /\ Cardinality(round) \in Nat /\ Cardinality(round) > 0 /\ payer[p].available \in Nat
  BY <1>1, RoundFinite
<1>4. Cardinality(both) = Cardinality(one) + Cardinality(others)
  <2>1. Cardinality(one \cap others) = 0
    BY <1>2, FS_EmptySet
  <2>2. Cardinality(both) = Cardinality(one) + Cardinality(others) - Cardinality(one \cap others)
    BY <1>2, <1>3, FS_Union
  <2> QED
    BY <1>3, <2>1, <2>2
<1>5. payment(p, miner).amount = payout_units(payer[p].available, Cardinality(one), Cardinality(round))
  BY DEF payment
<1>6. claim(p) = payout_units(payer[p].available, Cardinality(one) + Cardinality(others),
                              Cardinality(round))
  BY <1>4 DEF claim
<1> HIDE DEF round, one, others
<1>7. /\ payout_units(payer[p].available, Cardinality(one), Cardinality(round)) \in Nat
      /\ payout_units(payer[p].available, Cardinality(others), Cardinality(round)) \in Nat
      /\ payout_units(payer[p].available, Cardinality(one) + Cardinality(others),
                      Cardinality(round)) \in Nat
      /\ payout_units(payer[p].available, Cardinality(one), Cardinality(round))
           + payout_units(payer[p].available, Cardinality(others), Cardinality(round))
           <= payout_units(payer[p].available, Cardinality(one) + Cardinality(others),
                           Cardinality(round))
  BY <1>3, UnitsAddUp
<1> QED
  BY <1>5, <1>6, <1>7 DEF round, others

\* All contributors together claim the balance that was read.
LEMMA WholeClaim ==
  ASSUME NEW round, NEW units \in Nat, Cardinality(round) \in Nat, Cardinality(round) > 0
  PROVE  payout_units(units, Cardinality(shares_of(round, contributors(round))),
                      Cardinality(round)) = units
<1>1. shares_of(round, contributors(round)) = round
  BY DEF shares_of, contributors
<1> QED
  BY <1>1, UnitsAddUp

(***************************************************************************)
(* The queue, step by step.                                                *)
(***************************************************************************)

\* What the lemmas below need of a node's numbers.
LEMMA QueueTypes ==
  ASSUME NodeShape, QueueShape
  PROVE  /\ node.queued \subseteq Payment /\ IsFiniteSet(node.queued)
         /\ node.nonce \in Nat /\ node.balance \in Nat /\ node.height \in Nat
         /\ Cardinality(node.queued) \in Nat /\ next_free \in Nat /\ node.nonce <= next_free
         /\ total(node.queued) \in Nat
<1>1. node.queued \subseteq Payment /\ node.nonce \in Nat /\ node.balance \in Nat /\ node.height \in Nat
  BY DEF NodeShape, Payment
<1>2. IsFiniteSet(node.queued) /\ Cardinality(node.queued) \in Nat
  BY FS_CardinalityType DEF QueueShape
<1>3. next_free \in Nat /\ node.nonce <= next_free
  BY <1>1, <1>2 DEF next_free
<1>4. total(node.queued) \in Nat
  BY <1>1, <1>2, Total
<1> QED
  BY <1>1, <1>2, <1>3, <1>4

\* The total in the next state is that of the next queue.
LEMMA TotalNext == total(node.queued)' = total(node'.queued)
  BY DEF total, MapThenSumSet, MapThenFoldSet

\* The node is left alone, and no payout begins to claim.
LEMMA QueueFrame ==
  ASSUME NodeShape, QueueInv, UNCHANGED node,
         \A p \in Payers : payer'[p].stage \in {"rename", "pay"} =>
           /\ payer[p].stage \in {"rename", "pay"}
           /\ payer'[p].next_nonce = payer[p].next_nonce
           /\ claim(p)' = claim(p)
  PROVE  NodeShape' /\ QueueInv'
<1>1. node' = node /\ next_free' = next_free /\ total(node.queued)' = total(node.queued)
  BY TotalNext DEF next_free
<1>2. NodeShape'
  BY <1>1 DEF NodeShape
<1>3. QueueShape'
  BY <1>1 DEF QueueInv, QueueShape
<1>4. ClaimsCovered'
  BY <1>1 DEF QueueInv, ClaimsCovered
<1> QED
  BY <1>1, <1>2, <1>3, <1>4 DEF QueueInv

\* The same memory claims the same.
LEMMA SameClaim ==
  ASSUME NEW p \in Payers, payer'[p].available = payer[p].available,
         payer'[p].round = payer[p].round, payer'[p].unpaid = payer[p].unpaid
  PROVE  claim(p)' = claim(p)
  BY DEF claim, shares_of

\* A block, of the pool's or of another miner, with or without a reward.
LEMMA MinedQueue ==
  ASSUME NodeShape, QueueInv, node.height < MaxHeight, NEW reward \in Nat,
         node' \in [height : {settled(node).height}, nonce : {settled(node).nonce},
                   queued : {settled(node).queued}, balance : {settled(node).balance + reward}],
         Shape, RoundInv,
         \A p \in Payers : payer'[p].stage \in {"rename", "pay"} => payer'[p] = payer[p]
  PROVE  NodeShape' /\ QueueInv' /\ node'.height = node.height + 1
<1> DEFINE left == node.balance - total(node.queued) + reward
<1>1. QueueShape /\ total(node.queued) <= node.balance /\ ClaimsCovered
  BY DEF QueueInv
<1>2. /\ node.queued \subseteq Payment /\ IsFiniteSet(node.queued)
      /\ node.nonce \in Nat /\ node.balance \in Nat /\ node.height \in Nat
      /\ Cardinality(node.queued) \in Nat /\ next_free \in Nat /\ node.nonce <= next_free
      /\ total(node.queued) \in Nat
  BY <1>1, QueueTypes
<1>3. settled(node) = [height |-> node.height + 1, nonce |-> next_free, queued |-> {},
                       balance |-> node.balance - total(node.queued)]
  BY <1>1, Settled
<1>4. /\ node'.height = node.height + 1 /\ node'.nonce = next_free /\ node'.queued = {}
      /\ node'.balance = left
      /\ node' \in [height : {node.height + 1}, nonce : {next_free}, queued : {{}}, balance : {left}]
  BY <1>3
<1>5. left \in Nat
  BY <1>1, <1>2
<1> HIDE DEF left
<1>6. NodeShape'
  <2>1. node' \in [height : Nat, balance : Nat, nonce : Nat, queued : SUBSET [number : Nat, amount : Nat]]
    BY <1>2, <1>4, <1>5
  <2>2. MaxHeight \in Nat
    BY PoolAssumption
  <2>3. node'.height \in 1 .. MaxHeight
    BY <1>4, <2>2 DEF NodeShape
  <2> QED
    BY <2>1, <2>3 DEF NodeShape
<1>7. total(node.queued)' = 0
  BY <1>4, TotalNext, TotalOfNone
<1>8. next_free' = next_free
  <2>1. Cardinality(node'.queued) = 0
    BY <1>4, FS_EmptySet
  <2> QED
    BY <1>2, <1>4, <2>1 DEF next_free
<1>9. QueueShape'
  <2>1. node'.queued = {} /\ IsFiniteSet({}) /\ next_free' = node'.nonce /\ node'.nonce \in Nat
    BY <1>2, <1>4, <1>8, FS_EmptySet
  <2>2. node'.nonce .. next_free' - 1 = {}
    BY <2>1
  <2> QED
    BY <2>1, <2>2 DEF QueueShape
<1>10. ClaimsCovered'
  <2>1. ASSUME NEW p \in Payers, payer'[p].stage \in {"rename", "pay"}
        PROVE  /\ payer'[p].next_nonce <= next_free'
               /\ payer'[p].next_nonce = next_free' => 0 + claim(p)' <= left
    <3>1. payer'[p] = payer[p] /\ claim(p)' = claim(p)
      BY <2>1, SameClaim
    <3>2. claim(p) \in Nat
      <4>1. /\ shares_of(payer[p].round, payer[p].unpaid) \in SUBSET payer[p].round
            /\ payer[p].stage \in repaying \cup {"balance", "pay"}
        BY <2>1, <3>1 DEF shares_of
      <4>2. /\ Cardinality(shares_of(payer[p].round, payer[p].unpaid)) \in Nat
            /\ Cardinality(payer[p].round) \in Nat /\ Cardinality(payer[p].round) > 0
            /\ payer[p].available \in Nat
        BY <4>1, RoundFinite
      <4> QED
        BY <4>2, UnitsAddUp DEF claim
    <3>3. /\ payer[p].next_nonce <= next_free
          /\ payer[p].next_nonce = next_free => total(node.queued) + claim(p) <= node.balance
      BY <1>1, <2>1, <3>1 DEF ClaimsCovered
    <3> QED
      BY <1>2, <1>8, <3>1, <3>2, <3>3 DEF left
  <2> QED
    BY <1>4, <1>7, <2>1 DEF ClaimsCovered
<1>11. total(node.queued)' <= node'.balance
  BY <1>4, <1>5, <1>7
<1> QED
  BY <1>4, <1>6, <1>9, <1>10, <1>11 DEF QueueInv

\* A payment that the node queues is the next one, and within its round's claim.
LEMMA PayQueued ==
  ASSUME NodeShape, QueueInv, Shape, RoundInv, NEW p \in Payers, payer[p].stage = "pay",
         NEW miner \in payer[p].unpaid, queueable(payment(p, miner)),
         node' = [node EXCEPT !.queued = @ \cup {payment(p, miner)}],
         payer'[p].available = payer[p].available, payer'[p].round = payer[p].round,
         payer'[p].unpaid = payer[p].unpaid \ {miner},
         payer'[p].next_nonce \in {payer[p].next_nonce, payer[p].next_nonce + 1},
         \A q \in Payers \ {p} : payer'[q] = payer[q]
  PROVE  NodeShape' /\ QueueInv'
<1> DEFINE tx == payment(p, miner)
           after == payout_units(payer[p].available,
                                 Cardinality(shares_of(payer[p].round, payer[p].unpaid \ {miner})),
                                 Cardinality(payer[p].round))
<1>1. QueueShape /\ total(node.queued) <= node.balance /\ ClaimsCovered
  BY DEF QueueInv
<1>2. /\ node.queued \subseteq Payment /\ IsFiniteSet(node.queued)
      /\ node.nonce \in Nat /\ node.balance \in Nat /\ node.height \in Nat
      /\ Cardinality(node.queued) \in Nat /\ next_free \in Nat /\ node.nonce <= next_free
      /\ total(node.queued) \in Nat
  BY <1>1, QueueTypes
<1>3. tx.amount \in Nat /\ after \in Nat /\ claim(p) \in Nat /\ tx.amount + after <= claim(p)
  BY ClaimFalls
<1>4. tx.number = payer[p].next_nonce /\ tx.number \in Nat /\ tx = [number |-> tx.number, amount |-> tx.amount]
  BY RoundFinite DEF payment
<1>5. /\ payer[p].next_nonce <= next_free
      /\ payer[p].next_nonce = next_free => total(node.queued) + claim(p) <= node.balance
  BY <1>1 DEF ClaimsCovered
<1> HIDE DEF tx, after
<1>6. tx.number >= node.nonce /\ \A ty \in node.queued : ty.number # tx.number
  BY <1>2, <1>4 DEF queueable, queued_at, tx
<1>7. tx.number = next_free
  <2>1. ~ (tx.number \in node.nonce .. next_free - 1)
    BY <1>1, <1>6 DEF QueueShape
  <2> QED
    BY <1>2, <1>4, <1>5, <1>6, <2>1
<1>8. tx \in Payment /\ tx \notin node.queued
  BY <1>3, <1>4, <1>6 DEF Payment
<1>9. /\ node'.queued = node.queued \cup {tx} /\ node'.nonce = node.nonce
      /\ node'.balance = node.balance /\ node'.height = node.height
      /\ node' \in [height : Nat, balance : Nat, nonce : Nat, queued : SUBSET Payment]
  BY <1>2, <1>8 DEF NodeShape, tx
<1>10. NodeShape'
  BY <1>9 DEF NodeShape, Payment
<1>11. /\ IsFiniteSet(node'.queued) /\ Cardinality(node'.queued) = Cardinality(node.queued) + 1
       /\ next_free' = next_free + 1
  <2>1. IsFiniteSet(node'.queued) /\ Cardinality(node'.queued) = Cardinality(node.queued) + 1
    BY <1>2, <1>8, <1>9, FS_AddElement
  <2> QED
    BY <1>2, <1>9, <2>1 DEF next_free
<1>12. total(node.queued)' = total(node.queued) + tx.amount
  BY <1>2, <1>8, <1>9, TotalNext, TotalWith
<1>13. QueueShape'
  <2>1. ASSUME NEW ty \in node'.queued PROVE ty.number \in node'.nonce .. next_free' - 1
    <3>1. CASE ty = tx
      BY <1>2, <1>7, <1>9, <1>11, <3>1
    <3>2. CASE ty \in node.queued
      <4>1. ty.number \in node.nonce .. next_free - 1
        BY <1>1, <3>2 DEF QueueShape
      <4> QED
        BY <1>2, <1>9, <1>11, <4>1
    <3> QED
      BY <1>9, <3>1, <3>2
  <2>2. ASSUME NEW number \in node'.nonce .. next_free' - 1
        PROVE  \E ty \in node'.queued : ty.number = number
    <3>1. CASE number = next_free
      BY <1>7, <1>9, <3>1
    <3>2. CASE number # next_free
      <4>1. number \in node.nonce .. next_free - 1
        BY <1>2, <1>9, <1>11, <3>2
      <4> QED
        BY <1>1, <1>9, <4>1 DEF QueueShape
    <3> QED
      BY <3>1, <3>2
  <2>3. ASSUME NEW ty \in node'.queued, NEW tz \in node'.queued, ty.number = tz.number
        PROVE  ty = tz
    BY <1>1, <1>6, <1>9, <2>3 DEF QueueShape
  <2> QED
    BY <1>11, <2>1, <2>2, <2>3 DEF QueueShape
<1>14. claim(p)' = after
  BY DEF claim, after, shares_of
<1>15. ClaimsCovered'
  <2>1. ASSUME NEW q \in Payers \ {p}, payer'[q].stage \in {"rename", "pay"}
        PROVE  payer'[q].next_nonce < next_free'
    <3>1. payer[q].next_nonce <= next_free /\ payer'[q] = payer[q]
      BY <1>1, <2>1 DEF ClaimsCovered
    <3>2. payer[q].next_nonce \in Nat
      BY <2>1, <3>1, RoundFinite
    <3> QED
      BY <1>2, <1>11, <3>1, <3>2
  <2>2. payer'[p].next_nonce <= next_free' /\ total(node.queued) + tx.amount + after <= node.balance
    BY <1>2, <1>3, <1>4, <1>5, <1>7, <1>11
  <2>3. next_free' \in Nat
    BY <1>2, <1>11
  <2>4. \A q \in Payers \ {p} : payer'[q].stage \in {"rename", "pay"} => payer'[q].next_nonce \in Nat
    <3>1. \A q \in Payers \ {p} : payer[q].stage \in {"rename", "pay"} => payer[q].next_nonce \in Nat
      BY RoundFinite
    <3> QED
      BY <3>1
  <2>5. \A q \in Payers \ {p} : payer'[q].stage \in {"rename", "pay"} =>
          payer'[q].next_nonce <= next_free' /\ payer'[q].next_nonce # next_free'
    BY <2>1, <2>3, <2>4
  <2> QED
    BY <1>9, <1>12, <1>14, <2>2, <2>5 DEF ClaimsCovered
<1>16. total(node.queued)' <= node'.balance
  BY <1>2, <1>3, <1>4, <1>5, <1>7, <1>9, <1>12
<1> QED
  BY <1>10, <1>13, <1>15, <1>16 DEF QueueInv

\* A payment that is not queued is given up, and its round claims less.
LEMMA PayNotQueued ==
  ASSUME NodeShape, QueueInv, Shape, RoundInv, NEW p \in Payers, payer[p].stage = "pay",
         NEW miner \in payer[p].unpaid, UNCHANGED node,
         payer'[p].available = payer[p].available, payer'[p].round = payer[p].round,
         payer'[p].unpaid = payer[p].unpaid \ {miner},
         payer'[p].next_nonce = payer[p].next_nonce,
         \A q \in Payers \ {p} : payer'[q] = payer[q]
  PROVE  NodeShape' /\ QueueInv'
<1> DEFINE after == payout_units(payer[p].available,
                                 Cardinality(shares_of(payer[p].round, payer[p].unpaid \ {miner})),
                                 Cardinality(payer[p].round))
<1>1. QueueShape /\ total(node.queued) <= node.balance /\ ClaimsCovered
  BY DEF QueueInv
<1>2. node.balance \in Nat /\ total(node.queued) \in Nat
  BY <1>1, QueueTypes
<1>3. payment(p, miner).amount \in Nat /\ after \in Nat /\ claim(p) \in Nat
      /\ payment(p, miner).amount + after <= claim(p)
  BY ClaimFalls
<1>4. claim(p)' = after
  BY DEF claim, shares_of
<1>5. node' = node /\ next_free' = next_free /\ total(node.queued)' = total(node.queued)
  BY TotalNext DEF next_free
<1>6. NodeShape' /\ QueueShape'
  BY <1>1, <1>5 DEF NodeShape, QueueShape
<1> HIDE DEF after
<1>7. ClaimsCovered'
  <2>1. /\ payer'[p].next_nonce <= next_free'
        /\ payer'[p].next_nonce = next_free' => total(node.queued) + after <= node.balance
    BY <1>1, <1>2, <1>3, <1>5 DEF ClaimsCovered
  <2>2. \A q \in Payers \ {p} : payer'[q] = payer[q] /\ claim(q)' = claim(q)
    BY SameClaim
  <2> QED
    BY <1>1, <1>4, <1>5, <2>1, <2>2 DEF ClaimsCovered
<1> QED
  BY <1>1, <1>5, <1>6, <1>7 DEF QueueInv

\* A payout that has just read the balance claims all of it, if nothing is queued.
LEMMA BalanceRead ==
  ASSUME NodeShape, QueueInv, Shape, RoundInv, NEW p \in Payers,
         payer[p].stage \in {"balance", "repay_balance"}, UNCHANGED node,
         payer'[p].round = payer[p].round, payer'[p].available = node.balance,
         payer'[p].next_nonce = node.nonce,
         payer'[p].unpaid = contributors(payer[p].round),
         \A q \in Payers \ {p} : payer'[q] = payer[q]
  PROVE  NodeShape' /\ QueueInv'
<1>1. QueueShape /\ total(node.queued) <= node.balance /\ ClaimsCovered
  BY DEF QueueInv
<1>2. /\ IsFiniteSet(node.queued) /\ node.balance \in Nat /\ node.nonce \in Nat
      /\ Cardinality(node.queued) \in Nat
      /\ next_free \in Nat /\ node.nonce <= next_free
  BY <1>1, QueueTypes
<1>3. node' = node /\ next_free' = next_free /\ total(node.queued)' = total(node.queued)
  BY TotalNext DEF next_free
<1>4. NodeShape' /\ QueueShape'
  BY <1>1, <1>3 DEF NodeShape, QueueShape
<1>5. claim(p)' = node.balance
  <2>1. claim(p)' = payout_units(node.balance,
                      Cardinality(shares_of(payer[p].round, contributors(payer[p].round))),
                      Cardinality(payer[p].round))
    BY DEF claim, shares_of
  <2>2. Cardinality(payer[p].round) \in Nat /\ Cardinality(payer[p].round) > 0
    BY RoundFinite
  <2> QED
    BY <1>2, <2>1, <2>2, WholeClaim
<1>6. node.nonce = next_free => total(node.queued) = 0
  <2>1. node.nonce = next_free => Cardinality(node.queued) = 0
    BY <1>2 DEF next_free
  <2>2. node.nonce = next_free => node.queued = {}
    BY <1>2, <2>1, FS_EmptySet
  <2> QED
    BY <2>2, TotalOfNone
<1>7. ClaimsCovered'
  <2>1. /\ payer'[p].next_nonce <= next_free'
        /\ payer'[p].next_nonce = next_free' => total(node.queued) + claim(p)' <= node.balance
    BY <1>2, <1>3, <1>5, <1>6
  <2>2. \A q \in Payers \ {p} : payer'[q] = payer[q] /\ claim(q)' = claim(q)
    BY SameClaim
  <2> QED
    BY <1>1, <1>3, <2>1, <2>2 DEF ClaimsCovered
<1> QED
  BY <1>1, <1>3, <1>4, <1>7 DEF QueueInv

(***************************************************************************)
(* Every step keeps the invariant.                                         *)
(***************************************************************************)

\* What settled gives, as a record.
LEMMA SettledRecord ==
  ASSUME NodeShape, QueueInv
  PROVE  /\ settled(node) \in [height : {settled(node).height}, nonce : {settled(node).nonce},
                               queued : {settled(node).queued},
                               balance : {settled(node).balance}]
         /\ settled(node).balance \in Int
<1>1. settled(node) = [height |-> node.height + 1, nonce |-> next_free, queued |-> {},
                       balance |-> node.balance - total(node.queued)]
  BY Settled DEF QueueInv
<1>2. node.balance \in Nat /\ total(node.queued) \in Nat
  BY QueueTypes DEF QueueInv
<1> QED
  BY <1>1, <1>2

\* Another miner's block.
LEMMA NodeMinesStep ==
  ASSUME IInv, NodeMines
  PROVE  IInv'
<1>1. /\ node.height < MaxHeight /\ node' = settled(node)
      /\ UNCHANGED <<threads, shares, saver, payer, files, crashes, history>>
  BY DEF NodeMines
<1>2. node' \in [height : {settled(node).height}, nonce : {settled(node).nonce},
                 queued : {settled(node).queued}, balance : {settled(node).balance + 0}]
  BY <1>1, SettledRecord DEF IInv
<1>3. NodeShape' /\ QueueInv' /\ node'.height = node.height + 1
  BY <1>1, <1>2, MinedQueue DEF IInv
<1>4. RoundInv'
  BY <1>1, RoundFrame DEF IInv, history
<1>5. node.height \in Nat
  BY DEF IInv, NodeShape
<1>6. Shape'
  BY <1>1, <1>3, <1>5 DEF IInv, Shape, ThreadShape, ShareShape, Payout_memory, threads, files, history
<1> QED
  BY <1>3, <1>4, <1>6 DEF IInv

\* The steps of connections and of the saving thread leave the node and the payouts
\* alone.
LEMMA ThreadsLeaveQueue ==
  ASSUME IInv, UNCHANGED <<node, payer>>
  PROVE  NodeShape' /\ QueueInv'
<1>1. \A p \in Payers : claim(p)' = claim(p)
  BY SameClaim
<1> QED
  BY <1>1, QueueFrame DEF IInv

\* A new template.
LEMMA RefreshTemplateStep ==
  ASSUME IInv, RefreshTemplate
  PROVE  IInv'
<1>1. UNCHANGED <<node, payer, shares, saver, files, credited, paid, repaid>>
  BY DEF RefreshTemplate, history
<1>2. Shape' /\ RoundInv' /\ NodeShape' /\ QueueInv'
  BY <1>1, RefreshTemplateShape, RoundFrame, ThreadsLeaveQueue DEF IInv
<1> QED
  BY <1>2 DEF IInv

\* A submission comes in.
LEMMA SubmitShareStep ==
  ASSUME IInv, NEW c \in Connections, NEW miner \in Miners, NEW nonce \in Nonces,
         SubmitShare(c, miner, nonce)
  PROVE  IInv'
<1>1. UNCHANGED <<node, payer, shares, saver, files, credited, paid, repaid>>
  BY DEF SubmitShare, history
<1>2. Shape' /\ RoundInv' /\ NodeShape' /\ QueueInv'
  BY <1>1, SubmitShareShape, RoundFrame, ThreadsLeaveQueue DEF IInv
<1> QED
  BY <1>2 DEF IInv

\* A nonce is claimed.
LEMMA ClaimShareStep ==
  ASSUME IInv, NEW c \in Connections, ClaimShare(c)
  PROVE  IInv'
<1>1. UNCHANGED <<node, payer, shares, saver, files, credited, paid, repaid>>
  BY DEF ClaimShare, history
<1>2. Shape' /\ RoundInv' /\ NodeShape' /\ QueueInv'
  BY <1>1, ClaimShareShape, RoundFrame, ThreadsLeaveQueue DEF IInv
<1> QED
  BY <1>2 DEF IInv

\* A share is credited, and a thread may have its win to submit.
LEMMA CreditStep ==
  ASSUME IInv, NEW c \in Connections, CreditShare(c)
  PROVE  IInv'
<1>1. Shape' /\ RoundInv'
  BY CreditShareStep DEF IInv
<1>2. node' = node /\ credited \subseteq credited'
  BY DEF CreditShare
<1>3. connection[c].template \in Nat /\ connection[c].nonce \in Nonces
  <2>1. connection[c] \in Submission \ {no_submission}
    BY DEF IInv, Shape, ThreadShape, no_submission, CreditShare
  <2> QED
    BY <2>1 DEF Submission
<1>4. \A p \in Payers :
        payer'[p] = payer[p] \/ (payer[p].stage = "idle" /\ payer'[p].stage = "win")
  BY <1>2, <1>3, WinHandedOver DEF IInv, RoundInv
<1>5. \A p \in Payers : payer'[p].stage \in {"rename", "pay"} => payer'[p] = payer[p]
  BY <1>4
<1>6. NodeShape' /\ QueueInv'
  BY <1>2, <1>5, SameClaim, QueueFrame DEF IInv
<1> QED
  BY <1>1, <1>6 DEF IInv

\* The saving thread reads, and writes.
LEMMA SaverStep ==
  ASSUME IInv, SaverReads \/ SaverWrites
  PROVE  IInv'
<1>1. UNCHANGED <<node, payer>>
  BY DEF SaverReads, SaverWrites
<1>2. Shape' /\ RoundInv' /\ NodeShape' /\ QueueInv'
  BY <1>1, SaverShape, SaverReadsRounds, SaverWritesRounds, ThreadsLeaveQueue DEF IInv
<1> QED
  BY <1>2 DEF IInv

\* A crash ends every thread; the node, and the payments queued there, remain.
LEMMA CrashStep ==
  ASSUME IInv, Crash
  PROVE  IInv'
<1>1. node' = node /\ payer' = [p \in Payers |-> no_payout]
  BY DEF Crash
<1>2. \A p \in Payers : payer'[p].stage = "idle"
  BY <1>1, NoPayout
<1>3. NodeShape' /\ QueueInv'
  BY <1>1, <1>2, QueueFrame DEF IInv
<1>4. Shape' /\ RoundInv'
  BY CrashShape, CrashRounds DEF IInv
<1> QED
  BY <1>3, <1>4 DEF IInv

\* A payout thread's memory, and what its step leaves alone for the lemmas above.
LEMMA PayoutFacts ==
  ASSUME IInv, NEW p \in Payers
  PROVE  /\ payer[p] \in Payout_memory /\ node.height \in Nat
         /\ UNION {shares, pool_shares, saved, paid} \subseteq credited
         /\ repaid \in Nat /\ RepayGone /\ repay \subseteq RepayRound
         /\ payer[p].stage # "write" => payer[p].snapshot = {}
         /\ payer[p].stage \in {"idle", "win", "take"} =>
              payer[p].round = {} /\ payer[p].unpaid = {}
         /\ payer[p].unpaid \subseteq contributors(payer[p].round)
  BY DEF IInv, Shape, ThreadShape, ShareShape, NodeShape, RoundInv, OneWriter, RoundsOf,
         UnpaidContribute, contributors

\* A payout step that only moves the thread on or ends it.
LEMMA QuietPayout ==
  ASSUME IInv, NEW p \in Payers, NEW v \in Payout_memory, set_payer(p, v),
         UNCHANGED <<node, threads, shares, saver, files, crashes, history>>,
         v.stage \in {"idle", "take"} \/ (v.stage = "repay_balance" /\ v.round = repay),
         v.snapshot = {}, v.unpaid = {},
         v.stage \in {"idle", "take"} => v.round = {}, v.stage = "repay_balance" => v.round # {}
  PROVE  IInv'
<1>1. UNCHANGED <<node, threads, shares, saver, pool_shares, last_round, repay, crashes, credited,
                  saved, paid, repaid>>
  BY DEF files, history
<1>2. Shape' /\ payer'[p] = v /\ \A q \in Payers \ {p} : payer'[q] = payer[q]
  BY <1>1, PayoutFacts, PayoutShape DEF IInv
<1>3. RepayGone' /\ repay \subseteq RepayRound
  BY <1>1, PayoutFacts DEF RepayGone
<1>4. RoundInv'
  BY <1>1, <1>2, <1>3, QuietStep DEF IInv
<1>5. \A q \in Payers : payer'[q].stage \in {"rename", "pay"} => payer'[q] = payer[q]
  BY <1>2
<1>6. NodeShape' /\ QueueInv'
  BY <1>1, <1>5, SameClaim, QueueFrame DEF IInv
<1> QED
  BY <1>2, <1>4, <1>6 DEF IInv

\* A win is submitted: the node takes it, whether or not its answer comes, or not.
LEMMA SubmitWinStep ==
  ASSUME IInv, NEW p \in Payers, SubmitWin(p)
  PROVE  IInv'
<1>1. UNCHANGED <<threads, shares, saver, files, crashes, history>>
  BY DEF SubmitWin
<1>2. /\ payer[p] \in Payout_memory /\ payer[p].stage = "win" /\ payer[p].round = {}
      /\ payer[p].unpaid = {} /\ payer[p].snapshot = {} /\ node.height \in Nat
  BY PayoutFacts DEF SubmitWin
<1> DEFINE took == [payer[p] EXCEPT !.stage = "take"]
<1>3. /\ took \in Payout_memory /\ took.stage = "take" /\ took.round = {}
      /\ took.unpaid = {} /\ took.snapshot = {}
  BY <1>2 DEF Payout_memory
<1> HIDE DEF took
<1>4. PICK v \in {took, no_payout} : set_payer(p, v)
  BY DEF SubmitWin, took
<1>5. /\ v \in Payout_memory /\ v.stage \in {"idle", "take"} /\ v.round = {}
      /\ v.unpaid = {} /\ v.snapshot = {}
  BY <1>3, <1>4, NoPayout
<1>6. CASE UNCHANGED node
  BY <1>1, <1>4, <1>5, <1>6, QuietPayout
<1>7. CASE node.height < MaxHeight /\ node' = [settled(node) EXCEPT !.balance = @ + REWARD]
  <2>1. UNCHANGED <<threads, shares, saver, pool_shares, last_round, repay, crashes, credited,
                    saved, paid, repaid>>
    BY <1>1 DEF files, history
  <2>2. payer \in [Payers -> Payout_memory]
    BY DEF IInv, Shape, ThreadShape
  <2>3. payer'[p] = v /\ \A q \in Payers \ {p} : payer'[q] = payer[q]
    BY <1>4, <2>2 DEF set_payer
  <2>4. node' \in [height : {settled(node).height}, nonce : {settled(node).nonce},
                   queued : {settled(node).queued}, balance : {settled(node).balance + REWARD}]
    BY <1>7, SettledRecord DEF IInv
  <2>5. REWARD \in Nat
    BY PoolAssumption
  <2>6. NodeShape' /\ QueueInv' /\ node'.height = node.height + 1
    BY <1>5, <1>7, <2>3, <2>4, <2>5, MinedQueue DEF IInv
  <2>7. Shape'
    BY <1>2, <1>4, <1>5, <2>1, <2>6, PayoutFacts, PayoutShape DEF IInv
  <2>8. RepayGone'
    BY <2>1, PayoutFacts DEF RepayGone
  <2>9. RoundInv'
    BY <1>5, <2>1, <2>3, <2>8, QuietStep DEF IInv
  <2> QED
    BY <2>6, <2>7, <2>9 DEF IInv
<1> QED
  BY <1>6, <1>7 DEF SubmitWin

\* A payout is triggered, without a win.
LEMMA TriggerPayoutStep ==
  ASSUME IInv, NEW p \in Payers, TriggerPayout(p)
  PROVE  IInv'
<1> DEFINE v == [no_payout EXCEPT !.stage = "take"]
<1>1. /\ v \in Payout_memory /\ v.stage = "take" /\ v.round = {} /\ v.unpaid = {} /\ v.snapshot = {}
  BY NoPayout DEF Payout_memory
<1>2. set_payer(p, v) /\ UNCHANGED <<node, threads, shares, saver, files, crashes, history>>
  BY DEF TriggerPayout
<1> HIDE DEF v
<1> QED
  BY <1>1, <1>2, QuietPayout

\* The repayment's file is read.
LEMMA ReadRepayFileStep ==
  ASSUME IInv, NEW p \in Payers, ReadRepayFile(p)
  PROVE  IInv'
<1> DEFINE v == [no_payout EXCEPT !.stage = "repay_balance", !.round = repay]
<1>1. repay # {} /\ repay \subseteq RepayRound
  BY PayoutFacts DEF ReadRepayFile
<1>2. /\ v \in Payout_memory /\ v.stage = "repay_balance" /\ v.round = repay
      /\ v.unpaid = {} /\ v.snapshot = {}
  BY <1>1, NoPayout DEF Payout_memory
<1>3. set_payer(p, v) /\ UNCHANGED <<node, threads, shares, saver, files, crashes, history>>
  BY DEF ReadRepayFile
<1> HIDE DEF v
<1> QED
  BY <1>1, <1>2, <1>3, QuietPayout

\* All contributors have been dealt with.
LEMMA EndPayoutStep ==
  ASSUME IInv, NEW p \in Payers, EndPayout(p)
  PROVE  IInv'
  BY NoPayout, QuietPayout DEF EndPayout

\* The shares in memory become this payout's round.
LEMMA TakeSharesStep ==
  ASSUME IInv, NEW p \in Payers, TakeShares(p)
  PROVE  IInv'
<1> DEFINE v == [payer[p] EXCEPT !.stage = "save", !.round = shares]
<1>1. /\ payer[p] \in Payout_memory /\ shares \subseteq credited /\ node.height \in Nat
      /\ UNION {shares, pool_shares, saved, paid} \subseteq credited /\ repaid \in Nat
  BY PayoutFacts
<1>2. v \in Payout_memory /\ v.stage = "save"
  BY <1>1 DEF Payout_memory
<1>3. /\ set_payer(p, v) /\ shares' = {}
      /\ UNCHANGED <<node, threads, saver, files, crashes, history>>
  BY DEF TakeShares
<1>4. UNCHANGED <<node, threads, saver, pool_shares, last_round, repay, crashes, credited,
                  saved, paid, repaid>>
  BY <1>3 DEF files, history
<1> HIDE DEF v
<1>5. Shape' /\ payer'[p] = v /\ \A q \in Payers \ {p} : payer'[q] = payer[q]
  BY <1>1, <1>2, <1>3, <1>4, PayoutShape DEF IInv
<1>6. RoundInv'
  BY TakeSharesRounds DEF IInv
<1>7. \A q \in Payers : payer'[q].stage \in {"rename", "pay"} => payer'[q] = payer[q]
  BY <1>2, <1>5
<1>8. NodeShape' /\ QueueInv'
  BY <1>4, <1>7, SameClaim, QueueFrame DEF IInv
<1> QED
  BY <1>5, <1>6, <1>8 DEF IInv

\* With the lock, the payout reads what was credited since.
LEMMA PayerReadsStep ==
  ASSUME IInv, NEW p \in Payers, PayerReads(p)
  PROVE  IInv'
<1> DEFINE v == [payer[p] EXCEPT !.stage = "write", !.snapshot = shares]
<1>1. /\ payer[p] \in Payout_memory /\ shares \subseteq credited /\ node.height \in Nat
      /\ UNION {shares, pool_shares, saved, paid} \subseteq credited /\ repaid \in Nat
  BY PayoutFacts
<1>2. v \in Payout_memory /\ v.stage = "write"
  BY <1>1 DEF Payout_memory
<1>3. /\ set_payer(p, v)
      /\ UNCHANGED <<node, threads, shares, saver, files, crashes, history>>
  BY DEF PayerReads
<1>4. UNCHANGED <<node, threads, shares, saver, pool_shares, last_round, repay, crashes, credited,
                  saved, paid, repaid>>
  BY <1>3 DEF files, history
<1> HIDE DEF v
<1>5. Shape' /\ payer'[p] = v /\ \A q \in Payers \ {p} : payer'[q] = payer[q]
  BY <1>1, <1>2, <1>3, <1>4, PayoutShape DEF IInv
<1>6. RoundInv'
  BY PayerReadsRounds DEF IInv
<1>7. \A q \in Payers : payer'[q].stage \in {"rename", "pay"} => payer'[q] = payer[q]
  BY <1>2, <1>5
<1>8. NodeShape' /\ QueueInv'
  BY <1>4, <1>7, SameClaim, QueueFrame DEF IInv
<1> QED
  BY <1>5, <1>6, <1>8 DEF IInv

\* And writes it.
LEMMA PayerWritesStep ==
  ASSUME IInv, NEW p \in Payers, PayerWrites(p)
  PROVE  IInv'
<1> DEFINE v == IF payer[p].round = {} THEN no_payout
                ELSE [payer[p] EXCEPT !.stage = "keep", !.snapshot = {}]
<1>1. /\ payer[p] \in Payout_memory /\ node.height \in Nat
      /\ UNION {shares, pool_shares, saved, paid} \subseteq credited /\ repaid \in Nat
  BY PayoutFacts
<1>2. v \in Payout_memory /\ v.stage \in {"idle", "keep"}
  BY <1>1, NoPayout DEF Payout_memory
<1>3. /\ set_payer(p, v) /\ pool_shares' = payer[p].snapshot
      /\ saved' = saved \cup payer[p].snapshot
      /\ UNCHANGED <<node, threads, shares, saver, last_round, repay, crashes,
                     credited, paid, repaid>>
  BY DEF PayerWrites
<1>4. payer[p].snapshot \subseteq credited
  BY <1>1 DEF Payout_memory
<1>5. UNION {shares', pool_shares', saved', paid'} \subseteq credited
  BY <1>1, <1>3, <1>4
<1> HIDE DEF v
<1>6. Shape' /\ payer'[p] = v /\ \A q \in Payers \ {p} : payer'[q] = payer[q]
  BY <1>1, <1>2, <1>3, <1>5, PayoutShape DEF IInv
<1>7. RoundInv'
  BY PayerWritesRounds DEF IInv
<1>8. \A q \in Payers : payer'[q].stage \in {"rename", "pay"} => payer'[q] = payer[q]
  BY <1>2, <1>6
<1>9. NodeShape' /\ QueueInv'
  BY <1>3, <1>8, SameClaim, QueueFrame DEF IInv
<1> QED
  BY <1>6, <1>7, <1>9 DEF IInv

\* The round is kept in a file of its own.
LEMMA SaveLastRoundStep ==
  ASSUME IInv, NEW p \in Payers, SaveLastRound(p)
  PROVE  IInv'
<1> DEFINE v == [payer[p] EXCEPT !.stage = "balance"]
<1>1. /\ payer[p] \in Payout_memory /\ node.height \in Nat
      /\ UNION {shares, pool_shares, saved, paid} \subseteq credited /\ repaid \in Nat
  BY PayoutFacts
<1>2. /\ v \in Payout_memory /\ v.stage = "balance" /\ v.round = payer[p].round
      /\ v.snapshot = payer[p].snapshot /\ v.unpaid = payer[p].unpaid
  BY <1>1 DEF Payout_memory
<1>3. /\ set_payer(p, v) /\ payer[p].stage = "keep"
      /\ UNCHANGED <<node, threads, shares, saver, pool_shares, repay, crashes, credited,
                     saved, paid, repaid>>
  BY DEF SaveLastRound, history
<1> HIDE DEF v
<1>4. Shape' /\ payer'[p] = v /\ \A q \in Payers \ {p} : payer'[q] = payer[q]
  BY <1>1, <1>2, <1>3, PayoutShape DEF IInv
<1>5. RoundInv'
  <2>1. /\ payer'[p].stage = "balance" /\ payer'[p].round = payer[p].round
        /\ payer'[p].snapshot = payer[p].snapshot /\ payer'[p].unpaid = payer[p].unpaid
    BY <1>2, <1>4
  <2>2. OneWriter'
    BY <1>3, <1>4, <2>1 DEF IInv, RoundInv, OneWriter
  <2>3. RoundsOf'
    BY <1>3, <1>4, <2>1 DEF IInv, RoundInv, RoundsOf
  <2>4. RoundsApart'
    BY <1>3, <1>4, <2>1 DEF IInv, RoundInv, RoundsApart
  <2>5. PaidGone'
    BY <1>3, <1>4, <2>1 DEF IInv, RoundInv, PaidGone
  <2>6. RepayGone' /\ UnpaidContribute'
    BY <1>3, <1>4, <2>1 DEF IInv, RoundInv, RepayGone, UnpaidContribute, contributors
  <2> QED
    BY <2>2, <2>3, <2>4, <2>5, <2>6 DEF RoundInv
<1>6. \A q \in Payers : payer'[q].stage \in {"rename", "pay"} => payer'[q] = payer[q]
  BY <1>2, <1>4
<1>7. NodeShape' /\ QueueInv'
  BY <1>3, <1>6, SameClaim, QueueFrame DEF IInv
<1> QED
  BY <1>4, <1>5, <1>7 DEF IInv

\* The balance is known: the payments begin, or the repayment's file is next; or
\* there is no answer, and the payout is over.
LEMMA ReadBalanceStep ==
  ASSUME IInv, NEW p \in Payers, ReadBalance(p)
  PROVE  IInv'
<1> DEFINE this == [payer[p] EXCEPT !.available = node.balance, !.next_nonce = node.nonce,
                                    !.unpaid = contributors(payer[p].round)]
           v(stage) == [this EXCEPT !.stage = stage]
<1>1. /\ payer[p] \in Payout_memory /\ node.height \in Nat
      /\ UNION {shares, pool_shares, saved, paid} \subseteq credited /\ repaid \in Nat
      /\ RepayGone
  BY PayoutFacts
<1>2. contributors(payer[p].round) \subseteq Miners
  <2>1. payer[p].round \subseteq credited \cup RepayRound
    BY <1>1 DEF Payout_memory
  <2>2. \A share \in credited \cup RepayRound : share.miner \in Miners
    BY PoolAssumption DEF IInv, Shape, ShareShape, Share
  <2> QED
    BY <2>1, <2>2 DEF contributors
<1>3. node.balance \in Nat /\ node.nonce \in Nat
  BY DEF IInv, NodeShape
<1>4. \A stage \in {"pay", "rename"} :
        /\ v(stage) \in Payout_memory /\ v(stage).stage = stage
        /\ v(stage).round = payer[p].round /\ v(stage).snapshot = payer[p].snapshot
        /\ v(stage).available = node.balance /\ v(stage).next_nonce = node.nonce
        /\ v(stage).unpaid = contributors(payer[p].round)
  BY <1>1, <1>2, <1>3 DEF Payout_memory
<1> HIDE DEF v
<1>5. CASE /\ payer[p].stage = "balance" /\ set_payer(p, v("pay"))
           /\ paid' = paid \cup payer[p].round
           /\ UNCHANGED <<node, threads, shares, saver, files, crashes, credited, saved, repaid>>
  <2>1. payer[p].round \subseteq credited
    BY <1>5 DEF IInv, RoundInv, RoundsOf
  <2>2. UNCHANGED <<node, threads, shares, saver, pool_shares, last_round, repay, crashes, credited,
                    saved, repaid>>
    BY <1>5 DEF files
  <2>3. UNION {shares', pool_shares', saved', paid'} \subseteq credited
    BY <1>1, <1>5, <2>1, <2>2
  <2>4. Shape' /\ payer'[p] = v("pay") /\ \A q \in Payers \ {p} : payer'[q] = payer[q]
    BY <1>1, <1>4, <1>5, <2>2, <2>3, PayoutShape DEF IInv
  <2>5. RoundInv'
    BY <1>4, <1>5, <2>4, BeginsToPayRounds DEF IInv
  <2>6. NodeShape' /\ QueueInv'
    BY <1>4, <1>5, <2>4, BalanceRead DEF IInv
  <2> QED
    BY <2>4, <2>5, <2>6 DEF IInv
<1>6. CASE /\ payer[p].stage = "repay_balance" /\ set_payer(p, v("rename"))
           /\ UNCHANGED <<node, threads, shares, saver, files, crashes, history>>
  <2>1. UNCHANGED <<node, threads, shares, saver, pool_shares, last_round, repay, crashes, credited,
                    saved, paid, repaid>>
    BY <1>6 DEF files, history
  <2>2. Shape' /\ payer'[p] = v("rename") /\ \A q \in Payers \ {p} : payer'[q] = payer[q]
    BY <1>1, <1>4, <1>6, <2>1, PayoutShape DEF IInv
  <2>3. payer[p].round \subseteq RepayRound /\ payer[p].round # {} /\ payer[p].snapshot = {}
    BY <1>6 DEF IInv, RoundInv, RoundsOf, OneWriter
  <2>4. RepayGone'
    BY <1>1, <2>1 DEF RepayGone
  <2>5. RoundInv'
    BY <1>4, <2>1, <2>2, <2>3, <2>4, QuietStep DEF IInv
  <2>6. NodeShape' /\ QueueInv'
    BY <1>4, <1>6, <2>1, <2>2, BalanceRead DEF IInv
  <2> QED
    BY <2>2, <2>5, <2>6 DEF IInv
<1>7. CASE /\ set_payer(p, no_payout)
           /\ UNCHANGED <<node, threads, shares, saver, files, crashes, history>>
  BY <1>7, NoPayout, QuietPayout
<1> QED
  BY <1>5, <1>6, <1>7 DEF ReadBalance, v

\* The file is renamed, and paid; or another call has been first.
LEMMA RenameRepayFileStep ==
  ASSUME IInv, NEW p \in Payers, RenameRepayFile(p)
  PROVE  IInv'
<1> DEFINE pays == [payer[p] EXCEPT !.stage = "pay"]
<1>1. /\ payer[p] \in Payout_memory /\ node.height \in Nat /\ payer[p].stage = "rename"
      /\ UNION {shares, pool_shares, saved, paid} \subseteq credited /\ repaid \in Nat
      /\ RepayGone /\ payer[p].snapshot = {} /\ payer[p].unpaid \subseteq contributors(payer[p].round)
  BY PayoutFacts DEF RenameRepayFile
<1>2. /\ pays \in Payout_memory /\ pays.stage = "pay" /\ pays.round = payer[p].round
      /\ pays.snapshot = {} /\ pays.unpaid = payer[p].unpaid
      /\ pays.next_nonce = payer[p].next_nonce /\ pays.available = payer[p].available
  BY <1>1 DEF Payout_memory
<1>3. payer[p].round # {}
  BY <1>1 DEF IInv, RoundInv, RoundsOf
<1>4. PICK v \in {pays, no_payout} :
        /\ set_payer(p, v)
        /\ \/ v = pays /\ repay # {} /\ repaid' = repaid + 1
           \/ v = no_payout /\ repay = {} /\ repaid' = repaid
  BY DEF RenameRepayFile
<1>5. /\ repay' = {}
      /\ UNCHANGED <<node, threads, shares, saver, pool_shares, last_round, crashes, credited, saved, paid>>
  BY DEF RenameRepayFile
<1>6. RepayGone' /\ repaid' \in Nat
  BY <1>1, <1>4, <1>5 DEF RepayGone
<1> HIDE DEF pays
<1>7. v \in Payout_memory /\ v.stage \in {"pay", "idle"} /\ v.snapshot = {}
  BY <1>2, NoPayout
<1>8. Shape' /\ payer'[p] = v /\ \A q \in Payers \ {p} : payer'[q] = payer[q]
  BY <1>1, <1>4, <1>5, <1>6, <1>7, PayoutShape DEF IInv
<1>9. /\ v.stage = "pay" => v.round # {} /\ v.unpaid \subseteq contributors(v.round)
      /\ v.stage = "idle" => v.round = {} /\ v.unpaid = {}
  BY <1>1, <1>2, <1>3, NoPayout
<1>10. RoundInv'
  BY <1>5, <1>6, <1>7, <1>8, <1>9, QuietStep DEF IInv
<1>11. \A q \in Payers : payer'[q].stage \in {"rename", "pay"} =>
         /\ payer[q].stage \in {"rename", "pay"}
         /\ payer'[q].next_nonce = payer[q].next_nonce
         /\ payer'[q].available = payer[q].available /\ payer'[q].round = payer[q].round
         /\ payer'[q].unpaid = payer[q].unpaid
  BY <1>1, <1>2, <1>4, <1>8, NoPayout
<1>12. NodeShape' /\ QueueInv'
  BY <1>5, <1>11, SameClaim, QueueFrame DEF IInv
<1> QED
  BY <1>8, <1>10, <1>12 DEF IInv

\* A payment is sent: queued and answered, queued without an answer, or not queued.
LEMMA PayStep ==
  ASSUME IInv, NEW p \in Payers, NEW miner \in Miners, Pay(p, miner)
  PROVE  IInv'
<1> DEFINE this == [payer[p] EXCEPT !.unpaid = @ \ {miner}]
           onwards == [this EXCEPT !.next_nonce = @ + 1]
<1>1. /\ payer[p] \in Payout_memory /\ node.height \in Nat
      /\ UNION {shares, pool_shares, saved, paid} \subseteq credited /\ repaid \in Nat
      /\ RepayGone /\ payer[p].unpaid \subseteq contributors(payer[p].round)
      /\ payer[p].stage = "pay" /\ miner \in payer[p].unpaid /\ payer[p].snapshot = {}
  BY PayoutFacts DEF Pay
<1>2. /\ this \in Payout_memory /\ onwards \in Payout_memory
      /\ this.next_nonce = payer[p].next_nonce /\ onwards.next_nonce = payer[p].next_nonce + 1
      /\ \A v \in {this, onwards} :
           /\ v.stage = "pay" /\ v.round = payer[p].round /\ v.snapshot = {}
           /\ v.available = payer[p].available /\ v.unpaid = payer[p].unpaid \ {miner}
  <2>1. /\ this \in Payout_memory /\ this.next_nonce = payer[p].next_nonce
        /\ this.stage = "pay" /\ this.round = payer[p].round /\ this.snapshot = {}
        /\ this.available = payer[p].available /\ this.unpaid = payer[p].unpaid \ {miner}
    BY <1>1 DEF Payout_memory
  <2> HIDE DEF this
  <2>2. /\ onwards \in Payout_memory /\ onwards.next_nonce = this.next_nonce + 1
        /\ onwards.stage = this.stage /\ onwards.round = this.round
        /\ onwards.snapshot = this.snapshot /\ onwards.available = this.available
        /\ onwards.unpaid = this.unpaid
    BY <2>1 DEF Payout_memory
  <2> QED
    BY <2>1, <2>2
<1>3. PICK v \in {this, onwards} :
        /\ set_payer(p, v)
        /\ \/ /\ queueable(payment(p, miner))
              /\ node' = [node EXCEPT !.queued = @ \cup {payment(p, miner)}]
           \/ node' = node /\ v = this
  BY DEF Pay
<1>4. UNCHANGED <<threads, shares, saver, pool_shares, last_round, repay, crashes, credited,
                  saved, paid, repaid>>
  BY DEF Pay, files, history
<1> HIDE DEF this, onwards
<1>5. /\ v \in Payout_memory /\ v.stage = "pay" /\ v.round = payer[p].round /\ v.snapshot = {}
      /\ v.available = payer[p].available /\ v.unpaid = payer[p].unpaid \ {miner}
      /\ v.next_nonce \in {payer[p].next_nonce, payer[p].next_nonce + 1}
  BY <1>2
<1>6. node'.height = node.height
  BY <1>3 DEF IInv, NodeShape
<1>7. Shape' /\ payer'[p] = v /\ \A q \in Payers \ {p} : payer'[q] = payer[q]
  BY <1>1, <1>3, <1>4, <1>5, <1>6, PayoutShape DEF IInv
<1>8. RoundInv'
  <2>1. RepayGone'
    BY <1>1, <1>4 DEF RepayGone
  <2>2. payer[p].round # {}
    BY <1>1 DEF IInv, RoundInv, RoundsOf
  <2> QED
    BY <1>1, <1>4, <1>5, <1>7, <2>1, <2>2, QuietStep DEF IInv
<1>9. CASE /\ queueable(payment(p, miner))
           /\ node' = [node EXCEPT !.queued = @ \cup {payment(p, miner)}]
  <2>1. NodeShape' /\ QueueInv'
    BY <1>1, <1>5, <1>7, <1>9, PayQueued DEF IInv
  <2> QED
    BY <1>7, <1>8, <2>1 DEF IInv
<1>10. CASE node' = node /\ v = this
  <2>1. NodeShape' /\ QueueInv'
    BY <1>1, <1>2, <1>5, <1>7, <1>10, PayNotQueued DEF IInv
  <2> QED
    BY <1>7, <1>8, <2>1 DEF IInv
<1> QED
  BY <1>3, <1>9, <1>10

(***************************************************************************)
(* The theorems.                                                           *)
(***************************************************************************)

\* The invariant holds before the first step.
LEMMA Initially == Init => IInv
<1> SUFFICES ASSUME Init PROVE IInv
  OBVIOUS
<1>1. /\ node = [height |-> 1, balance |-> FUNDING, nonce |-> 0, queued |-> {}]
      /\ template = 0 /\ shares = {} /\ pool_shares = {} /\ repay = RepayRound
      /\ connection = [c \in Connections |-> no_submission]
      /\ saver = [stage |-> "idle", snapshot |-> {}]
      /\ payer = [p \in Payers |-> no_payout] /\ crashes = 0
      /\ credited = {} /\ saved = {} /\ paid = {} /\ repaid = 0
  BY DEF Init, no_save
<1>2. FUNDING \in Nat /\ MaxHeight \in Nat /\ MaxHeight # 0
  BY PoolAssumption
<1>3. \A p \in Payers : /\ payer[p].stage = "idle" /\ payer[p].round = {}
                        /\ payer[p].snapshot = {} /\ payer[p].unpaid = {}
  BY <1>1, NoPayout
<1>4. NodeShape
  BY <1>1, <1>2 DEF NodeShape
<1>5. ShareShape
  BY <1>1, FS_EmptySet DEF ShareShape
<1>6. ThreadShape
  BY <1>1, NoPayout DEF ThreadShape, Submission
<1>7. RoundInv
  BY <1>1, <1>3 DEF RoundInv, OneWriter, RoundsOf, RoundsApart, PaidGone, RepayGone,
                    UnpaidContribute, contributors
<1>8. QueueShape /\ total(node.queued) = 0
  <2>1. node.queued = {} /\ IsFiniteSet({}) /\ Cardinality({}) = 0 /\ node.nonce = 0
    BY <1>1, FS_EmptySet
  <2>2. next_free = 0
    BY <2>1 DEF next_free
  <2>3. node.nonce .. next_free - 1 = {}
    BY <2>1, <2>2
  <2> QED
    BY <2>1, <2>3, TotalOfNone DEF QueueShape
<1>9. QueueInv
  BY <1>1, <1>2, <1>3, <1>8 DEF QueueInv, ClaimsCovered
<1> QED
  BY <1>4, <1>5, <1>6, <1>7, <1>9 DEF IInv, Shape

\* Every step of the pool, its node and its restarts keeps it.
LEMMA Always == IInv /\ [Next]_vars => IInv'
<1> SUFFICES ASSUME IInv, [Next]_vars PROVE IInv'
  OBVIOUS
<1>1. CASE UNCHANGED vars
  <2>1. UNCHANGED <<node, threads, shares, saver, payer, files, crashes, history>>
    BY <1>1 DEF vars
  <2>2. NodeShape' /\ QueueInv'
    BY <2>1, ThreadsLeaveQueue
  <2>3. RoundInv'
    BY <2>1, RoundFrame DEF IInv, history
  <2>4. Shape'
    BY <2>1 DEF IInv, Shape, ThreadShape, ShareShape, Payout_memory, threads, files, history
  <2> QED
    BY <2>2, <2>3, <2>4 DEF IInv
<1>2. ASSUME NEW p \in Payers, Payout(p) PROVE IInv'
  <2>1. ASSUME NEW miner \in Miners, Pay(p, miner) PROVE IInv'
    BY <2>1, PayStep
  <2>2. CASE SubmitWin(p) \/ TriggerPayout(p) \/ TakeShares(p) \/ PayerReads(p)
    BY <2>2, SubmitWinStep, TriggerPayoutStep, TakeSharesStep, PayerReadsStep
  <2>3. CASE PayerWrites(p) \/ SaveLastRound(p) \/ ReadRepayFile(p) \/ ReadBalance(p)
    BY <2>3, PayerWritesStep, SaveLastRoundStep, ReadRepayFileStep, ReadBalanceStep
  <2>4. CASE RenameRepayFile(p) \/ EndPayout(p)
    BY <2>4, RenameRepayFileStep, EndPayoutStep
  <2> QED
    BY <1>2, <2>1, <2>2, <2>3, <2>4 DEF Payout
<1>3. CASE NodeMines \/ RefreshTemplate \/ SaverReads \/ SaverWrites \/ Crash
  BY <1>3, NodeMinesStep, RefreshTemplateStep, SaverStep, CrashStep
<1>4. ASSUME NEW c \in Connections, NEW miner \in Miners, NEW nonce \in Nonces,
             SubmitShare(c, miner, nonce)
      PROVE  IInv'
  BY <1>4, SubmitShareStep
<1>5. ASSUME NEW c \in Connections, ClaimShare(c) \/ CreditShare(c) PROVE IInv'
  BY <1>5, ClaimShareStep, CreditStep
<1> QED
  BY <1>1, <1>2, <1>3, <1>4, <1>5 DEF Next

\* The invariant of threads, files, rounds and queue, in every behaviour of the pool.
THEOREM PoolIInv == Spec => []IInv
<1>1. Init => IInv
  BY Initially
<1>2. IInv /\ [Next]_vars => IInv'
  BY Always
<1> QED
  BY <1>1, <1>2, PTL DEF Spec

\* Memory and files keep their shapes, and SAVE_LOCK keeps two threads from being
\* between read and write at once: main.rs, save_shares_snapshot.
THEOREM PoolTypeOK == Spec => []TypeOK
<1>1. IInv => TypeOK
  BY DEF IInv, NodeShape, Shape, ThreadShape, ShareShape, RoundInv, OneWriter, UnpaidContribute,
         Payout_memory, TypeOK
<1> QED
  BY <1>1, PoolIInv, PTL

\* Once payments for a round have begun, no share of it is in memory, in the file, on
\* its way there, or in another round: no order of savers, payouts, triggers, lost
\* answers and crashes pays a share twice.
THEOREM PoolPaidOnce == Spec => []PaidOnce
<1>1. IInv => PaidOnce
  <2> SUFFICES ASSUME IInv PROVE PaidOnce
    OBVIOUS
  <2>1. paid \cap RepayRound = {}
    BY RepayApart DEF IInv, Shape, ShareShape
  <2>2. ASSUME NEW p \in Payers, payer[p].stage # "pay" PROVE paid \cap payer[p].round = {}
    <3>1. payer[p].stage \in {"idle", "win", "take"} \cup repaying \cup taken
      BY <2>2 DEF IInv, Shape, ThreadShape, Payout_memory
    <3> QED
      BY <2>1, <3>1 DEF IInv, RoundInv, RoundsOf, PaidGone
  <2>3. paid \cap shares = {} /\ paid \cap pool_shares = {} /\ paid \cap saver.snapshot = {}
    BY DEF IInv, RoundInv, PaidGone
  <2> QED
    BY <2>2, <2>3 DEF PaidOnce
<1> QED
  BY <1>1, PoolIInv, PTL

\* repay.txt is renamed before it is paid, so that it is paid once at most, however
\* many calls, crashes and lost answers there are.
THEOREM PoolRepaidOnce == Spec => []RepaidOnce
<1>1. IInv => RepaidOnce
  BY DEF IInv, RoundInv, RepayGone, RepaidOnce
<1> QED
  BY <1>1, PoolIInv, PTL

\* The numbers of the queued payments follow on without a gap from the one the node
\* wants next: what is queued is applied with the next block.
THEOREM PoolNoGapInPayments == Spec => []NoGapInPayments
<1>1. IInv => NoGapInPayments
  <2> SUFFICES ASSUME IInv PROVE NoGapInPayments
    OBVIOUS
  <2>1. {tx.number : tx \in node.queued} = node.nonce .. next_free - 1
    BY DEF IInv, QueueInv, QueueShape
  <2>2. next_free - 1 = node.nonce + Cardinality(node.queued) - 1
    BY QueueTypes DEF IInv, QueueInv, next_free
  <2> QED
    BY <2>1, <2>2, Zenon DEF NoGapInPayments
<1> QED
  BY <1>1, PoolIInv, PTL

\* The payments queued at the node never add up to more than the pool has there,
\* with payouts and repayments that overlap and share out the same balance.
THEOREM PoolPaymentsCovered == Spec => []PaymentsCovered
<1>1. IInv => PaymentsCovered
  BY DEF IInv, QueueInv, total, PaymentsCovered
<1> QED
  BY <1>1, PoolIInv, PTL
=============================================================================
