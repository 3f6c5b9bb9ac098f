------------------------------- MODULE MCPool -------------------------------
(***************************************************************************)
(* Pool for TLC.  The operator's repay.txt, when there is one, holds a     *)
(* share of each miner's from a time before the run.                       *)
(***************************************************************************)
EXTENDS Pool, TLC

CONSTANTS m1, m2, p1, p2

MCRepayRound ==
  {[id |-> 0, miner |-> m, template |-> 0, nonce |-> 1] : m \in Miners}
NoRepayRound == {}

symmetry == Permutations({m1, m2}) \cup Permutations({p1, p2})
=============================================================================
