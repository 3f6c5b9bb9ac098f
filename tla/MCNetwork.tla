----------------------------- MODULE MCNetwork -----------------------------
(***************************************************************************)
(* Network for TLC: small numbers in place of the code's seconds and bits, *)
(* in the same order of size.                                              *)
(***************************************************************************)
EXTENDS Network

CONSTANTS n1, n2, n3

\* Node 1 and node 2 call each other (the two profiles of main.rs).
TwoNodes == [n \in {n1, n2} |-> IF n = n1 THEN <<n2>> ELSE <<n1>>]

\* Node 3 was started with both in QL_EXTRA_PEERS, nobody calls it.
ThreeNodes == [n \in {n1, n2, n3} |->
                 CASE n = n1 -> <<n2>> [] n = n2 -> <<n1>> [] n = n3 -> <<n1, n2>>]

\* Node 2's clock is a second ahead.
SkewOf == [n \in Nodes |-> IF n = n2 THEN 1 ELSE 0]

\* The conditions of NetworkProofs' theorems: what the runs check, they prove.
ASSUME ConditionsOfTheTheorems == OneClockRead /\ ClocksAgree
=============================================================================
