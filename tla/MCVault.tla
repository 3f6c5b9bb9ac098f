------------------------------ MODULE MCVault ------------------------------
(***************************************************************************)
(* Vault for TLC: the two nodes of a directory are interchangeable.        *)
(***************************************************************************)
EXTENDS Vault, TLC

CONSTANTS node1, node2

symmetry == Permutations({node1, node2})
=============================================================================
