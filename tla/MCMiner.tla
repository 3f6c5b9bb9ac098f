------------------------------ MODULE MCMiner ------------------------------
(***************************************************************************)
(* Miner for TLC: a table of hashes in which a node's template has a nonce *)
(* that passes at once and one more when eased, a pool's has one, and the  *)
(* last none, so that its searches end without a win; no nonce is good for *)
(* two heights or two addresses.  And 2^(f/8) for eighths of a bit.        *)
(***************************************************************************)
EXTENDS Miner

MCHash(h, address, nonce) ==
  bytes_of(CASE address = "own" /\ nonce = h % 3 -> 16
             [] address = "own" /\ nonce = (h + 1) % 3 -> 32
             [] address = "pool" /\ h < 3 /\ nonce = (h + 2) % 3 -> 20
             [] OTHER -> 112)

MCFactor(f) == <<0, 1, 2, 2, 3, 4, 5, 7>>[f + 1]
=============================================================================
