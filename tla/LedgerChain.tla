---------------------------- MODULE LedgerChain ----------------------------
(***************************************************************************)
(* What a node promises about the blocks it has committed: they form a     *)
(* chain that is only ever extended, one block at a time, by a block whose *)
(* transactions are all valid in the ledger the chain so far adds up to.   *)
(* Nothing here is about memory, locks, the database or crashes; Node      *)
(* implements this module with the blocks up to its saved height.          *)
(***************************************************************************)
EXTENDS Consensus

VARIABLE chain

Valid(blocks, block) ==
  block_txs_ok(replay(blocks, Len(blocks)), Len(blocks) + 1, block.txs)

Init == chain = << >>

Extend ==
  /\ Len(chain') = Len(chain) + 1
  /\ SubSeq(chain', 1, Len(chain)) = chain
  /\ Valid(chain, chain'[Len(chain')])

Spec == Init /\ [][Extend]_chain
=============================================================================
