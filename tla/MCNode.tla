------------------------------- MODULE MCNode ------------------------------
(***************************************************************************)
(* Node for TLC: two vaults (1, 2), one wallet that also mines (3) and one *)
(* address of the wrong length (4).  Fork 3 starts at height 2, so a run   *)
(* crosses from the old transaction rules to the new ones.                 *)
(***************************************************************************)
EXTENDS Node

WalletTx(receiver, signature, number) ==
  [sender |-> 3, receiver |-> receiver, amount |-> 1,
   signature |-> signature, timestamp |-> number]

MCWalletTxs == {WalletTx(1, "v1", WallClock),
                WalletTx(1, "v2", 0), WalletTx(2, "v2", 1), WalletTx(2, "v2", 0)}

VaultSend(vault, receiver) == [vault |-> vault, receiver |-> receiver, amount |-> 1]
MCAdminSends == {VaultSend(2, 3)}
MCGoodSends  == {VaultSend(1, 3)}

\* A block of the wallet's, of a vault's, one whose second transaction is
\* invalid, and an old-style one.
PeerBlock(txs) == [miner |-> 3, txs |-> txs]
VaultTx(number) == [sender |-> 2, receiver |-> 3, amount |-> 1,
                    signature |-> "v2", timestamp |-> number]
MCPeerBlocks ==
  {PeerBlock(<< >>),
   PeerBlock(<<WalletTx(1, "v1", WallClock)>>),
   PeerBlock(<<WalletTx(1, "v2", 0), WalletTx(2, "v2", 1)>>),
   PeerBlock(<<WalletTx(1, "v2", 0), WalletTx(2, "bad", 1)>>),
   PeerBlock(<<VaultTx(0)>>)}
=============================================================================
