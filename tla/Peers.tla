------------------------------- MODULE Peers -------------------------------
(***************************************************************************)
(* The nodes of the peer-to-peer network and whom each of them calls: what *)
(* the modules about it share.  Network follows the blocks that go from    *)
(* node to node, Listener the connections that they go over.               *)
(***************************************************************************)
EXTENDS Integers, Sequences

CONSTANTS
  Nodes,
  PeerList,                 \* the peers each node calls, in its list's order
  MAX_BLOCKS_PER_RESPONSE,
  MaxHeight                 \* bound: no block is mined above this height

ASSUME PeersAssumption ==
  /\ PeerList \in [Nodes -> Seq(Nodes)]
  /\ MAX_BLOCKS_PER_RESPONSE \in Nat \ {0} /\ MaxHeight \in Nat
=============================================================================
