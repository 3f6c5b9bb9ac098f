----------------------------- MODULE MCListener -----------------------------
(***************************************************************************)
(* Listener for TLC: two nodes that call each other.                       *)
(***************************************************************************)
EXTENDS Listener, TLC

CONSTANTS a, b

MCPeerList == (a :> <<b>>) @@ (b :> <<a>>)
MCStartHeight == (a :> 0) @@ (b :> 1)
=============================================================================
