\* One slot per address: a loop and a handler of one node are more callers than
\* the other has slots for.
SPECIFICATION ListenerFairSpec
CONSTANTS
  a = a
  b = b
  Nodes = {a, b}
  PeerList <- MCPeerList
  MAX_P2P_CONNS_PER_IP = 1
  MAX_BLOCKS_PER_RESPONSE = 1
  StartHeight <- MCStartHeight
  MaxHeight = 2
INVARIANTS ListenerTypeOK SlotsCounted
PROPERTIES SlotsComeBack EventuallyLevel
