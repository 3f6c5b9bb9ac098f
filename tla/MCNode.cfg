\* The wallet, the operator, a miner, peers and crashes, all interleaved.
SPECIFICATION NodeSpec
CONSTANTS
  NumAccounts = 4
  ShortAddresses = {4}
  GLOBAL_MAX_SUPPLY = 7
  VAULT_A_ALLOCATION = 3
  VAULT_B_ALLOCATION = 1
  INITIAL_REWARD = 2
  HALVING_INTERVAL = 2
  FORK3_ACTIVATION_HEIGHT = 2
  SubmitHandlers = {s1, s2}
  AdminHandlers = {a1}
  WalletTxs <- MCWalletTxs
  AdminSends <- MCAdminSends
  PeerBlocks <- MCPeerBlocks
  Miners = {3}
  MAX_MEMPOOL_TXS = 2
  MAX_PENDING_NONCE_AHEAD = 1
  WallClock = 9
  MaxHeight = 3
  MaxQueue = 2
  None = None
INVARIANTS TypeOK SupplyConserved EngineIsReplay SavedIsReplay NoNumberTwice QueuedNumbersUnique
PROPERTIES KeptOnlyBehindGap CommittedChain
