\* Two operators send from the same vault at once.
SPECIFICATION NodeSpec
CONSTANTS
  NumAccounts = 4
  ShortAddresses = {4}
  GLOBAL_MAX_SUPPLY = 7
  VAULT_A_ALLOCATION = 3
  VAULT_B_ALLOCATION = 1
  INITIAL_REWARD = 2
  HALVING_INTERVAL = 2
  FORK3_ACTIVATION_HEIGHT = 1
  SubmitHandlers = {}
  AdminHandlers = {a1, a2}
  WalletTxs <- MCWalletTxs
  AdminSends <- MCGoodSends
  PeerBlocks = {}
  Miners = {3}
  MAX_MEMPOOL_TXS = 2
  MAX_PENDING_NONCE_AHEAD = 1
  WallClock = 9
  MaxHeight = 3
  MaxQueue = 2
  None = None
PROPERTY QueuedSendIncluded
