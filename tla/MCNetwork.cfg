\* Two nodes that both mine, from the first Fork 2 block on.
SPECIFICATION Spec
CONSTANTS
  n1 = n1
  n2 = n2
  n3 = n3
  Nodes = {n1, n2}
  PeerList <- TwoNodes
  MiningNodes = {n1, n2}
  Works = {5, 7}
  Skew <- SkewOf
  ClockReadDelays = {0, 1}
  Handlers = {h1}
  GENESIS_DIFFICULTY_BITS = 3
  MIN_BLOCK_INTERVAL_SECS = 1
  MAX_BLOCKS_PER_RESPONSE = 2
  PRE_FORK2_FUTURE_SECS = 3
  MaxHeight = 3
  MaxTime = 3
  TARGET_BLOCK_TIME_SECS = 2
  RETARGET_INTERVAL = 2
  MAX_DIFFICULTY_BITS = 6
  EMERGENCY_ACTIVATION_HEIGHT = 1
  EMERGENCY_GRACE_SECS = 2
  EMERGENCY_STEP_SECS = 1
  EMERGENCY_MAX_DROP_BITS = 2
  EMERGENCY_FLOOR_BITS = 1
  FORK2_ACTIVATION_HEIGHT = 1
  FP_ONE = 2
  FORK2_TAU_SECS = 2
  FORK2_MAX_BITS = 5
  FORK2_FUTURE_LIMIT_SECS = 2
  MTP_WINDOW = 3
  EASING2_ACTIVATION_HEIGHT = 2
  EASING2_GRACE_SECS = 1
  EASING2_SECS_PER_BIT = 1
INVARIANTS TypeOK DifficultyIsReplay SyncableFromGenesis NoHonestBlockRefused
