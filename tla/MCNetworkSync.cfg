\* One mining node; node 3 only listens.  Across both activation heights.
SPECIFICATION FairSpec
CONSTANTS
  n1 = n1
  n2 = n2
  n3 = n3
  Nodes = {n1, n2, n3}
  PeerList <- ThreeNodes
  MiningNodes = {n1}
  Works = {7}
  Skew <- SkewOf
  ClockReadDelays = {0}
  Handlers = {h1}
  GENESIS_DIFFICULTY_BITS = 3
  MIN_BLOCK_INTERVAL_SECS = 1
  MAX_BLOCKS_PER_RESPONSE = 1
  PRE_FORK2_FUTURE_SECS = 3
  MaxHeight = 2
  MaxTime = 2
  TARGET_BLOCK_TIME_SECS = 2
  RETARGET_INTERVAL = 2
  MAX_DIFFICULTY_BITS = 6
  EMERGENCY_ACTIVATION_HEIGHT = 1
  EMERGENCY_GRACE_SECS = 2
  EMERGENCY_STEP_SECS = 1
  EMERGENCY_MAX_DROP_BITS = 2
  EMERGENCY_FLOOR_BITS = 1
  FORK2_ACTIVATION_HEIGHT = 2
  FP_ONE = 2
  FORK2_TAU_SECS = 2
  FORK2_MAX_BITS = 5
  FORK2_FUTURE_LIMIT_SECS = 2
  MTP_WINDOW = 3
  EASING2_ACTIVATION_HEIGHT = 3
  EASING2_GRACE_SECS = 1
  EASING2_SECS_PER_BIT = 1
PROPERTY EventuallyInSync
