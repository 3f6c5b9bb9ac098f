\* Two threads, three kinds of server, heights before and after Fork 2.
SPECIFICATION FairSpec
CONSTANTS
  Servers = {"node", "old node", "pool"}
  Threads = {t1, t2}
  Nonces = {0, 1, 2}
  Own = "own"
  PoolAddress = "pool"
  hash_of <- MCHash
  BASE_BITS = 3
  BASE_FP = 27
  BATCH = 2
  MIN_BLOCK_INTERVAL_SECS = 2
  POOL_DIFFICULTY_REDUCTION_BITS = 1
  POOL_MIN_BITS = 1
  MaxHeight = 3
  MaxAge = 4
  BYTES = 2
  BYTE_BITS = 4
  FP_SHIFT = 3
  exp2_factor <- MCFactor
  TARGET_BLOCK_TIME_SECS = 2
  RETARGET_INTERVAL = 2
  MAX_DIFFICULTY_BITS = 6
  EMERGENCY_ACTIVATION_HEIGHT = 1
  EMERGENCY_GRACE_SECS = 1
  EMERGENCY_STEP_SECS = 1
  EMERGENCY_MAX_DROP_BITS = 2
  EMERGENCY_FLOOR_BITS = 1
  FORK2_ACTIVATION_HEIGHT = 2
  FP_ONE = 8
  FORK2_TAU_SECS = 2
  FORK2_MAX_BITS = 5
  FORK2_FUTURE_LIMIT_SECS = 2
  MTP_WINDOW = 3
  EASING2_ACTIVATION_HEIGHT = 3
  EASING2_GRACE_SECS = 1
  EASING2_SECS_PER_BIT = 2
INVARIANTS TypeOK SubmitsWhatItFound RefusedOnlyIfMovedOn
PROPERTY KeepsMining
