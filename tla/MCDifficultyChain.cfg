\* Seven blocks after genesis, across the three activation heights, every choice of gaps.
SPECIFICATION Spec
CONSTANTS
  TARGET_BLOCK_TIME_SECS = 300
  RETARGET_INTERVAL = 2
  MAX_DIFFICULTY_BITS = 256
  EMERGENCY_ACTIVATION_HEIGHT = 2
  EMERGENCY_GRACE_SECS = 3600
  EMERGENCY_STEP_SECS = 600
  EMERGENCY_MAX_DROP_BITS = 20
  EMERGENCY_FLOOR_BITS = 20
  FORK2_ACTIVATION_HEIGHT = 5
  FP_ONE = 65536
  FORK2_TAU_SECS = 3600
  FORK2_MAX_BITS = 200
  FORK2_FUTURE_LIMIT_SECS = 900
  MTP_WINDOW = 3
  EASING2_ACTIVATION_HEIGHT = 7
  EASING2_GRACE_SECS = 600
  EASING2_SECS_PER_BIT = 180
  GENESIS_DIFFICULTY_BITS = 25
  Gaps <- MCGaps
  MaxHeight = 7
INVARIANTS TypeOK DriftDependsOnElapsedTime WaitingNeverHurts TemplateSufficient Fork2StartsWhereTheOldRuleEnded MedianTimeAdvances
CHECK_DEADLOCK FALSE
