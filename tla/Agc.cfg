CONSTANTS
  TxMax = 2
  RxMax = 1
  WarmGains <- MCWarm
  ReadyGains <- MCReady
  BaseGains <- MCBase
  GRID_STEPS = 1
  SETTLE = 2
  EARLY = 1
  CALIB = 3
  COOLDOWN = 3
  LOCK_THRESHOLD = 2
  ECHO_THRESH = 2
  UNLOCK_CORRUPT = 2
  RATE_SAMPLES = 2
  RMS_MIN <- MCMin
  RMS_MAX <- MCMax
  DROP = 6
  HOLD = 2
  Windows <- MCWindows
  Levels <- MCLevels
SPECIFICATION Spec
INVARIANTS TypeOK LockAgrees
PROPERTIES GainsHeld CalibrationEnds GoodLinkLocks SilenceRaises EchoBacksOff
