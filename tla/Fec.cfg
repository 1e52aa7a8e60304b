CONSTANTS
  N = 255
  MSGBLK = 223
  PARITY = 32
  SIZE_BUF = 2048
  Lens <- MCLens
  BurstLens = {1, 60, 183, 184, 223, 224, 600}
  Bursts = {1, 2, 12, 13, 16, 17, 36, 37, 48, 49}
  Claims <- MCClaims
SPECIFICATION Spec
INVARIANTS TypeOK RoundTrip BurstRestored PrefixRedundant
CHECK_DEADLOCK FALSE
