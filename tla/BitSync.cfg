CONSTANTS
  SYNC_WORD <- MCSync
  PREAMBLE <- MCPreamble
  SYNC_THRESHOLD = 30
  POP_MIN = 10
  POP_MAX = 22
  Gap <- MCGap
  Payload <- MCPayload
  TAPS = {16, 11}
  STATE_BITS = 17
  Frames = 2
  MaxFaults = 2
  ResetAt <- MCResetAt
SPECIFICATION Spec
INVARIANTS TypeOK OnlyAtEnds FoundAtEnd FlipStaysLocal SlipNeverHeals
CHECK_DEADLOCK FALSE
