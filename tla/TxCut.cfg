CONSTANTS
  BUFFER_SIZE = 8
  SIZE_BYTE = 2
  OVERHEAD = 2
  HEADER = 2
  MAX_TX_FRAME_BYTES = 6
  Lens = {3}
  IR_COUNT = 1
  IR_LEN = 1
  MaxPackets = 3
  MaxReadErrors = 1
SPECIFICATION MCSpec
INVARIANT NoFrameCut
