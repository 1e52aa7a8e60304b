CONSTANTS
  SYNC = 2
  HEADER = 2
  MaxLen = 2
  RxCap = 8
  Kinds = {"raw", "fec"}
  MaxFrames = 2
  MaxFaults = 0
  MaxStalls = 0
  WRAP = 6
  MainKeepsUp = FALSE
SPECIFICATION Spec
INVARIANT ReadsWholePacket
