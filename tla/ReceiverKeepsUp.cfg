CONSTANTS
  SYNC = 2
  HEADER = 2
  MaxLen = 2
  RxCap = 8
  Kinds = {"raw", "fec"}
  MaxFrames = 3
  MaxFaults = 1
  MaxStalls = 0
  WRAP = 6
  MainKeepsUp = TRUE
SPECIFICATION Spec
INVARIANTS EmptyBetweenPackets ReadsWholePacket GarbageOnlyFromDamage
PROPERTY ImplementsLink
