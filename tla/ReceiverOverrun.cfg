CONSTANTS
  SYNC = 1
  HEADER = 2
  MaxLen = 1
  RxCap = 8
  Kinds = {"fec"}
  MaxFrames = 4
  MaxFaults = 0
  MaxStalls = 1
  WRAP = 5
  MainKeepsUp = FALSE
SPECIFICATION Spec
INVARIANTS TypeOK
PROPERTIES Heals BackToSearching
