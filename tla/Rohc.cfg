CONSTANTS
  RAW_EVERY = 4
  Packets <- MCPackets
  Dummy <- MCDummy
  IR_COUNT = 1
  Garbled <- MCGarbled
SPECIFICATION Spec
INVARIANTS TypeOK ContextsAgree FaithfulUntilLoss LossKeepsFlow ResyncBound
