CONSTANTS
  BUFFER_SIZE = 4
  SIZE_BYTE = 2
SPECIFICATION RingSpec
INVARIANTS RingTypeOK RingAgrees RingContents
PROPERTY ImplementsFifo
