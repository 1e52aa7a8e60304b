CONSTANTS
  BUFFER_SIZE = 2
  SIZE_BYTE = 2
  MaxBits = 5
SPECIFICATION Spec
INVARIANTS TypeOK OnlyEarlyReadsBreak
PROPERTIES EarlyOnlyWhileOpening AcceptedIsRead
