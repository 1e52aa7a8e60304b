CONSTANTS
  BUFFER_SIZE = 2
  SIZE_BYTE = 2
  MaxBits = 3
SPECIFICATION Spec
INVARIANT ReturnsAccepted
