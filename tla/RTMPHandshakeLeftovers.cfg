SPECIFICATION Spec
CONSTANTS
  Half = 2
  ChunkLen = 3
  Chunks = 2
CHECK_DEADLOCK FALSE
INVARIANT LeftoversDecrypted
