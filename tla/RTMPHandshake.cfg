SPECIFICATION FairSpec
CONSTANTS
  Half = 3
  ChunkLen = 3
  Chunks = 2
CHECK_DEADLOCK FALSE
INVARIANTS
  OffsetsApart
  DecodedInOrder
  KeystreamsAligned
PROPERTY Converses
