SPECIFICATION MCFairSpec
CONSTANTS
  Buffers <- MCBuffers
  LENGTHS <- MCLengths
  Data <- MCData
  ByteSize <- MCByteSize
INVARIANTS
  TypeOK
  MaskBracketsCalls
  LocalsFresh
PROPERTIES
  RefinesFifo
  MaskReleased
