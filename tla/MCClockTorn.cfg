SPECIFICATION Spec
CONSTANTS
  NBYTES = 3
  BASE = 2
  WriteValues <- MCWriteValues
  MaxTicks = 1
INVARIANTS
  ReadIsATime
