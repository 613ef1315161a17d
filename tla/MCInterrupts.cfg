SPECIFICATION ISpec
CONSTANTS
  NBYTES = 2
  BASE = 2
  WriteValues <- MCWriteValues
  MaxTicks = 2
  Pulsing = {"CA1", "T2", "T1", "CA2"}
  MARK = 2
  SPC = 3
  PALWRITES = 2
INVARIANTS
  MaskInv
  QuietReadsCount
  NoTickLost
PROPERTIES
  WholePhases
  KeepsFlashing
