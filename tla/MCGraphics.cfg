SPECIFICATION Spec
CONSTANTS
  Modes = {2, 4, 5, 7}
  Colour = {2, 3, 130, 137}
  Operation = {0, 1, 2, 3, 4, 5}
  Physical = {10}
  MaxCommands = 2
  WIDE = 4
  ROWS = 2
  SCANS = 2
  TOP = 14
  BYTE = 16
  Plots <- MCPlots
  Corners <- MCCorners
  Origins <- MCOrigins
  EXTENT = 64
  MaxSettings = 1
INVARIANTS
  SpotInv LineDrawn ColoursShown
PROPERTIES OriginKeepsCursor 
