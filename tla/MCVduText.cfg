SPECIFICATION Spec
CONSTANTS
  END = 16
  Modes <- MCModes
  Geometry <- MCGeometry
  PARAMS <- MCParams
  Chars <- MCChars
  Parameters <- MCParameters
  UpAtTop = FALSE
  BLANK = 32
INVARIANTS
  CursorInv
PROPERTIES
  RefinesScreen
  DrawsInScreen
