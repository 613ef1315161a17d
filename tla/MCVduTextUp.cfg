SPECIFICATION Spec
CONSTANTS
  END = 16
  Modes <- MCModes
  Geometry <- MCGeometry
  PARAMS <- MCParams
  Chars <- MCChars
  Parameters <- MCParameters
  UpAtTop = TRUE
  BLANK = 32
INVARIANT ScanInScreen
