SPECIFICATION SSpec
CONSTANTS
  maxindex = 3
  Printable <- MCPrintable
  Beyond = {200}
  Lead = {17}
  Params = 2
  WORD = 1024
  GO <- MCGO
  Junk <- MCJunk
  MAX_HANDLERS = 4
  Defaulted <- MCDefaulted
  Changed <- MCChanged
  MaxKept = 2
  Bases = {0, 2, 16}
  FlagSets <- MCFlagSets
  Strings <- MCStrings
  Limits <- MCLimits
INVARIANTS
  EchoIsLine
  LineMeansCommand
  NumberRead
  HandlersInv
PROPERTIES
  RefinesEdit
  PromptReturns
