SPECIFICATION EscapeSpec
CONSTANTS
  FLAG_N = 4
  Room = 2
  OSB_ESC_EFFECTS = 0
  MaxPresses = 3
INVARIANTS
  PressSurvives
