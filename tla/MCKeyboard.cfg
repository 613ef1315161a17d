SPECIFICATION FairSpec
CONSTANTS
  TabChar = 9
  Keys <- MCKeys
  Modifiers = {0}
  OSB_KEY_DELAY = 2
  OSB_KEY_REPEAT = 1
  TimerMod = 4
INVARIANTS
  AttendedInv
PROPERTIES
  Translated
  Debounced
  HeldIsTyped
  AllUpForgotten
  RolloverSilent
