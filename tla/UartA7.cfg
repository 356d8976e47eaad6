SPECIFICATION Spec
CONSTANTS
  x = x
  CR = CR
  LF = LF
  FW = FW
  Byte <- MCByte
  Strings <- MCStrings
  Drivers <- MCA7
  Depth = 1
  MaxBytes = 4
PROPERTY
  EveryCallReturns
CHECK_DEADLOCK FALSE
