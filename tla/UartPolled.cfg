SPECIFICATION Spec
CONSTANTS
  x = x
  CR = CR
  LF = LF
  FW = FW
  Byte <- MCByte
  Strings <- MCStrings
  Drivers <- MCAll
  Depth = 1
  MaxBytes = 6
INVARIANTS
  TypeOK
  Lossless
  InOrder
PROPERTIES
  CallReturns
  IsSerialLine
CHECK_DEADLOCK FALSE
