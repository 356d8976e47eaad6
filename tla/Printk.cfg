SPECIFICATION Spec
CONSTANTS
  NUL = NUL
  NULL = NULL
  Letter <- MCLetter
  Beyond <- MCBeyond
  PtrWidths <- MCPtrWidths
  Calls <- MCCalls
  IntBits = 8
  Places = 5
  MaxCalls = 2
  MaxText = 13
INVARIANTS
  TypeOK
  DigitsFit
  PrintsItsFormat
PROPERTY
  IsConsolePrintk
CHECK_DEADLOCK FALSE
