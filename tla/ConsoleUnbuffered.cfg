SPECIFICATION Spec
CONSTANTS
  a = a
  b = b
  tty0 = tty0
  tty1 = tty1
  disk = disk
  NULL = NULL
  Char <- MCChar
  Message <- MCMessage
  Device <- MCDevice
  Tty <- MCTty
  Buffered = FALSE
  Size = 3
  MaxLog = 5
  MaxSetup = 3
INVARIANTS
  UnbufferedExactlyOnce
CHECK_DEADLOCK FALSE
