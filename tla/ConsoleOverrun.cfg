SPECIFICATION Spec
CONSTANTS
  a = a
  b = b
  tty0 = tty0
  tty1 = tty1
  disk = disk
  NULL = NULL
  Char <- MCChar
  Message <- MCMessage
  Device <- MCDevice
  Tty <- MCTty
  Buffered = TRUE
  Size = 3
  MaxLog = 6
  MaxSetup = 2
INVARIANTS
  WithinBuffer
CHECK_DEADLOCK FALSE
