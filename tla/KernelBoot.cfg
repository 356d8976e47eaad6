SPECIFICATION Spec
CONSTANTS
  CR = CR
  LF = LF
  FW = FW
  NULL = NULL
  uart = uart
  Firmware <- MCFirmware
  CONFIG_CLOCK = 8000000
  beaudrate = 9600
  Byte <- MCByte
  Depth = 1
  MaxArgs = 1
  Machines <- MCMachines
  Cpu <- MCCpu
  bss_begin = 1
  BssEnds <- MCBssEnds
  MemTop = 4
  TlbSizes <- MCTlbSizes
INVARIANTS
  TypeOK
  BssReady
  NothingElse
  TlbDistinct
PROPERTIES
  DataKept
  BootTextDelivered
  PrintedIsSerialLine
CHECK_DEADLOCK FALSE
