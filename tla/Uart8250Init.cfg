SPECIFICATION Spec
CONSTANTS
  Entries <- MCEntries
  Clock = 8000000
  Beaudrate = 9600
  Text <- MCText
  MaxText = 4
INVARIANTS
  InterruptsOff
  SpeedAfterInit
PROPERTY
  ConsoleReachesThr
CHECK_DEADLOCK FALSE
