CONSTANTS
  Slash = "/"
  CR = "cr"
  LF = "lf"
  NUL = "nul"
  Other = "h"
  Byte <- MCByte
  Scheme <- MCScheme
  Index <- MCIndex
  Status <- MCStatus
  Requests <- MCRequests
  MAX_BUFFER = 7
  MAX_PATH = 7
  Words <- MCWords
  MaxWords = 2
SPECIFICATION Spec
CHECK_DEADLOCK FALSE
INVARIANTS
  TypeOK
  PathFound
  PathWithinScan
  AnswersInvalid
  CommandLineOutcome
  ServesPrepared
PROPERTIES
  RequestHandled
  ExitsOrServes
