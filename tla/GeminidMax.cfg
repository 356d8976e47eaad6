SPECIFICATION Spec
CONSTANTS
  alice = alice
  bob = bob
  carol = carol
  mute = mute
  NULL = NULL
  Client <- MCClient
  Cooperative <- MCCooperative
  Backlog = 2
  MaxFd = 4
  MaxProc = 4
  MaxClients = 2
INVARIANT
  AtMostMaxClients
CHECK_DEADLOCK FALSE
