SPECIFICATION Spec
CONSTANTS
  alice = alice
  bob = bob
  carol = carol
  mute = mute
  NULL = NULL
  Client <- MCClient
  Cooperative <- MCCooperative
  Backlog = 2
  MaxFd = 2
  MaxProc = 3
  MaxClients = 2
INVARIANTS
  TypeOK
  SingleOwner
PROPERTIES
  LeakedForever
  Served
CHECK_DEADLOCK FALSE
