CONSTANTS
  Scripts <- MCScripts
SPECIFICATION Spec
CHECK_DEADLOCK FALSE
INVARIANTS
  TypeOK
  UnpacksVerified
  MoveSucceeds
PROPERTIES
  Recovers
