SPECIFICATION FairSpec
CONSTANTS
  BODY_SIZE = 2
  Objects <- MCObjects
  MAX_ID = 2
  MAX_CLIENTS = 2
  MAX_RUNS = 2
  SOCKET_BUFFER = 4
  BACKLOG = 1
CHECK_DEADLOCK FALSE
INVARIANTS
  TypeOK
  InOrder
  DrainedWhenDropped
PROPERTY
  KeepsMoving
