SPECIFICATION FairSpec
CONSTANTS
  BODY_SIZE = 3
  QUEUE_SIZE = 2
  Objects <- MCObjects
  MAX_ID = 2
  MAX_WRITERS = 2
  MAX_RUNS = 2
INVARIANTS
  TypeOK
  InOrder
  FreshStart
  LateWriterIsHeard
PROPERTIES
  KeepsMoving
CHECK_DEADLOCK FALSE
