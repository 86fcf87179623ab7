SPECIFICATION FairSpec
CONSTANTS
  BODY_SIZE = 5
  QUEUE_SIZE = 2
  Objects <- MCObjects
  Foreign <- MCForeign
  MAX_ID = 2
  MAX_WRITERS = 2
  MAX_RUNS = 2
  MAX_FOREIGN = 1
CHECK_DEADLOCK FALSE
INVARIANTS
  TypeOK
  InOrder
  DecodedFromBody
PROPERTIES
  KeepsMoving
