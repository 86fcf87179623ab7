SPECIFICATION FairSpec
CONSTANTS
  BODY_SIZE = 3
  Objects <- MCObjects
  MAX_ID = 2
  MAX_WRITERS = 2
  MAX_PIPES = 2
  CAPACITY = 8
INVARIANTS
  TypeOK
  InOrder
PROPERTIES
  KeepsMoving
CHECK_DEADLOCK FALSE
