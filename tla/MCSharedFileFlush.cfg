SPECIFICATION Spec
CONSTANTS
  TOTAL_AMOUNT = 2
  BODY_SIZE = 3
  MAX_ID = 3
  MAX_FAULTS = 1
  Faults <- MCAll
  Objects <- MCObjects
INVARIANT
  InOrder
