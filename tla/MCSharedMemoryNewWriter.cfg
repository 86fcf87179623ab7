SPECIFICATION RestartSpec
CONSTANTS
  TOTAL_AMOUNT = 2
  BODY_SIZE = 4
  MAX_ID = 3
  MAX_RESTARTS = 1
  Objects <- MCObjects
INVARIANTS
  InOrder
