SPECIFICATION OpenSpec
CONSTANTS
  TOTAL_SLOTS = 2
  MAX_CREATED = 2
INVARIANTS
  OpenedMemoryIsSized
CHECK_DEADLOCK FALSE
