SPECIFICATION FairSpec
CONSTANTS
  TOTAL_AMOUNT = 2
  BODY_SIZE = 3
  MAX_ID = 3
  MAX_FAULTS = 2
  Faults <- MCChecked
  Objects <- MCObjects
INVARIANTS
  TypeOK
  InStep
PROPERTIES
  EveryMessageRead
  ImplementsChannel
