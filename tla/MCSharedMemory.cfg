SPECIFICATION FairSpec
CONSTANTS
  TOTAL_AMOUNT = 2
  BODY_SIZE = 4
  MAX_ID = 4
  MAX_RESTARTS = 0
  Objects <- MCObjects
INVARIANTS
  TypeOK
  TokensConserved
  SlotExclusion
  InOrder
PROPERTIES
  KeepsMoving
  ImplementsChannel
