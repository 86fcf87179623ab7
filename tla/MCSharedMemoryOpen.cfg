SPECIFICATION FairOpenSpec
CONSTANTS
  TOTAL_SLOTS = 2
  MAX_CREATED = 3
INVARIANTS
  OpenTypeOK
  PairedShareObjects
  TokensAccounted
PROPERTIES
  SlotComesBack
CHECK_DEADLOCK FALSE
