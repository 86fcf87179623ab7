SPECIFICATION FairSpec
CONSTANTS
  Kinds = {"normal", "latency", "execution", "throughput", "realworld"}
  ITERATIONS = 4
  CAPACITY = 2
  MAX_RETRIES = 2
INVARIANTS
  QuantilesInRange
  SuccessIsComplete
  MissesAreLosses
PROPERTIES
  ReadingEnds
  ShutdownEnds
CHECK_DEADLOCK FALSE
