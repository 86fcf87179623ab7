SPECIFICATION FairBusSpec
CONSTANTS
  BUFFER_SIZE = 2
  BusObjects <- MCObjects
  Servers = {s1, s2}
  Clients = {c1}
  SOCKET_SIZE = 1
  MAX_LAST_ID = 3
  MAX_FOREIGN = 1
CHECK_DEADLOCK FALSE
INVARIANTS
  BusTypeOK
  BusInOrder
PROPERTIES
  NameReturns
  BusKeepsMoving
