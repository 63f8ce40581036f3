SPECIFICATION FairSpec
CONSTANTS
  NULL = NULL
  h1 = h1
  h2 = h2
  r1 = r1
  Sockets = {h1, h2, r1}
  Relays = {r1}
  First = {h1, r1}
  CONNECTION_LISTENER_DEFAULT_MAX_LISTENING_CONNECTION = 2
  BusyFrees = FALSE
  MaxPackets = 2
  MaxRestarts = 1
INVARIANTS
  TypeOK
  
PROPERTIES
  TeardownEnds
CHECK_DEADLOCK FALSE
