SPECIFICATION FairSpec
CONSTANTS
  NULL = NULL
  h1 = h1
  r1 = r1
  Sockets = {h1, r1}
  Relays = {r1}
  First = {h1, r1}
  CONNECTION_LISTENER_DEFAULT_MAX_LISTENING_CONNECTION = 2
  BusyFrees = TRUE
  MaxPackets = 1
  MaxRestarts = 0
PROPERTY FreesEnd
CHECK_DEADLOCK FALSE
