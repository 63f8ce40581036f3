SPECIFICATION FairSpec
CONSTANTS
  Addresses = {"P1", "P2"}
  DEFAULT_TURN_MAX_PEER_COUNT = 2
  MaxUpsets = 1
  MaxReplies = 1
INVARIANTS
  TypeOK
  MachineInStep
  
  CleanShutdown
  SendsOnBoundChannels
PROPERTIES
  StopCompletes
  NoStateIsStuck
CHECK_DEADLOCK FALSE
