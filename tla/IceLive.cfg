SPECIFICATION FairSpec
CONSTANTS
  Kinds = {"host"}
  Remotes = {3}
  LiteModes = {FALSE, TRUE}
  KVS_ICE_MAX_REMOTE_CANDIDATE_COUNT = 1
  MaxRestarts = 1
  MaxTriggered = 1
  MaxClosed = 1
INVARIANTS
  MachineInStep
PROPERTIES
  ChecksEnd
  DisconnectionResolves
CHECK_DEADLOCK FALSE
