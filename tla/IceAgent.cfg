SPECIFICATION Spec
CONSTANTS
  Kinds = {"host", "relay"}
  Remotes = {3}
  LiteModes = {FALSE}
  KVS_ICE_MAX_REMOTE_CANDIDATE_COUNT = 1
  MaxRestarts = 1
  MaxTriggered = 1
  MaxClosed = 0
INVARIANTS
  TypeOK
  
  CancelledTimersStayOff
CHECK_DEADLOCK FALSE
