SPECIFICATION FairMedia
CONSTANTS
  maxQueueSize = 2
  maxQueueBytes = 4
  QueueTimes = {0, 2}
  Rates = {1, 2}
  Sizes = {1, 3}
  MaxElapsed = 2
  capacity = 2
  SeqSpace = 3
  validIndexListLen = 2
  BlpBits = 2
  Modes = {"rtx", "pacing"}
  MaxFrame = 2
  MaxPackets = 4
  MaxFailures = 1
  TwccSpace = 8
  TWCC_ESTIMATOR_TIME_WINDOW = 1
  TWCC_MAX_PACKET_STATUS_COUNT = 3
  ReferenceUnit = 2
  SmallDelta = 0
  LargeDelta = 3
  Callbacks = {{"bandwidth", "report"}}
  FirstNumbers = {7}
  Budgets <- MCBudgets
INVARIANTS
  TypeOK
  PacketsAccounted
  
  
  NothingForgotten
PROPERTIES
  NackEnds
  PacedInTime
CHECK_DEADLOCK FALSE
