SPECIFICATION FairSpec
CONSTANTS
  A = "A"
  B = "B"
  InitialTsn = 1
  mtu = 1
  SCTP_INITIAL_CWND_MTUS = 1
  SCTP_DEFAULT_ARWND = 3
  SCTP_MAX_OUTSTANDING = 2
  SCTP_MAX_RECEIVED = 2
  SCTP_MAX_GAP_BLOCKS = 1
  SCTP_MAX_QUEUED_MESSAGES = 1
  SCTP_MAX_QUEUED_FRAGS = 1
  SCTP_MAX_PENDING_SENDS = 2
  SCTP_MAX_INIT_RETRANS = 1
  SCTP_MAX_REASSEMBLY_SIZE = 2
  MaxRetransmits = 0
  MaxFrags = 1
  Kinds = {"reliable"}
  Writers = {"A"}
  Closers = {}
  Freers = {}
  Aborted = {}
  MaxMessages = 1
  MaxNet = 3
  MaxLoss = 1
PROPERTIES
  HandshakeEnds
CHECK_DEADLOCK FALSE
