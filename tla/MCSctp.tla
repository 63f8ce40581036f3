------------------------------- MODULE MCSctp -------------------------------
(***************************************************************************)
(* Instances of SctpAssoc for TLC.  The data-transfer runs start from the  *)
(* state a handshake without losses leaves behind (A's INIT was the one    *)
(* answered), so that their bounds are spent on the transfer.              *)
(***************************************************************************)
EXTENDS SctpAssoc

InitEstablished ==
  /\ session = [p \in Peers |-> "active"]
  /\ state = [p \in Peers |-> "ESTABLISHED"]
  /\ peerVerificationTag = [p \in Peers |-> Other(p)]
  /\ t1InitExpiry = [p \in Peers |-> FALSE]
  /\ initRetransmitCount = [p \in Peers |-> 0]
  /\ cookieEchoData = [p \in Peers |->
       IF p = A THEN [peerTag |-> A, peerInitialTsn |-> InitialTsn] ELSE NoCookie]
  /\ peerCumulativeTsn = [p \in Peers |-> InitialTsn - 1]
  /\ peerCumulativeTsnValid = [p \in Peers |-> TRUE]
  /\ receivedTsns = [p \in Peers |-> {}]
  /\ reassembly = [p \in Peers |-> <<>>]
  /\ nextTsn = [p \in Peers |-> InitialTsn]
  /\ nextSsn = [p \in Peers |-> 0]
  /\ outstanding = [p \in Peers |-> {}]
  /\ outstandingCount = [p \in Peers |-> 0]
  /\ flightSize = [p \in Peers |-> 0]
  /\ cwnd = [p \in Peers |-> SCTP_INITIAL_CWND_MTUS * mtu]
  /\ ssthresh = [p \in Peers |-> SCTP_DEFAULT_ARWND]
  /\ t3RtxExpiry = [p \in Peers |-> FALSE]
  /\ cumulativeAckTsn = [p \in Peers |-> InitialTsn - 1]
  /\ advancedPeerAckPoint = [p \in Peers |-> InitialTsn - 1]
  /\ sendQueue = [p \in Peers |-> <<>>]
  /\ pendingQueue = [p \in Peers |-> [s \in 1..SCTP_MAX_PENDING_SENDS |-> NoMsg]]
  /\ busy = [p \in Peers |-> "idle"]
  /\ net = EmptyBag
  /\ losses = 0
  /\ written = [p \in Peers |-> <<>>]
  /\ dropped = [p \in Peers |-> {}]
  /\ onWire = [p \in Peers |-> <<>>]
  /\ got = [p \in Peers |-> {}]
  /\ delivered = [p \in Peers |-> <<>>]

SpecEstablished == InitEstablished /\ [][Next]_vars
FairEstablished == SpecEstablished /\ Fairness
=============================================================================
