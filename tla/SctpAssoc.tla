------------------------------ MODULE SctpAssoc ------------------------------
(***************************************************************************)
(* Two native SCTP associations (src/src/source/Sctp/SctpAssoc.c, driven   *)
(* by NativeSctp.c) talking over DTLS/UDP: the network may lose and        *)
(* reorder packets, but DTLS replay protection never hands a record over   *)
(* twice.  Both peers open (createSctpSession always sends INIT), so the   *)
(* handshake is the simultaneous-open one.                                 *)
(*                                                                         *)
(* Abstractions.  TSNs are unbounded integers: the wrap-around of the      *)
(* 32-bit serial numbers is not covered.  All DATA chunks carry the same,  *)
(* positive number of bytes, which is the unit of mtu, cwnd, ssthresh and  *)
(* flightSize; a message is 1..MaxFrags chunks.  A timer is armed or not;  *)
(* an armed one may expire at any time.  The slots of outstanding[] are a  *)
(* set (slot order only orders a burst of retransmissions); the slots of   *)
(* pendingQueue[] are kept, since their order is the order of              *)
(* transmission.  One ordered stream.                                      *)
(*                                                                         *)
(* The session mutex is held for a whole handler.  The two loops that call *)
(* sctpAssocSend repeatedly under it (sctpFlushSendQueue and               *)
(* sctpDrainPendingQueue) take one step per iteration, with busy[p] set:   *)
(* nothing else of p runs until the loop is done.                          *)
(***************************************************************************)
EXTENDS Integers, Sequences, FiniteSets, Bags

CONSTANTS
  A, B,                       \* the two peers, also their verification tags
  InitialTsn,                 \* nextTsn after sctpAssocInit
  mtu,                        \* in chunk payloads
  SCTP_INITIAL_CWND_MTUS,     \* initial congestion window, in mtu
  SCTP_DEFAULT_ARWND,         \* advertised receive window, in chunk payloads
  SCTP_MAX_OUTSTANDING,       \* entries of outstanding[]
  SCTP_MAX_RECEIVED,          \* entries of receivedTsns[]
  SCTP_MAX_GAP_BLOCKS,        \* gap blocks in one SACK
  SCTP_MAX_QUEUED_MESSAGES,   \* entries of sendQueue[]
  SCTP_MAX_QUEUED_FRAGS,      \* SCTP_MAX_QUEUED_PAYLOAD in chunks
  SCTP_MAX_PENDING_SENDS,     \* entries of pendingQueue[]
  SCTP_MAX_INIT_RETRANS,      \* T1 expiries before giving up
  SCTP_MAX_REASSEMBLY_SIZE,   \* reassembly buffer, in chunks
  MaxRetransmits,             \* maxRetransmits of a "rexmit" message
  MaxFrags,                   \* longest message, in chunks
  Kinds,                      \* reliability of the messages written
  Writers,                    \* the peers that write messages
  Closers,                    \* the peers that call sctpAssocShutdown
  Freers,                     \* the peers that free their session
  Aborted,                    \* the peers that receive an ABORT (browser peer)
  MaxMessages,                \* bound: messages written by one peer
  MaxNet,                     \* bound: packets in flight
  MaxLoss                     \* bound: packets lost in one behaviour

Peers == {A, B}
Other(p) == IF p = A THEN B ELSE A

AllKinds == {"reliable", "rexmit", "timed"}

NoTag    == "noTag"           \* verification tag 0: not known yet
NoCookie == [peerTag |-> NoTag, peerInitialTsn |-> 0]
NoMsg    == [id |-> 0, kind |-> "none", frags |-> 0]

ASSUME PeersAssumption == A # B /\ NoTag \notin Peers
ASSUME LimitsAssumption ==
  /\ InitialTsn \in Nat \ {0}
  /\ mtu \in Nat \ {0}
  /\ SCTP_INITIAL_CWND_MTUS \in Nat \ {0}
  /\ SCTP_DEFAULT_ARWND \in Nat \ {0}
  /\ SCTP_MAX_OUTSTANDING \in Nat \ {0}
  /\ SCTP_MAX_RECEIVED \in Nat \ {0}
  /\ SCTP_MAX_GAP_BLOCKS \in Nat \ {0}
  /\ SCTP_MAX_QUEUED_MESSAGES \in Nat \ {0}
  /\ SCTP_MAX_QUEUED_FRAGS \in Nat \ {0}
  /\ SCTP_MAX_PENDING_SENDS \in Nat \ {0}
  /\ SCTP_MAX_INIT_RETRANS \in Nat
  /\ SCTP_MAX_REASSEMBLY_SIZE \in Nat \ {0}
  /\ MaxRetransmits \in Nat
ASSUME InputsAssumption ==
  /\ Kinds \subseteq AllKinds
  /\ Writers \subseteq Peers
  /\ Closers \subseteq Peers
  /\ Freers \subseteq Peers
  /\ Aborted \subseteq Peers
  /\ MaxMessages \in Nat
  /\ MaxNet \in Nat
  /\ MaxLoss \in Nat
\* a single message fits in an empty outstanding table (2048 chunks, 2.3 MB)
ASSUME FragsAssumption == MaxFrags \in 1..SCTP_MAX_OUTSTANDING

AssocState == {"CLOSED", "COOKIE_WAIT", "COOKIE_ECHOED", "ESTABLISHED",
               "SHUTDOWN_SENT", "SHUTDOWN_ACK_SENT"}

VARIABLES
  \* handshake
  session,               \* "none", "active", or "freed"
  state,
  peerVerificationTag,
  t1InitExpiry,          \* T1 armed
  initRetransmitCount,
  cookieEchoData,
  \* receive side
  peerCumulativeTsn,
  peerCumulativeTsnValid,
  receivedTsns,
  reassembly,            \* chunks gathered; <<>> when not in progress
  \* send side
  nextTsn,
  nextSsn,
  outstanding,
  outstandingCount,
  flightSize,
  cwnd,
  ssthresh,
  t3RtxExpiry,           \* T3 armed
  cumulativeAckTsn,
  advancedPeerAckPoint,
  sendQueue,
  pendingQueue,
  busy,                  \* "idle", or the loop being run under the mutex
  \* environment
  net,                   \* packets in flight, a bag
  losses,                \* packets lost so far
  \* history
  written,               \* messages handed to sctpAssocSend, by id
  dropped,               \* ids discarded by the sender
  onWire,                \* ids in the order of their first transmission
  got,                   \* TSNs whose payload was accepted
  delivered              \* payloads handed to the message callback

hsVars   == <<session, state, peerVerificationTag, t1InitExpiry,
              initRetransmitCount, cookieEchoData>>
trackVars == <<peerCumulativeTsn, peerCumulativeTsnValid, receivedTsns>>
inVars   == <<reassembly, got, delivered>>
rxVars   == <<trackVars, inVars>>
chunkVars == <<nextTsn, nextSsn, outstanding, outstandingCount, flightSize,
               t3RtxExpiry, onWire>>
ackVars  == <<cwnd, ssthresh, cumulativeAckTsn, advancedPeerAckPoint>>
queueVars == <<sendQueue, pendingQueue, dropped>>
txVars   == <<chunkVars, ackVars, queueVars, written, busy>>
vars     == <<hsVars, rxVars, txVars, net, losses>>

-----------------------------------------------------------------------------
(* Packets.  vtag is the verification tag of the common header.            *)

InitPkt(p) ==
  [type |-> "INIT", to |-> Other(p), vtag |-> NoTag, tag |-> p,
   tsn |-> nextTsn[p]]

\* The cookie fields that sctpHandleCookieEcho reads.
Cookie(m) == [peerTag |-> m.tag, peerInitialTsn |-> m.tsn]

InitAckPkt(p, m) ==
  [type |-> "INIT_ACK", to |-> Other(p), vtag |-> m.tag, tag |-> p,
   tsn |-> nextTsn[p], cookie |-> Cookie(m)]

CookieEchoPkt(p, tag, c) ==
  [type |-> "COOKIE_ECHO", to |-> Other(p), vtag |-> tag, cookie |-> c]

\* COOKIE-ACK, SHUTDOWN, SHUTDOWN-ACK and SHUTDOWN-COMPLETE carry nothing
\* that a handler reads.
ControlPkt(type, p, tag) == [type |-> type, to |-> Other(p), vtag |-> tag]

DataPkt(p, c, isBegin, isEnd) ==
  [type |-> "DATA", to |-> Other(p), vtag |-> peerVerificationTag[p],
   tsn |-> c.tsn, part |-> c.part, begin |-> isBegin, end |-> isEnd]

\* Gap blocks: the maximal runs of received TSNs above the cumulative one,
\* as offsets from it; at most SCTP_MAX_GAP_BLOCKS of them, lowest first.
GapRuns(cum, recv) ==
  {r \in recv \X recv :
     /\ cum < r[1] /\ r[1] <= r[2]
     /\ r[1] .. r[2] \subseteq recv
     /\ r[1] - 1 <= cum \/ r[1] - 1 \notin recv
     /\ r[2] + 1 \notin recv}
GapBlocks(cum, recv) ==
  LET runs == GapRuns(cum, recv)
  IN  {<<r[1] - cum, r[2] - cum>> :
         r \in {r \in runs :
                  Cardinality({q \in runs : q[1] < r[1]}) < SCTP_MAX_GAP_BLOCKS}}

SackPkt(p, cum, recv) ==
  [type |-> "SACK", to |-> Other(p), vtag |-> peerVerificationTag[p],
   cum |-> cum, gaps |-> GapBlocks(cum, recv)]

ForwardTsnPkt(p, tsn) ==
  [type |-> "FORWARD_TSN", to |-> Other(p), vtag |-> peerVerificationTag[p],
   tsn |-> tsn]

Sent(pkts) == net (+) SetToBag(pkts)
Replied(m, pkts) == (net (-) SetToBag({m})) (+) SetToBag(pkts)

NetHasRoom == BagCardinality(net) < MaxNet
Idle(p) == session[p] = "active" /\ busy[p] = "idle"
Arrives(p, m, type) ==
  /\ m \in BagToSet(net) /\ m.to = p /\ m.type = type
  /\ Idle(p)

-----------------------------------------------------------------------------
(* sctpAssocSend                                                           *)

Congested(p) == \/ flightSize[p] >= cwnd[p]
                \/ flightSize[p] >= SCTP_DEFAULT_ARWND

InUse(q) == {s \in DOMAIN q : q[s] # NoMsg}
FreeSlots(q) == {s \in DOMAIN q : q[s] = NoMsg}
Lowest(S) == CHOOSE s \in S : \A t \in S : s <= t

\* Put m in the first free slot of pending queue q; a full queue drops it.
PendingPut(q, m) ==
  IF FreeSlots(q) = {} THEN q ELSE [q EXCEPT ![Lowest(FreeSlots(q))] = m]

\* Not ESTABLISHED: keep the message for sctpFlushSendQueue, or drop it.
SendQueued(p, m, pend) ==
  /\ state[p] # "ESTABLISHED"
  /\ pendingQueue' = [pendingQueue EXCEPT ![p] = pend]
  /\ IF Len(sendQueue[p]) < SCTP_MAX_QUEUED_MESSAGES /\ m.frags <= SCTP_MAX_QUEUED_FRAGS
     THEN /\ sendQueue' = [sendQueue EXCEPT ![p] = Append(@, m)]
          /\ UNCHANGED dropped
     ELSE /\ dropped' = [dropped EXCEPT ![p] = @ \cup {m.id}]
          /\ UNCHANGED sendQueue
  /\ UNCHANGED <<chunkVars, net>>

\* Window full, or no slot for a single-chunk message: hold the message back.
SendPending(p, m, sq, pend) ==
  /\ state[p] = "ESTABLISHED"
  /\ Congested(p) \/ (m.frags = 1 /\ outstandingCount[p] >= SCTP_MAX_OUTSTANDING)
  /\ sendQueue' = [sendQueue EXCEPT ![p] = sq]
  /\ pendingQueue' = [pendingQueue EXCEPT ![p] = PendingPut(pend, m)]
  /\ dropped' = IF FreeSlots(pend) = {}
                THEN [dropped EXCEPT ![p] = @ \cup {m.id}] ELSE dropped
  /\ UNCHANGED <<chunkVars, net>>

Chunk(p, m, i) == [tsn |-> nextTsn[p] + i - 1, part |-> <<m.id, i>>,
                   kind |-> m.kind, rtx |-> 0]

\* How many chunks of m find a free slot.
Stored(p, m) ==
  LET room == SCTP_MAX_OUTSTANDING - outstandingCount[p]
  IN  IF m.frags <= room THEN m.frags ELSE room

\* T3 is started after the last chunk, on the way out of sctpAssocSend.
StartsT3(m, n) == n = m.frags

\* Give the message TSNs, store its chunks and send them.  When the table
\* fills up half way the rest of the message is dropped, after one more TSN
\* has been taken and before T3 is armed.
SendChunks(p, m, sq, pend) ==
  LET n      == Stored(p, m)
      whole  == n = m.frags
      chunks == {Chunk(p, m, i) : i \in 1..n}
      pkts   == {DataPkt(p, Chunk(p, m, i), i = 1, i = m.frags) : i \in 1..n}
  IN  /\ state[p] = "ESTABLISHED"
      /\ ~Congested(p)
      /\ m.frags > 1 \/ outstandingCount[p] < SCTP_MAX_OUTSTANDING
      /\ sendQueue' = [sendQueue EXCEPT ![p] = sq]
      /\ pendingQueue' = [pendingQueue EXCEPT ![p] = pend]
      /\ dropped' = IF whole THEN dropped
                    ELSE [dropped EXCEPT ![p] = @ \cup {m.id}]
      /\ nextSsn' = [nextSsn EXCEPT ![p] = @ + 1]
      /\ nextTsn' = [nextTsn EXCEPT ![p] = @ + (IF whole THEN n ELSE n + 1)]
      /\ outstanding' = [outstanding EXCEPT ![p] = @ \cup chunks]
      /\ outstandingCount' = [outstandingCount EXCEPT ![p] = @ + n]
      /\ flightSize' = [flightSize EXCEPT ![p] = @ + n]
      /\ t3RtxExpiry' = [t3RtxExpiry EXCEPT ![p] = @ \/ StartsT3(m, n)]
      /\ onWire' = [onWire EXCEPT ![p] = Append(@, m.id)]
      /\ net' = Sent(pkts)

\* One call of sctpAssocSend in which the caller leaves sq and pend in the
\* two queues (once it has evicted what it sends).
AssocSend(p, m, sq, pend) ==
  \/ SendQueued(p, m, pend)
  \/ SendPending(p, m, sq, pend)
  \/ SendChunks(p, m, sq, pend)

\* sctpSessionWriteMessage / sctpSessionWriteDcep.
WriteMessage(p) ==
  /\ Idle(p)
  /\ Len(written[p]) < MaxMessages
  /\ NetHasRoom
  /\ \E k \in Kinds, n \in 1..MaxFrags :
       LET m == [id |-> Len(written[p]) + 1, kind |-> k, frags |-> n]
       IN  /\ written' = [written EXCEPT ![p] = Append(@, m)]
           /\ AssocSend(p, m, sendQueue[p], pendingQueue[p])
  /\ UNCHANGED <<hsVars, rxVars, ackVars, busy, losses>>

\* One iteration of sctpFlushSendQueue.
FlushStep(p) ==
  /\ busy[p] = "flush"
  /\ AssocSend(p, Head(sendQueue[p]), Tail(sendQueue[p]), pendingQueue[p])
  /\ busy' = [busy EXCEPT ![p] = IF Len(sendQueue[p]) = 1 THEN "idle" ELSE @]
  /\ UNCHANGED <<hsVars, rxVars, ackVars, written, losses>>

\* One iteration of sctpDrainPendingQueue: the lowest slot in use, unless
\* the window or the table is full.
DrainStep(p) ==
  LET slot == Lowest(InUse(pendingQueue[p]))
      rest == [pendingQueue[p] EXCEPT ![slot] = NoMsg]
  IN  /\ busy[p] = "drain"
      /\ \/ /\ Congested(p) \/ outstandingCount[p] >= SCTP_MAX_OUTSTANDING
            /\ busy' = [busy EXCEPT ![p] = "idle"]
            /\ UNCHANGED <<chunkVars, queueVars, net>>
         \/ /\ ~(Congested(p) \/ outstandingCount[p] >= SCTP_MAX_OUTSTANDING)
            /\ AssocSend(p, pendingQueue[p][slot], sendQueue[p], rest)
            /\ busy' = [busy EXCEPT ![p] = IF InUse(rest) = {} THEN "idle" ELSE @]
      /\ UNCHANGED <<hsVars, rxVars, ackVars, written, losses>>

-----------------------------------------------------------------------------
(* createSctpSession and the four-way handshake                            *)

Init ==
  /\ session = [p \in Peers |-> "none"]
  /\ state = [p \in Peers |-> "CLOSED"]
  /\ peerVerificationTag = [p \in Peers |-> NoTag]
  /\ t1InitExpiry = [p \in Peers |-> FALSE]
  /\ initRetransmitCount = [p \in Peers |-> 0]
  /\ cookieEchoData = [p \in Peers |-> NoCookie]
  /\ peerCumulativeTsn = [p \in Peers |-> 0]
  /\ peerCumulativeTsnValid = [p \in Peers |-> FALSE]
  /\ receivedTsns = [p \in Peers |-> {}]
  /\ reassembly = [p \in Peers |-> <<>>]
  /\ nextTsn = [p \in Peers |-> InitialTsn]
  /\ nextSsn = [p \in Peers |-> 0]
  /\ outstanding = [p \in Peers |-> {}]
  /\ outstandingCount = [p \in Peers |-> 0]
  /\ flightSize = [p \in Peers |-> 0]
  /\ cwnd = [p \in Peers |-> SCTP_INITIAL_CWND_MTUS * mtu]
  /\ ssthresh = [p \in Peers |-> SCTP_DEFAULT_ARWND]
  /\ t3RtxExpiry = [p \in Peers |-> FALSE]
  /\ cumulativeAckTsn = [p \in Peers |-> InitialTsn - 1]
  /\ advancedPeerAckPoint = [p \in Peers |-> InitialTsn - 1]
  /\ sendQueue = [p \in Peers |-> <<>>]
  /\ pendingQueue = [p \in Peers |-> [s \in 1..SCTP_MAX_PENDING_SENDS |-> NoMsg]]
  /\ busy = [p \in Peers |-> "idle"]
  /\ net = EmptyBag
  /\ losses = 0
  /\ written = [p \in Peers |-> <<>>]
  /\ dropped = [p \in Peers |-> {}]
  /\ onWire = [p \in Peers |-> <<>>]
  /\ got = [p \in Peers |-> {}]
  /\ delivered = [p \in Peers |-> <<>>]

\* Mutant: T1 is left as it is.
T1Started_Not(p) == t1InitExpiry
T1Started(p) == [t1InitExpiry EXCEPT ![p] = TRUE]

\* sctpAssocInit followed by sctpAssocConnect.
Connect(p) ==
  /\ session[p] = "none"
  /\ session' = [session EXCEPT ![p] = "active"]
  /\ state' = [state EXCEPT ![p] = "COOKIE_WAIT"]
  /\ t1InitExpiry' = T1Started(p)
  /\ initRetransmitCount' = [initRetransmitCount EXCEPT ![p] = 0]
  /\ net' = Sent({InitPkt(p)})
  /\ UNCHANGED <<peerVerificationTag, cookieEchoData, rxVars, txVars, losses>>

\* INIT is answered in every state, with the TSN the sender has reached.
HandleInit(p, m) ==
  /\ Arrives(p, m, "INIT")
  /\ net' = Replied(m, {InitAckPkt(p, m)})
  /\ UNCHANGED <<hsVars, rxVars, txVars, losses>>

InitAckExpected(p) == state[p] \in {"COOKIE_WAIT", "CLOSED"}

HandleInitAck(p, m) ==
  /\ Arrives(p, m, "INIT_ACK")
  /\ IF InitAckExpected(p)
     THEN /\ peerVerificationTag' = [peerVerificationTag EXCEPT ![p] = m.tag]
          /\ peerCumulativeTsn' = [peerCumulativeTsn EXCEPT ![p] = m.tsn - 1]
          /\ peerCumulativeTsnValid' = [peerCumulativeTsnValid EXCEPT ![p] = TRUE]
          /\ cookieEchoData' = [cookieEchoData EXCEPT ![p] = m.cookie]
          /\ state' = [state EXCEPT ![p] = "COOKIE_ECHOED"]
          /\ t1InitExpiry' = T1Started(p)
          /\ net' = Replied(m, {CookieEchoPkt(p, m.tag, m.cookie)})
     ELSE /\ net' = Replied(m, {})
          /\ UNCHANGED <<peerVerificationTag, peerCumulativeTsn,
                         peerCumulativeTsnValid, cookieEchoData, state, t1InitExpiry>>
  /\ UNCHANGED <<session, initRetransmitCount, receivedTsns, inVars, txVars, losses>>

\* ESTABLISHED: stop T1 and run sctpFlushSendQueue.
Establish(p) ==
  /\ state' = [state EXCEPT ![p] = "ESTABLISHED"]
  /\ t1InitExpiry' = [t1InitExpiry EXCEPT ![p] = FALSE]
  /\ busy' = [busy EXCEPT ![p] = IF sendQueue[p] = <<>> THEN @ ELSE "flush"]

\* COOKIE-ECHO is accepted in every state; the cumulative TSN goes back to
\* the one in the cookie while receivedTsns is kept.
HandleCookieEcho(p, m) ==
  /\ Arrives(p, m, "COOKIE_ECHO")
  /\ peerVerificationTag' = [peerVerificationTag EXCEPT ![p] = m.cookie.peerTag]
  /\ peerCumulativeTsn' = [peerCumulativeTsn EXCEPT ![p] = m.cookie.peerInitialTsn - 1]
  /\ peerCumulativeTsnValid' = [peerCumulativeTsnValid EXCEPT ![p] = TRUE]
  /\ net' = Replied(m, {ControlPkt("COOKIE_ACK", p, m.cookie.peerTag)})
  /\ Establish(p)
  /\ UNCHANGED <<session, initRetransmitCount, cookieEchoData, receivedTsns,
                 inVars, chunkVars, ackVars, queueVars, written, losses>>

HandleCookieAck(p, m) ==
  /\ Arrives(p, m, "COOKIE_ACK")
  /\ net' = Replied(m, {})
  /\ IF state[p] = "COOKIE_ECHOED"
     THEN Establish(p)
     ELSE UNCHANGED <<state, t1InitExpiry, busy>>
  /\ UNCHANGED <<session, peerVerificationTag, initRetransmitCount, cookieEchoData,
                 rxVars, chunkVars, ackVars, queueVars, written, losses>>

\* The T1 half of sctpAssocCheckTimers.
T1Expire(p) ==
  /\ Idle(p) /\ t1InitExpiry[p]
  /\ initRetransmitCount' = [initRetransmitCount EXCEPT ![p] = @ + 1]
  /\ IF initRetransmitCount[p] + 1 > SCTP_MAX_INIT_RETRANS
     THEN /\ state' = [state EXCEPT ![p] = "CLOSED"]
          /\ t1InitExpiry' = [t1InitExpiry EXCEPT ![p] = FALSE]
          /\ UNCHANGED net
     ELSE /\ net' = Sent(CASE state[p] = "COOKIE_WAIT" -> {InitPkt(p)}
                           [] /\ state[p] = "COOKIE_ECHOED"
                              /\ cookieEchoData[p] # NoCookie ->
                                {CookieEchoPkt(p, peerVerificationTag[p], cookieEchoData[p])}
                           [] OTHER -> {})
          /\ UNCHANGED <<state, t1InitExpiry>>
  /\ UNCHANGED <<session, peerVerificationTag, cookieEchoData, rxVars, txVars, losses>>

-----------------------------------------------------------------------------
(* Receiving data                                                          *)

\* Mutant: one TSN too far.
Advanced_OffByOne(c, recv) ==
  1 + CHOOSE n \in {c} \cup recv : c <= n /\ (c + 1) .. n \subseteq recv /\ n + 1 \notin recv

\* The last of the consecutive TSNs received after c.
Advanced(c, recv) ==
  CHOOSE n \in {c} \cup recv :
    /\ c <= n
    /\ (c + 1) .. n \subseteq recv
    /\ n + 1 \notin recv

\* Mutant: the size of receivedTsns[] is not checked.
Noted_Unbounded(recv, tsn) == recv \cup {tsn}

\* Add an out-of-order TSN to receivedTsns[] unless it is there or it is full.
Noted(recv, tsn) ==
  IF Cardinality(recv) < SCTP_MAX_RECEIVED THEN recv \cup {tsn} ELSE recv

\* Receive tracking: the new cumulative TSN c and table r after TSN tsn.
Tracked(cum, recv, tsn) ==
  IF tsn = cum + 1
  THEN LET c == Advanced(tsn, recv) IN [c |-> c, r |-> recv \ ((tsn + 1) .. c)]
  ELSE [c |-> cum, r |-> Noted(recv, tsn)]

\* The reassembly buffer after m: a first chunk starts it over, the others
\* are appended if they fit.
Gathered(p, m) ==
  CASE m.begin -> <<m.part>>
    [] ~m.begin /\ reassembly[p] # <<>> /\ Len(reassembly[p]) < SCTP_MAX_REASSEMBLY_SIZE
         -> Append(reassembly[p], m.part)
    [] OTHER -> reassembly[p]

\* Hand the payload of m to the callback, whole or through reassembly.  The
\* order of stream sequence numbers plays no part in it.
Deliver(p, m) ==
  LET buf  == Gathered(p, m)
      done == m.end /\ (m.begin \/ reassembly[p] # <<>>)
  IN  /\ delivered' = IF done THEN [delivered EXCEPT ![p] = Append(@, buf)] ELSE delivered
      /\ reassembly' = [reassembly EXCEPT ![p] =
                          IF m.begin /\ m.end THEN @ ELSE IF done THEN <<>> ELSE buf]
      /\ got' = [got EXCEPT ![p] = @ \cup {m.tsn}]

HandleData(p, m) ==
  LET cum  == IF peerCumulativeTsnValid[p] THEN peerCumulativeTsn[p] ELSE m.tsn - 1
      t    == Tracked(cum, receivedTsns[p], m.tsn)
  IN  /\ Arrives(p, m, "DATA")
      /\ \/ /\ state[p] # "ESTABLISHED"
            /\ net' = Replied(m, {})
            /\ UNCHANGED rxVars
         \/ /\ state[p] = "ESTABLISHED" /\ m.tsn <= cum
            /\ net' = Replied(m, {SackPkt(p, cum, receivedTsns[p])})
            /\ UNCHANGED rxVars
         \/ /\ state[p] = "ESTABLISHED" /\ m.tsn > cum
            /\ peerCumulativeTsn' = [peerCumulativeTsn EXCEPT ![p] = t.c]
            /\ peerCumulativeTsnValid' = [peerCumulativeTsnValid EXCEPT ![p] = TRUE]
            /\ receivedTsns' = [receivedTsns EXCEPT ![p] = t.r]
            /\ Deliver(p, m)
            /\ net' = Replied(m, {SackPkt(p, t.c, t.r)})
      /\ UNCHANGED <<hsVars, txVars, losses>>

\* A FORWARD-TSN moves the cumulative TSN over what the peer abandoned.
HandleForwardTsn(p, m) ==
  LET kept == {n \in receivedTsns[p] : n > m.tsn}
      c    == IF m.tsn > peerCumulativeTsn[p] THEN Advanced(m.tsn, kept)
              ELSE peerCumulativeTsn[p]
      r    == IF m.tsn > peerCumulativeTsn[p] THEN {n \in kept : n > c}
              ELSE receivedTsns[p]
  IN  /\ Arrives(p, m, "FORWARD_TSN")
      /\ peerCumulativeTsn' = [peerCumulativeTsn EXCEPT ![p] = c]
      /\ receivedTsns' = [receivedTsns EXCEPT ![p] = r]
      /\ net' = Replied(m, IF peerCumulativeTsnValid[p] THEN {SackPkt(p, c, r)} ELSE {})
      /\ UNCHANGED <<hsVars, peerCumulativeTsnValid, inVars, txVars, losses>>

-----------------------------------------------------------------------------
(* Acknowledgements and retransmission                                     *)

\* Mutant: a gap block is read one TSN too low.
SackCovers_OffByOne(m, tsn) ==
  \/ tsn <= m.cum
  \/ \E g \in m.gaps : tsn \in (m.cum + g[1] - 1) .. (m.cum + g[2])

SackCovers(m, tsn) ==
  \/ tsn <= m.cum
  \/ \E g \in m.gaps : tsn \in (m.cum + g[1]) .. (m.cum + g[2])

\* Mutant: what leaves the table is still counted as in flight.
ReleaseChunks_KeepFlight(p, gone, kept) ==
  /\ outstanding' = [outstanding EXCEPT ![p] = kept]
  /\ outstandingCount' = [outstandingCount EXCEPT ![p] = @ - Cardinality(gone)]
  /\ UNCHANGED flightSize

\* Free the slots of the chunks gone; kept is what stays in outstanding[].
ReleaseChunks(p, gone, kept) ==
  /\ outstanding' = [outstanding EXCEPT ![p] = kept]
  /\ outstandingCount' = [outstandingCount EXCEPT ![p] = @ - Cardinality(gone)]
  /\ flightSize' = [flightSize EXCEPT ![p] = @ - Cardinality(gone)]

\* Mutant: T3 is stopped whatever is outstanding.
T3Wanted_Never(kept) == FALSE
T3Wanted(kept) == kept # {}

\* Mutant: a SACK does not drain the pending queue.
AfterSack_NoDrain(p) == busy[p]
AfterSack(p) == IF InUse(pendingQueue[p]) = {} THEN busy[p] ELSE "drain"

\* Slow start, then congestion avoidance: cwnd once n more chunks are acked.
GrownCwnd(p, n) ==
  cwnd[p] + (IF cwnd[p] <= ssthresh[p] /\ n < mtu THEN n ELSE mtu)

\* Every newly acknowledging SACK opens the window, restarts or stops T3 and
\* drains the pending queue.
HandleSack(p, m) ==
  LET acked == {c \in outstanding[p] : SackCovers(m, c.tsn)}
  IN  /\ Arrives(p, m, "SACK")
      /\ net' = Replied(m, {})
      /\ ReleaseChunks(p, acked, outstanding[p] \ acked)
      /\ cumulativeAckTsn' = [cumulativeAckTsn EXCEPT ![p] = IF m.cum > @ THEN m.cum ELSE @]
      /\ IF acked # {}
         THEN /\ cwnd' = [cwnd EXCEPT ![p] = GrownCwnd(p, Cardinality(acked))]
              /\ t3RtxExpiry' = [t3RtxExpiry EXCEPT ![p] = T3Wanted(outstanding[p] \ acked)]
              /\ busy' = [busy EXCEPT ![p] = AfterSack(p)]
         ELSE UNCHANGED <<cwnd, t3RtxExpiry, busy>>
      /\ UNCHANGED <<hsVars, rxVars, nextTsn, nextSsn, onWire, advancedPeerAckPoint,
                     ssthresh, queueVars, written, losses>>

\* The T3 half of sctpAssocCheckTimers.  Lifetimes run out oldest first: the
\* timed chunks up to TSN cut are over theirs.  A retransmitted chunk goes out
\* as sctpWriteDataChunk builds it, with both the B and the E flag.
Retransmitted(c) == [c EXCEPT !.rtx = IF c.kind = "rexmit" THEN @ + 1 ELSE @]
ShouldAbandon(c, cut) ==
  \/ c.kind = "rexmit" /\ c.rtx + 1 > MaxRetransmits
  \/ c.kind = "timed" /\ c.tsn <= cut

T3ExpireAt(p, cut) ==
  LET gone  == {c \in outstanding[p] : ShouldAbandon(c, cut)}
      kept  == {Retransmitted(c) : c \in outstanding[p] \ gone}
      tsns  == {c.tsn : c \in gone} \cup {advancedPeerAckPoint[p]}
      point == CHOOSE t \in tsns : \A u \in tsns : u <= t
      rexmt == {DataPkt(p, c, TRUE, TRUE) : c \in kept}
  IN  /\ Idle(p) /\ t3RtxExpiry[p]
      /\ NetHasRoom
      /\ ssthresh' = [ssthresh EXCEPT ![p] =
                        IF cwnd[p] \div 2 > 2 * mtu THEN cwnd[p] \div 2 ELSE 2 * mtu]
      /\ cwnd' = [cwnd EXCEPT ![p] = mtu]
      /\ ReleaseChunks(p, gone, kept)
      /\ advancedPeerAckPoint' = [advancedPeerAckPoint EXCEPT ![p] = point]
      /\ net' = Sent(rexmt \cup (IF point > cumulativeAckTsn[p]
                                 THEN {ForwardTsnPkt(p, point)} ELSE {}))
      /\ t3RtxExpiry' = [t3RtxExpiry EXCEPT ![p] = T3Wanted(kept)]
      /\ UNCHANGED <<hsVars, rxVars, nextTsn, nextSsn, onWire, cumulativeAckTsn,
                     queueVars, written, busy, losses>>

T3Expire(p) == \E cut \in {0} \cup {c.tsn : c \in outstanding[p]} : T3ExpireAt(p, cut)

-----------------------------------------------------------------------------
(* Closing                                                                 *)

SetState(p, s) ==
  /\ state' = [state EXCEPT ![p] = s]
  /\ UNCHANGED <<session, peerVerificationTag, t1InitExpiry, initRetransmitCount,
                 cookieEchoData>>

\* sctpAssocShutdown called while the session sends (no T2 timer is armed).
AssocShutdown(p) ==
  /\ p \in Closers
  /\ Idle(p) /\ state[p] = "ESTABLISHED"
  /\ NetHasRoom
  /\ net' = Sent({ControlPkt("SHUTDOWN", p, peerVerificationTag[p])})
  /\ SetState(p, "SHUTDOWN_SENT")
  /\ UNCHANGED <<rxVars, txVars, losses>>

\* Mutant: SHUTDOWN is not answered.
ShutdownReply_None(p) == {}
ShutdownReply(p) == {ControlPkt("SHUTDOWN_ACK", p, peerVerificationTag[p])}

HandleShutdown(p, m) ==
  /\ Arrives(p, m, "SHUTDOWN")
  /\ net' = Replied(m, ShutdownReply(p))
  /\ SetState(p, "SHUTDOWN_ACK_SENT")
  /\ UNCHANGED <<rxVars, txVars, losses>>

HandleShutdownAck(p, m) ==
  /\ Arrives(p, m, "SHUTDOWN_ACK")
  /\ net' = Replied(m, {ControlPkt("SHUTDOWN_COMPLETE", p, peerVerificationTag[p])})
  /\ SetState(p, "CLOSED")
  /\ UNCHANGED <<rxVars, txVars, losses>>

HandleShutdownComplete(p, m) ==
  /\ Arrives(p, m, "SHUTDOWN_COMPLETE")
  /\ net' = Replied(m, {})
  /\ SetState(p, "CLOSED")
  /\ UNCHANGED <<rxVars, txVars, losses>>

\* No native peer sends ABORT; a browser may.
HandleAbort(p) ==
  /\ p \in Aborted
  /\ Idle(p) /\ state[p] # "CLOSED"
  /\ SetState(p, "CLOSED")
  /\ UNCHANGED <<rxVars, txVars, net, losses>>

\* freeSctpSession: shutdownStatus is raised first, so sctpOutboundBridge
\* discards the SHUTDOWN that sctpAssocShutdown builds; then sctpAssocCleanup.
FreeSession(p) ==
  /\ p \in Freers
  /\ Idle(p)
  /\ session' = [session EXCEPT ![p] = "freed"]
  /\ state' = [state EXCEPT ![p] = IF @ = "ESTABLISHED" THEN "SHUTDOWN_SENT" ELSE @]
  /\ outstanding' = [outstanding EXCEPT ![p] = {}]
  /\ outstandingCount' = [outstandingCount EXCEPT ![p] = 0]
  /\ flightSize' = [flightSize EXCEPT ![p] = 0]
  /\ pendingQueue' = [pendingQueue EXCEPT ![p] = [s \in DOMAIN @ |-> NoMsg]]
  /\ reassembly' = [reassembly EXCEPT ![p] = <<>>]
  /\ UNCHANGED <<peerVerificationTag, t1InitExpiry, initRetransmitCount, cookieEchoData,
                 trackVars, got, delivered, nextTsn, nextSsn, t3RtxExpiry, onWire,
                 ackVars, sendQueue, dropped, written, busy, net, losses>>

-----------------------------------------------------------------------------
\* The network loses a packet.
Lose(m) ==
  /\ m \in BagToSet(net)
  /\ losses < MaxLoss
  /\ losses' = losses + 1
  /\ net' = net (-) SetToBag({m})
  /\ UNCHANGED <<hsVars, rxVars, txVars>>

\* sctpChunkDispatch.
HandlePacket(p, m) ==
  \/ HandleInit(p, m) \/ HandleInitAck(p, m)
  \/ HandleCookieEcho(p, m) \/ HandleCookieAck(p, m)
  \/ HandleData(p, m) \/ HandleSack(p, m) \/ HandleForwardTsn(p, m)
  \/ HandleShutdown(p, m) \/ HandleShutdownAck(p, m) \/ HandleShutdownComplete(p, m)

Next ==
  \/ \E p \in Peers :
       \/ Connect(p)
       \/ p \in Writers /\ WriteMessage(p)
       \/ FlushStep(p) \/ DrainStep(p)
       \/ T1Expire(p) \/ T3Expire(p)
       \/ AssocShutdown(p) \/ HandleAbort(p) \/ FreeSession(p)
       \/ \E m \in BagToSet(net) : HandlePacket(p, m)
  \/ \E m \in BagToSet(net) : Lose(m)

Spec == Init /\ [][Next]_vars

-----------------------------------------------------------------------------
(* Correctness                                                             *)

Msgs == [id : Nat \ {0}, kind : AllKinds, frags : 1..MaxFrags]
Chunks == [tsn : Nat, part : Seq(Nat), kind : AllKinds, rtx : Nat]
Cookies == [peerTag : Peers, peerInitialTsn : Nat \ {0}]
Tags == Peers \cup {NoTag}

Packets ==
       [type : {"INIT"}, to : Peers, vtag : {NoTag}, tag : Peers, tsn : Nat \ {0}]
  \cup [type : {"INIT_ACK"}, to : Peers, vtag : Tags, tag : Peers, tsn : Nat \ {0},
        cookie : Cookies]
  \cup [type : {"COOKIE_ECHO"}, to : Peers, vtag : Tags, cookie : Cookies]
  \cup [type : {"COOKIE_ACK", "SHUTDOWN", "SHUTDOWN_ACK", "SHUTDOWN_COMPLETE"},
        to : Peers, vtag : Tags]
  \cup [type : {"DATA"}, to : Peers, vtag : Tags, tsn : Nat, part : Seq(Nat),
        begin : BOOLEAN, end : BOOLEAN]
  \cup [type : {"SACK"}, to : Peers, vtag : Tags, cum : Nat, gaps : SUBSET (Nat \X Nat)]
  \cup [type : {"FORWARD_TSN"}, to : Peers, vtag : Tags, tsn : Nat]

HandshakeTypes ==
  /\ session \in [Peers -> {"none", "active", "freed"}]
  /\ state \in [Peers -> AssocState]
  /\ peerVerificationTag \in [Peers -> Tags]
  /\ t1InitExpiry \in [Peers -> BOOLEAN]
  /\ initRetransmitCount \in [Peers -> Nat]
  /\ cookieEchoData \in [Peers -> Cookies \cup {NoCookie}]

ReceiveTypes ==
  /\ peerCumulativeTsn \in [Peers -> Nat]
  /\ peerCumulativeTsnValid \in [Peers -> BOOLEAN]
  /\ receivedTsns \in [Peers -> SUBSET Nat]
  /\ \A p \in Peers : Cardinality(receivedTsns[p]) <= SCTP_MAX_RECEIVED
  /\ reassembly \in [Peers -> Seq(Seq(Nat))]
  /\ got \in [Peers -> SUBSET Nat]
  /\ delivered \in [Peers -> Seq(Seq(Seq(Nat)))]

SendTypes ==
  /\ nextTsn \in [Peers -> Nat \ {0}]
  /\ nextSsn \in [Peers -> Nat]
  /\ outstanding \in [Peers -> SUBSET Chunks]
  /\ outstandingCount \in [Peers -> 0..SCTP_MAX_OUTSTANDING]
  /\ flightSize \in [Peers -> Nat]
  /\ t3RtxExpiry \in [Peers -> BOOLEAN]
  /\ sendQueue \in [Peers -> Seq(Msgs)]
  /\ pendingQueue \in [Peers -> [1..SCTP_MAX_PENDING_SENDS -> Msgs \cup {NoMsg}]]
  /\ busy \in [Peers -> {"idle", "flush", "drain"}]
  /\ written \in [Peers -> Seq(Msgs)]
  /\ dropped \in [Peers -> SUBSET Nat]
  /\ onWire \in [Peers -> Seq(Nat)]

AckTypes ==
  /\ cwnd \in [Peers -> Nat \ {0}]
  /\ ssthresh \in [Peers -> Nat]
  /\ cumulativeAckTsn \in [Peers -> Nat]
  /\ advancedPeerAckPoint \in [Peers -> Nat]

NetTypes == IsABag(net) /\ BagToSet(net) \subseteq Packets /\ losses \in Nat

\* The variables have their types; the tables and queues of the association
\* stay within the sizes they are declared with.
TypeOK ==
  /\ HandshakeTypes /\ ReceiveTypes
  /\ SendTypes /\ AckTypes
  /\ NetTypes

OutstandingTsns(p) == {c.tsn : c \in outstanding[p]}

\* The two unsigned counters kept beside outstanding[] are exactly its size:
\* no path of acknowledgement, gap acknowledgement, abandonment or clean-up
\* subtracts a chunk twice (flightSize would wrap and close the window for
\* good) or forgets one.
Accounting ==
  \A p \in Peers :
    /\ outstandingCount[p] = Cardinality(outstanding[p])
    /\ flightSize[p] = Cardinality(outstanding[p])
    /\ \A c, d \in outstanding[p] : c.tsn = d.tsn => c = d

\* T3-rtx is armed exactly while an unacknowledged chunk is kept: a chunk is
\* never left without the timer that retransmits it, the fragmentation path
\* that gives up half way included, and an idle association has no timer.
T3Armed ==
  \A p \in Peers : session[p] = "active" =>
    (t3RtxExpiry[p] <=> outstanding[p] # {})

\* Nothing is acknowledged, tracked or skipped that was never sent.
NothingFromTheFuture ==
  \A p \in Peers :
    /\ peerCumulativeTsn[p] < nextTsn[Other(p)]
    /\ \A t \in receivedTsns[p] \cup got[p] : t < nextTsn[Other(p)]
    /\ cumulativeAckTsn[p] < nextTsn[p]
    /\ advancedPeerAckPoint[p] < nextTsn[p]

\* Messages held back by congestion have something in flight whose SACK will
\* call sctpDrainPendingQueue: the pending queue is never left without a
\* trigger.
PendingHasTrigger ==
  \A p \in Peers :
    Idle(p) /\ state[p] = "ESTABLISHED" /\ InUse(pendingQueue[p]) # {} => t3RtxExpiry[p]

\* Whatever waits is served by something to come: a kept chunk by T3, a
\* message in the pending queue by the SACK of a chunk that T3 keeps alive.
WaitingIsServed == T3Armed /\ PendingHasTrigger

\* A TSN leaves outstanding[] only once the receiver has accepted its payload
\* (reliable, unfragmented messages): acknowledged means delivered.  A receiver
\* whose T1 ran out is exempt: a late INIT-ACK reopens it at the TSN its peer
\* has reached by then (see the hazards).
AckedMeansDelivered ==
  \A p \in Peers :
    session[p] = "active" /\ initRetransmitCount[Other(p)] <= SCTP_MAX_INIT_RETRANS =>
      \A t \in InitialTsn .. (nextTsn[p] - 1) :
        t \in OutstandingTsns(p) \cup got[Other(p)]

\* The same for the reliable messages among partially reliable ones: what the
\* peer abandons takes no reliable message with it (onWire[p] lists the
\* unfragmented messages in TSN order).
ReliableSurvives ==
  \A p \in Peers : \A t \in InitialTsn .. (nextTsn[p] - 1) :
    written[p][onWire[p][t - InitialTsn + 1]].kind = "reliable" =>
      t \in OutstandingTsns(p) \cup got[Other(p)]

\* Whatever reaches the callback is one whole message.
WholeMessages ==
  \A p \in Peers : \A i \in DOMAIN delivered[p] :
    LET d == delivered[p][i]
    IN  /\ Len(d) = written[Other(p)][d[1][1]].frags
        /\ \A k \in DOMAIN d : d[k] = <<d[1][1], k>>

-----------------------------------------------------------------------------
(* Progress.  The network delivers what it does not lose and starves no    *)
(* kind of packet, the session timer keeps ticking (sctpTimerCallback,     *)
(* every 50 ms) and the session mutex is handed on.                        *)

Fairness ==
  \A p \in Peers :
    /\ WF_vars(Connect(p))
    /\ WF_vars(FlushStep(p)) /\ WF_vars(DrainStep(p))
    /\ WF_vars(T1Expire(p)) /\ WF_vars(T3Expire(p))
    /\ WF_vars(\E m \in BagToSet(net) : HandleInit(p, m))
    /\ WF_vars(\E m \in BagToSet(net) : HandleInitAck(p, m))
    /\ WF_vars(\E m \in BagToSet(net) : HandleCookieEcho(p, m))
    /\ WF_vars(\E m \in BagToSet(net) : HandleCookieAck(p, m))
    /\ WF_vars(\E m \in BagToSet(net) : HandleData(p, m))
    /\ WF_vars(\E m \in BagToSet(net) : HandleSack(p, m))
    /\ WF_vars(\E m \in BagToSet(net) : HandleForwardTsn(p, m))
    /\ WF_vars(\E m \in BagToSet(net) : HandleShutdown(p, m))
    /\ WF_vars(\E m \in BagToSet(net) : HandleShutdownAck(p, m))
    /\ WF_vars(\E m \in BagToSet(net) : HandleShutdownComplete(p, m))

FairSpec == Spec /\ Fairness

\* The crossing handshakes come to an end on both sides, for good: up, or
\* given up after SCTP_MAX_INIT_RETRANS.
HandshakeEnds ==
  \A p \in Peers : <>[](state[p] \in {"ESTABLISHED", "CLOSED"})

\* A message that is not dropped reaches the peer's callback.
EventuallyDelivered ==
  \A p \in Writers : \A i \in 1..MaxMessages :
    (Len(written[p]) >= i) ~>
      \/ i \in dropped[p]
      \/ \E k \in DOMAIN delivered[Other(p)] : delivered[Other(p)][k][1][1] = i

\* A shutdown that one or both peers start closes both of them, an ABORT on
\* the way included, unless one frees its session without answering or a
\* packet is lost: no timer repeats a SHUTDOWN.
ShutdownCompletes ==
  (\E p \in Peers : state[p] = "SHUTDOWN_SENT") ~>
    \/ \A p \in Peers : state[p] = "CLOSED"
    \/ \E p \in Peers : session[p] = "freed"
    \/ losses > 0
=============================================================================
