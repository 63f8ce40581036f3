-------------------------------- MODULE Twcc --------------------------------
(***************************************************************************)
(* Transport-wide congestion control between two peers.                    *)
(*                                                                         *)
(* The SENDER numbers its packets, keeps when each was sent in a hash      *)
(* table (twccManagerOnPacketSent, twccManagerOnPacedPacketSent) and turns *)
(* the feedback of its peer into callbacks (onRtcpTwccPacket).  Three      *)
(* threads send: the writer of a frame, which holds pSrtpSessionLock from  *)
(* the number to the table, the pacer's timer, which sends what a writer   *)
(* has numbered and queued, and the receive thread, which sends a packet   *)
(* again under its old number when a NACK asks for it.  All of them enter  *)
(* a packet in the table after it has left.                                *)
(*                                                                         *)
(* The RECEIVER notes arrivals (twccReceiverOnPacketReceived) and reports  *)
(* them from a timer (twccFeedbackCallback, sendRtcpTwccFeedback).         *)
(*                                                                         *)
(* Packets and feedback are lost, overtake each other and packets arrive   *)
(* twice: SRTP refuses a feedback that arrives twice, but arrivals are     *)
(* noted before decryption.  What stays in the network forever is lost.    *)
(* Time is counted in ticks of a delta; sequence numbers, reference times  *)
(* and deltas keep the width of their fields.                              *)
(***************************************************************************)
EXTENDS Integers, Sequences, FiniteSets, FiniteSetsExt, SequencesExt

CONSTANTS
  TwccSpace,                     \* transport-wide sequence numbers (2^16 in the code)
  TWCC_ESTIMATOR_TIME_WINDOW,    \* ticks an entry stays in the rolling window
  TWCC_MAX_PACKET_STATUS_COUNT,  \* packets one feedback tells of
  ReferenceUnit,                 \* ticks in a unit of the reference time
  SmallDelta, LargeDelta,        \* the largest deltas of one byte and of two
  Callbacks,                     \* the sets of callbacks an application may register
  FirstNumbers,                  \* where transportWideSequenceNumber may stand
  Budgets                        \* bounds, one of which a behaviour keeps: packets numbered,
                                 \* ticks, faults (failing sends, second arrivals, resends)

ASSUME TwccAssumption ==
  /\ TwccSpace \in Nat /\ TwccSpace > 1 /\ TwccSpace % 2 = 0
  /\ TWCC_ESTIMATOR_TIME_WINDOW \in Nat
  /\ TWCC_MAX_PACKET_STATUS_COUNT \in 1 .. TwccSpace - 1
  /\ ReferenceUnit \in Nat \ {0} /\ SmallDelta \in Nat /\ LargeDelta \in Nat
  /\ ReferenceUnit <= LargeDelta
  /\ Callbacks \subseteq (SUBSET {"bandwidth", "report"}) \ {{}}
  /\ FirstNumbers \subseteq 0 .. TwccSpace - 1
  /\ Budgets \subseteq [packets : 0 .. TwccSpace \div 2 - 1, ticks : Nat, faults : Nat]

Numbers == 0 .. TwccSpace - 1

\* the threads that send: writeFrame, resendPacketOnNack, pacerDrainQueue
Threads == {"writer", "resender", "pacer"}

VARIABLES
  budget,                      \* the bounds of this behaviour
  clock,
  callbacks,                   \* onSenderBandwidthEstimation, onTwccPacketReport
  numbered,                    \* the next number, packets numbered
  paced,                       \* numbers that wait in the pacer's queue
  out,                         \* the packet each thread has sent and not entered yet
  table,                       \* pTwccRtpPktInfosHashTable
  firstSeqNumInRollingWindow, lastReportedSeqNum,
  reports,                     \* what the step tells onTwccPacketReport
  estimate,                    \* and onSenderBandwidthEstimation
  packets,                     \* packets in the network
  feedback,                    \* feedback in the network
  received,                    \* pReceivedPktsHashTable
  firstPacketReceived, firstSeqNum, lastSeqNum, baseTimeKvs,
  arrivals,                    \* history: when each packet arrived,
  delivered,                   \* the packets told as received,
  missed,                      \* those told of when they had no entry,
  resent,                      \* those sent again
  faults

twccSender == <<numbered, paced, out, table, firstSeqNumInRollingWindow, lastReportedSeqNum,
                resent>>
twccReceiver == <<received, firstPacketReceived, firstSeqNum, lastSeqNum, baseTimeKvs, arrivals>>
twccTold == <<delivered, missed>>
twccVars == <<budget, clock, callbacks, twccSender, twccReceiver, twccTold, reports, estimate,
              packets, feedback, faults>>

\* no time; TWCC_PACKET_LOST_TIME
None == -1
Lost == -2

NoEntry == [localTime |-> None, remoteTime |-> Lost]
NoPacket == [num |-> None, sentTime |-> None]
NoEstimate == [sent |-> 0, received |-> 0, duration |-> 0]

\* A connection whose earlier packets, if any, were all reported.
TwccInit ==
  /\ budget \in Budgets /\ clock = 0 /\ callbacks \in Callbacks /\ faults = 0
  /\ \E n \in FirstNumbers :
       /\ numbered = [next |-> n, count |-> 0]
       /\ firstSeqNumInRollingWindow = n
       /\ lastReportedSeqNum = IF n = 0 THEN 0 ELSE n - 1
       /\ baseTimeKvs = IF n = 0 THEN None ELSE 0
  /\ paced = <<>> /\ out = [t \in Threads |-> NoPacket]
  /\ table = [n \in Numbers |-> NoEntry]
  /\ reports = {} /\ estimate = NoEstimate
  /\ packets = {} /\ feedback = {}
  /\ received = [n \in Numbers |-> None]
  /\ firstPacketReceived = FALSE /\ firstSeqNum = 0 /\ lastSeqNum = 0
  /\ arrivals = [n \in Numbers |-> {}]
  /\ delivered = {} /\ missed = {} /\ resent = {}

-----------------------------------------------------------------------------
(* Sending                                                                 *)

\* the numbers from a on, n of them
NumbersFrom(a, n) == [i \in 1 .. n |-> (a + i - 1) % TwccSpace]

Quiet == reports' = {} /\ estimate' = NoEstimate

\* The writer holds pSrtpSessionLock until its packet is entered.
SrtpSessionFree == out["writer"] = NoPacket

TakeNumber ==
  /\ SrtpSessionFree /\ numbered.count < budget.packets
  /\ numbered' = [next |-> (numbered.next + 1) % TwccSpace, count |-> numbered.count + 1]

\* iceAgentSendPacket, after which the time is taken; if it fails the packet is given up
Transmit(t, n) ==
  \/ /\ out' = [out EXCEPT ![t] = [num |-> n, sentTime |-> clock]]
     /\ packets' = packets \cup {n}
     /\ UNCHANGED faults
  \/ /\ faults < budget.faults /\ faults' = faults + 1
     /\ UNCHANGED <<out, packets>>

\* writeFrame without pacing, and with it
SendAtOnce ==
  /\ TakeNumber /\ Transmit("writer", numbered.next) /\ Quiet
  /\ UNCHANGED <<budget, clock, callbacks, paced, table, firstSeqNumInRollingWindow,
                 lastReportedSeqNum, resent, twccReceiver, twccTold, feedback>>

SendPaced ==
  /\ TakeNumber /\ paced' = Append(paced, numbered.next) /\ Quiet
  /\ UNCHANGED <<budget, clock, callbacks, out, table, firstSeqNumInRollingWindow,
                 lastReportedSeqNum, resent, twccReceiver, twccTold, packets, feedback, faults>>

\* pacerDrainQueue
DrainPaced ==
  /\ paced # <<>> /\ out["pacer"] = NoPacket
  /\ paced' = Tail(paced) /\ Transmit("pacer", Head(paced)) /\ Quiet
  /\ UNCHANGED <<budget, clock, callbacks, numbered, table, firstSeqNumInRollingWindow,
                 lastReportedSeqNum, resent, twccReceiver, twccTold, feedback>>

\* resendPacketOnNack: a packet of the rolling buffer, its extension unchanged, leaves again
ResendOnNack(n) ==
  /\ SrtpSessionFree /\ out["resender"] = NoPacket
  /\ (numbered.next - n - 1) % TwccSpace < numbered.count
  /\ faults < budget.faults /\ faults' = faults + 1
  /\ out' = [out EXCEPT !["resender"] = [num |-> n, sentTime |-> clock]]
  /\ packets' = packets \cup {n} /\ resent' = resent \cup {n} /\ Quiet
  /\ UNCHANGED <<budget, clock, callbacks, numbered, paced, table, firstSeqNumInRollingWindow,
                 lastReportedSeqNum, twccReceiver, twccTold, feedback>>

Entered(packet) ==
  [table EXCEPT ![packet.num] = [localTime |-> packet.sentTime, remoteTime |-> Lost]]

\* twccRollingWindowDeletion walks from the start of the window to the packet just sent, a
\* whole turn if it stands right behind it.  An entry that is too old is removed, one with a
\* later time is passed over, and the walk ends at one that is young enough.
Walk(packet) ==
  LET n == (packet.num + 1 - firstSeqNumInRollingWindow) % TwccSpace
  IN  NumbersFrom(firstSeqNumInRollingWindow, IF n = 0 THEN TwccSpace ELSE n)

Age(entry, packet) == packet.sentTime - entry.localTime

TooOld(entry, packet) == Age(entry, packet) > TWCC_ESTIMATOR_TIME_WINDOW

WalkLength(t, packet) ==
  LET walk  == Walk(packet)
      young == {i \in DOMAIN walk : /\ t[walk[i]] # NoEntry
                                    /\ Age(t[walk[i]], packet) >= 0
                                    /\ ~TooOld(t[walk[i]], packet)}
  IN  Min(young \cup {Len(walk) + 1}) - 1

twccRollingWindowDeletion(t, packet) ==
  LET passed == {Walk(packet)[i] : i \in 1 .. WalkLength(t, packet)}
  IN  /\ table' = [n \in Numbers |-> IF n \in passed /\ t[n] # NoEntry /\ TooOld(t[n], packet)
                                       THEN NoEntry ELSE t[n]]
      /\ firstSeqNumInRollingWindow' =
           (firstSeqNumInRollingWindow + WalkLength(t, packet)) % TwccSpace

\* The writer and the resender enter their packets for the bandwidth callback only.
twccManagerOnPacketSent(t) ==
  /\ t \in {"writer", "resender"} /\ out[t] # NoPacket
  /\ IF "bandwidth" \in callbacks
       THEN twccRollingWindowDeletion(Entered(out[t]), out[t])
       ELSE UNCHANGED <<table, firstSeqNumInRollingWindow>>
  /\ out' = [out EXCEPT ![t] = NoPacket] /\ Quiet
  /\ UNCHANGED <<budget, clock, callbacks, numbered, paced, lastReportedSeqNum, resent,
                 twccReceiver, twccTold, packets, feedback, faults>>

\* The pacer enters its packet, unless its number is 0, and leaves the window alone.
twccManagerOnPacedPacketSent ==
  /\ out["pacer"] # NoPacket
  /\ table' = IF out["pacer"].num # 0 THEN Entered(out["pacer"]) ELSE table
  /\ out' = [out EXCEPT !["pacer"] = NoPacket] /\ Quiet
  /\ UNCHANGED <<budget, clock, callbacks, numbered, paced, firstSeqNumInRollingWindow,
                 lastReportedSeqNum, resent, twccReceiver, twccTold, packets, feedback, faults>>

-----------------------------------------------------------------------------
(* Receiving                                                               *)

\* the difference of two numbers as an INT16
Signed(d) ==
  LET u == d % TwccSpace IN IF u >= TwccSpace \div 2 THEN u - TwccSpace ELSE u

\* Mutant: numbers are compared without their wrap-around.
Earlier_Unsigned(m, n) == m < n

Earlier(m, n) == Signed(m - n) < 0

\* the packet arrives, and stays in the network if it will arrive again
twccReceiverOnPacketReceived(n) ==
  /\ n \in packets
  /\ \/ packets' = packets \ {n} /\ UNCHANGED faults
     \/ faults < budget.faults /\ faults' = faults + 1 /\ UNCHANGED packets
  /\ arrivals' = [arrivals EXCEPT ![n] = @ \cup {clock}]
  /\ IF received[n] # None
       THEN UNCHANGED <<received, firstPacketReceived, firstSeqNum, lastSeqNum, baseTimeKvs>>
       ELSE /\ baseTimeKvs' = IF baseTimeKvs = None THEN clock ELSE baseTimeKvs
            /\ received' = [received EXCEPT ![n] = clock - baseTimeKvs']
            /\ firstPacketReceived' = TRUE
            /\ firstSeqNum' = IF ~firstPacketReceived \/ Earlier(n, firstSeqNum)
                                THEN n ELSE firstSeqNum
            /\ lastSeqNum' = IF ~firstPacketReceived \/ Earlier(lastSeqNum, n)
                               THEN n ELSE lastSeqNum
  /\ Quiet
  /\ UNCHANGED <<budget, clock, callbacks, twccSender, twccTold, feedback>>

getTwccPacketStatus(delta) ==
  CASE 0 <= delta /\ delta <= SmallDelta                -> "small"
    [] -LargeDelta - 1 <= delta /\ delta <= LargeDelta  -> "large"
    [] OTHER                                            -> "not"

\* the reference time is that of the first packet received, in whole units
Reference(told) ==
  received[told[Min({i \in DOMAIN told : received[told[i]] # None})]] \div ReferenceUnit

\* the arrival that the delta of told[i] counts from
ArrivalBefore(told, i) ==
  LET before == {j \in 1 .. i - 1 : received[told[j]] # None}
  IN  IF before = {} THEN Reference(told) * ReferenceUnit ELSE received[told[Max(before)]]

Delta(told, i) == received[told[i]] - ArrivalBefore(told, i)

Statuses(told) ==
  [i \in DOMAIN told |->
     IF received[told[i]] = None THEN "not" ELSE getTwccPacketStatus(Delta(told, i))]

\* the elements of S in ascending order
Ascending(S) ==
  CHOOSE f \in [1 .. Cardinality(S) -> S] : \A i, j \in DOMAIN f : i < j => f[i] < f[j]

\* run-length chunks of equal symbols
Chunks(statuses) ==
  LET begins == {i \in DOMAIN statuses : i = 1 \/ statuses[i] # statuses[i - 1]}
      starts == Ascending(begins)
      end(k) == IF k = Len(starts) THEN Len(statuses) + 1 ELSE starts[k + 1]
  IN  [k \in DOMAIN starts |-> [symbol |-> statuses[starts[k]], run |-> end(k) - starts[k]]]

Deltas(told) ==
  LET sent == Ascending({i \in DOMAIN told : Statuses(told)[i] # "not"})
  IN  [k \in DOMAIN sent |-> Delta(told, sent[k])]

\* what was told is forgotten
Kept(told) == [n \in Numbers |-> IF n \in Range(told) THEN None ELSE received[n]]

\* twccFeedbackCallback: the window from the first to the last packet noted is reported, cut
\* off at TWCC_MAX_PACKET_STATUS_COUNT, and a new one begins with the next packet.
sendRtcpTwccFeedback ==
  LET told == NumbersFrom(firstSeqNum, Min({(lastSeqNum - firstSeqNum + 1) % TwccSpace,
                                            TWCC_MAX_PACKET_STATUS_COUNT}))
  IN  /\ firstPacketReceived
      /\ \E i \in DOMAIN told : received[told[i]] # None
      /\ feedback' = feedback \cup
           {[baseSeqNum |-> firstSeqNum, reference |-> Reference(told),
             chunks |-> Chunks(Statuses(told)), deltas |-> Deltas(told)]}
      /\ received' = Kept(told)
      /\ firstPacketReceived' = FALSE /\ firstSeqNum' = 0 /\ lastSeqNum' = 0
      /\ Quiet
      /\ UNCHANGED <<budget, clock, callbacks, twccSender, twccTold, packets, baseTimeKvs, arrivals,
                     faults>>

-----------------------------------------------------------------------------
(* Feedback                                                                *)

\* the symbols of the chunks, one for each number from baseSeqNum on
Symbols(m) == FlattenSeq([k \in DOMAIN m.chunks |->
                            [i \in 1 .. m.chunks[k].run |-> m.chunks[k].symbol]])

\* MIN_INT16 is no delta
NoDelta == -LargeDelta - 1

\* the delta that the i-th symbol takes
DeltaOf(m, i) ==
  m.deltas[Cardinality({j \in 1 .. i : Symbols(m)[j] # "not"})]

\* Mutant: deltas count from the reference time and not from one packet to the next.
RemoteTime_FromReference(m, i) == m.reference * ReferenceUnit + DeltaOf(m, i)

\* the reference time and the deltas up to the i-th symbol
RemoteTime(m, i) ==
  LET n == Cardinality({j \in 1 .. i : Symbols(m)[j] # "not"})
      sum[k \in 0 .. n] ==
        IF k = 0 THEN m.reference * ReferenceUnit
                 ELSE sum[k - 1] + (IF m.deltas[k] = NoDelta THEN 0 ELSE m.deltas[k])
  IN  sum[n]

\* parseRtcpTwccPacket: the symbols it acts upon, the table and the last number after it
Parsed(m) == {i \in DOMAIN Symbols(m) : Symbols(m)[i] = "not" \/ DeltaOf(m, i) # NoDelta}

NumberAt(m, i) == (m.baseSeqNum + i - 1) % TwccSpace

ParsedTable(m) ==
  [n \in Numbers |->
     LET at == {i \in Parsed(m) : NumberAt(m, i) = n}
     IN  IF table[n] = NoEntry \/ at = {} THEN table[n]
         ELSE [table[n] EXCEPT !.remoteTime =
                 IF Symbols(m)[Max(at)] = "not" THEN Lost ELSE RemoteTime(m, Max(at))]]

ParsedLast(m) == IF Parsed(m) = {} THEN lastReportedSeqNum ELSE NumberAt(m, Max(Parsed(m)))

\* the numbers that onRtcpTwccPacket and updateTwccHashTable go through: none when the last
\* number reported stands right before the first one
Covered(m) == NumbersFrom(m.baseSeqNum, (ParsedLast(m) - m.baseSeqNum + 1) % TwccSpace)

\* the covered packets that have an entry
Found(m) == {n \in Range(Covered(m)) : ParsedTable(m)[n] # NoEntry}
FoundReceived(m) == {n \in Found(m) : ParsedTable(m)[n].remoteTime # Lost}

\* The time between the entry before the first number, or else the first entry, and the last
\* one.  Before number 0 the code looks for -1, which no packet has.
Duration(m) ==
  LET t       == ParsedTable(m)
      covered == Covered(m)
      entries == {i \in DOMAIN covered : covered[i] \in Found(m)}
      before  == m.baseSeqNum - 1
      start   == IF before >= 0 /\ t[before] # NoEntry THEN before ELSE covered[Min(entries)]
  IN  IF entries = {} THEN 0 ELSE t[covered[Max(entries)]].localTime - t[start].localTime

\* updateTwccHashTable removes what was received; what was lost stays for the window
Removed(m) == FoundReceived(m)

onRtcpTwccPacket(m) ==
  /\ m \in feedback /\ feedback' = feedback \ {m}
  /\ reports' = IF "report" \notin callbacks THEN {}
                ELSE {[num |-> n, arrivalTime |-> ParsedTable(m)[n].remoteTime,
                       received |-> n \in FoundReceived(m), again |-> n \in delivered] :
                        n \in Found(m)}
  /\ estimate' = IF "bandwidth" \notin callbacks \/ Duration(m) <= 0 THEN NoEstimate
                 ELSE [sent |-> Cardinality(Found(m)), received |-> Cardinality(FoundReceived(m)),
                       duration |-> Duration(m)]
  /\ table' = [n \in Numbers |-> IF n \in Removed(m) THEN NoEntry ELSE ParsedTable(m)[n]]
  /\ lastReportedSeqNum' = ParsedLast(m)
  /\ delivered' = delivered \cup FoundReceived(m)
  /\ missed' = missed \cup {NumberAt(m, i) : i \in {j \in DOMAIN Symbols(m) :
                              Symbols(m)[j] # "not" /\ table[NumberAt(m, j)] = NoEntry}}
  /\ UNCHANGED <<budget, clock, callbacks, numbered, paced, out, firstSeqNumInRollingWindow, resent,
                 twccReceiver, packets, faults>>

Tick ==
  /\ clock < budget.ticks /\ clock' = clock + 1 /\ Quiet
  /\ UNCHANGED <<budget, callbacks, twccSender, twccReceiver, twccTold, packets, feedback, faults>>

TwccNext ==
  \/ SendAtOnce \/ SendPaced \/ DrainPaced
  \/ \E n \in Numbers : ResendOnNack(n)
  \/ \E t \in {"writer", "resender"} : twccManagerOnPacketSent(t)
  \/ twccManagerOnPacedPacketSent
  \/ \E n \in packets : twccReceiverOnPacketReceived(n)
  \/ sendRtcpTwccFeedback
  \/ \E m \in feedback : onRtcpTwccPacket(m)
  \/ Tick

TwccSpec == TwccInit /\ [][TwccNext]_twccVars

-----------------------------------------------------------------------------
(* Properties                                                              *)

\* a feedback in the network that tells of n as received
ToldBy(n) ==
  {m \in feedback : \E i \in DOMAIN Symbols(m) : NumberAt(m, i) = n /\ Symbols(m)[i] # "not"}

\* What the application is told as received has arrived, at the time it is told, and is told
\* once unless it was sent again, although feedback overlaps, overtakes other feedback and
\* packets arrive twice.  The two callbacks speak of the same packets.
ReceivedIsTrue ==
  /\ \A r \in reports : r.received =>
       /\ r.arrivalTime + baseTimeKvs \in arrivals[r.num]
       /\ ~r.again \/ r.num \in resent
  /\ estimate # NoEstimate /\ "report" \in callbacks =>
       /\ estimate.sent = Cardinality(reports)
       /\ estimate.received = Cardinality({r \in reports : r.received})

\* the receiver has noted n, in the window of its next feedback
Noted(n) ==
  /\ received[n] # None /\ firstPacketReceived
  /\ (n - firstSeqNum) % TwccSpace <= (lastSeqNum - firstSeqNum) % TwccSpace

\* An arrival is not lost on its way to the sender: while the entry of a packet that has
\* arrived waits for news, also after the packet was told as lost, it is noted for the next
\* feedback or told by one in the network.  Exempt are packets whose news came before their
\* entry was made, and packets sent again, whose entry waits for the second arrival.
NothingForgotten ==
  \A n \in Numbers : table[n] # NoEntry /\ arrivals[n] # {} =>
    Noted(n) \/ ToldBy(n) # {} \/ n \in missed \/ n \in resent

\* PeerConnection.c:2598 says of the pacer's entries that "the rolling window will be cleaned
\* up during normal TWCC feedback processing": feedback that told of a packet leaves no
\* entry of it that is older than the window.
FeedbackCleans ==
  [][\A m \in feedback \ feedback' : \A i \in DOMAIN Symbols(m) :
       LET n == NumberAt(m, i)
       IN  table'[n] # NoEntry => clock - table'[n].localTime <= TWCC_ESTIMATOR_TIME_WINDOW]_twccVars

\* Include.h:1066 says of the arrival time in a report "0 = lost/not received".
LostIsZero == \A r \in reports : r.arrivalTime = 0 <=> ~r.received
=============================================================================
