----------------------------- MODULE RtpSender -----------------------------
(***************************************************************************)
(* The media send path of one transceiver.                                 *)
(*                                                                         *)
(*  - The application thread packetises a frame in writeFrame (Rtp.c),     *)
(*    holding pSrtpSessionLock for the whole frame: it keeps a copy of     *)
(*    each packet in the rolling buffer, encrypts it and sends it or hands *)
(*    the frame to the pacer.                                              *)
(*  - The listener thread answers a NACK in resendPacketOnNack             *)
(*    (Retransmitter.c): it takes the packets asked for out of the rolling *)
(*    buffer, sends them again on the RTX stream and puts them back.       *)
(*  - The timer thread drains the pacer (module Pacer).                    *)
(*                                                                         *)
(* The rolling buffer (Rtcp/RollingBuffer.c) takes its own lock in each of *)
(* its operations, so each is one step; rtpRollingBufferAddRtpPacket notes *)
(* the index of the packet after that lock is released, and the look-up of *)
(* sequence numbers takes no lock.                                         *)
(*                                                                         *)
(* A packet is the count of the packets constructed before it; its header  *)
(* carries that count modulo SeqSpace, the number of RTP sequence numbers. *)
(***************************************************************************)
EXTENDS Pacer

CONSTANTS
  capacity,            \* packets the rolling buffer holds
  SeqSpace,              \* number of RTP sequence numbers (2^16 in the code)
  validIndexListLen,   \* indices a NACK may yield
  BlpBits,             \* bits in the bitmask of a NACK (16 in the code)
  Modes,               \* what was negotiated: subset of {"rtx", "pacing", "both"}
  MaxFrame,            \* bound: packets of a frame
  MaxPackets,          \* bound: packets constructed
  MaxFailures          \* bound: frames broken off and RTX packets not built

ASSUME SenderAssumption ==
  /\ capacity \in Nat \ {0} /\ SeqSpace \in Nat /\ SeqSpace > capacity
  /\ validIndexListLen \in Nat \ {0} /\ BlpBits \in Nat
  /\ Modes \subseteq {"rtx", "pacing", "both"}
  /\ MaxFrame \in Nat \ {0} /\ MaxPackets \in Nat /\ MaxFailures \in Nat

VARIABLES
  mode,                \* what was negotiated
  headIndex, tailIndex, dataBuffer,   \* the rolling buffer
  lastIndex,           \* index of the last packet added, as the look-up sees it
  constructed,         \* packets constructed so far
  srtpLocked,          \* writeFrame holds pSrtpSessionLock
  app,                 \* the application thread in writeFrame
  nack,                \* the listener thread in resendPacketOnNack
  freed,               \* buffered packets given back to the heap
  failures

bufferVars == <<headIndex, tailIndex, dataBuffer>>
senderVars == <<mode, bufferVars, lastIndex, constructed, srtpLocked, app, nack,
                freed, failures>>
vars == <<pacerVars, senderVars>>

NULL == -1
Packets == 0 .. MaxPackets - 1
SequenceNumber(packet) == packet % SeqSpace

\* RTX was negotiated: copies are kept before encryption.  Otherwise the code
\* means to keep them after it, but its buffer is gone by then: nothing is.
rtx == mode \in {"rtx", "both"}
useBatchPacing == mode \in {"pacing", "both"}

Idle == [pc |-> "idle", list |-> <<>>, valid |-> <<>>, index |-> 1, item |-> NULL]

Init ==
  /\ createPacer
  /\ mode \in Modes
  /\ headIndex = 0 /\ tailIndex = 0
  /\ dataBuffer = [slot \in 0 .. capacity - 1 |-> NULL]
  /\ lastIndex \in IF rtx THEN 0 .. 1 ELSE {0}   \* never initialised, never read without RTX
  /\ constructed = 0
  /\ srtpLocked = FALSE
  /\ app = [pc |-> "idle", next |-> 0, end |-> 0, frame |-> <<>>]
  /\ nack = Idle
  /\ freed = {}
  /\ failures = 0

-----------------------------------------------------------------------------
(* The rolling buffer.                                                     *)

Slot(index) == index % capacity
InRange(index) == tailIndex <= index /\ index < headIndex
BufferSize == headIndex - tailIndex

\* Mutant: the slot is overwritten and its packet never freed.
Evicted_Leaked == {}

\* A full buffer drops its oldest packet, if it still holds it.
Evicted == IF BufferSize = capacity THEN {dataBuffer[Slot(tailIndex)]} \ {NULL} ELSE {}

\* Mutant: the window grows beyond the slots.
TailAfterAppend_Stays == tailIndex

TailAfterAppend == IF BufferSize = capacity THEN tailIndex + 1 ELSE tailIndex

rollingBufferAppendData(packet) ==
  /\ freed' = freed \cup Evicted
  /\ tailIndex' = TailAfterAppend
  /\ dataBuffer' = [dataBuffer EXCEPT ![Slot(headIndex)] = packet]
  /\ headIndex' = headIndex + 1

\* What lies at the index makes way for the packet; a packet whose index has
\* left the buffer is freed by the caller.
rollingBufferInsertData(index, packet) ==
  /\ IF InRange(index)
       THEN /\ freed' = freed \cup ({dataBuffer[Slot(index)]} \ {NULL})
            /\ dataBuffer' = [dataBuffer EXCEPT ![Slot(index)] = packet]
       ELSE /\ freed' = freed \cup {packet}
            /\ UNCHANGED dataBuffer
  /\ UNCHANGED <<headIndex, tailIndex>>

\* The window of sequence numbers that ends at lastIndex; a window whose first
\* number is not below its last one wraps around.
startSeq == (lastIndex - BufferSize + 1) % SeqSpace
endSeq == lastIndex % SeqSpace
crossMaxSeq == startSeq >= endSeq

\* Mutant: a window that wraps around is not treated as such.
FoundPacket_NoWrap(seqNum) == BufferSize > 0 /\ seqNum >= startSeq /\ seqNum <= endSeq

FoundPacket(seqNum) ==
  /\ BufferSize > 0
  /\ IF crossMaxSeq THEN seqNum >= startSeq \/ seqNum <= endSeq
                    ELSE seqNum >= startSeq /\ seqNum <= endSeq

\* The index of a sequence number found.  It may lie outside the buffer when
\* lastIndex lags behind: extracting it then yields nothing.
IndexOf(seqNum) == IF seqNum >= startSeq THEN lastIndex - BufferSize + 1 + seqNum - startSeq
                                         ELSE lastIndex - endSeq + seqNum

\* The indices for a list of sequence numbers, as many as the list has room for.
rtpRollingBufferGetValidSeqIndexList(list) ==
  LET valid[n \in 0 .. Len(list)] ==
        IF n = 0 THEN <<>>
        ELSE IF FoundPacket(list[n]) /\ Len(valid[n - 1]) < validIndexListLen
        THEN Append(valid[n - 1], IndexOf(list[n]))
        ELSE valid[n - 1]
  IN  valid[Len(list)]

-----------------------------------------------------------------------------
(* writeFrame, in the application thread.  Frames written before the SRTP  *)
(* session exists are discarded and change nothing.                        *)

WriteFrame(n) ==
  /\ app.pc = "idle" /\ ~srtpLocked
  /\ constructed + n <= MaxPackets
  /\ srtpLocked' = TRUE
  /\ constructed' = constructed + n
  /\ app' = [pc |-> "append", next |-> constructed, end |-> constructed + n, frame |-> <<>>]
  /\ UNCHANGED <<pacerVars, mode, bufferVars, lastIndex, nack, freed, failures>>

\* The copy enters the rolling buffer ...
AddRtpPacket ==
  /\ app.pc = "append"
  /\ IF rtx THEN rollingBufferAppendData(app.next) ELSE UNCHANGED <<bufferVars, freed>>
  /\ app' = [app EXCEPT !.pc = IF rtx THEN "index" ELSE "send"]
  /\ UNCHANGED <<pacerVars, mode, lastIndex, constructed, srtpLocked, nack, failures>>

\* ... and its index is noted, after the buffer's lock is released.
NoteLastIndex ==
  /\ app.pc = "index"
  /\ lastIndex' = headIndex - 1
  /\ app' = [app EXCEPT !.pc = "send"]
  /\ UNCHANGED <<pacerVars, mode, bufferVars, constructed, srtpLocked, nack, freed, failures>>

\* Encrypted and collected for the pacer, or sent; a packet the socket
\* refuses is dropped and the frame goes on.
SendRtpPacket(size) ==
  /\ app.pc = "send"
  /\ app' = [app EXCEPT !.pc = IF app.next + 1 = app.end THEN "enqueue" ELSE "append",
                        !.next = @ + 1,
                        !.frame = IF useBatchPacing
                                  THEN Append(@, [id |-> app.next, size |-> size, age |-> 0])
                                  ELSE @]
  /\ UNCHANGED <<pacerVars, mode, bufferVars, lastIndex, constructed, srtpLocked, nack, freed, failures>>

\* Mutant: an error path leaves without unlocking.
LockAfter_HeldOnError(succeeded) == ~succeeded

\* CleanUp releases the lock however writeFrame ends.
LockAfter(succeeded) == FALSE

\* Encryption fails, or no candidate pair is there to send on: the frame is
\* broken off and its other packets are never added, sent or enqueued.
BreakOffFrame ==
  /\ app.pc = "send" /\ failures < MaxFailures
  /\ failures' = failures + 1
  /\ srtpLocked' = LockAfter(FALSE)
  /\ app' = [app EXCEPT !.pc = "idle", !.frame = <<>>]
  /\ UNCHANGED <<pacerVars, mode, bufferVars, lastIndex, constructed, nack, freed>>

EnqueueFrame ==
  /\ app.pc = "enqueue"
  /\ IF useBatchPacing THEN pacerEnqueueFrame(app.frame) ELSE UNCHANGED pacerVars
  /\ srtpLocked' = LockAfter(TRUE)
  /\ app' = [app EXCEPT !.pc = "idle", !.frame = <<>>]
  /\ UNCHANGED <<mode, bufferVars, lastIndex, constructed, nack, freed, failures>>

-----------------------------------------------------------------------------
(* resendPacketOnNack, in the listener thread.                             *)

\* The sequence numbers of a NACK: its packet id, and one for each bit set.
rtcpNackListGet(pid, blp) ==
  <<pid>> \o [i \in DOMAIN blp |-> (pid + blp[i]) % SeqSpace]

\* The bits that are set, in their order.
Blps == UNION {{blp \in [1 .. n -> 1 .. BlpBits] : \A i, j \in 1 .. n : i < j => blp[i] < blp[j]} :
                 n \in 0 .. BlpBits}

\* The loop moves on to the next index, or ends.
NextIndex == IF nack.index < Len(nack.valid)
             THEN [nack EXCEPT !.pc = "extract", !.index = @ + 1, !.item = NULL]
             ELSE Idle

\* The peer asks for packets that were constructed, some of which may have left
\* the buffer; a NACK none of which is found changes nothing.
NackArrives(pid, blp) ==
  LET list  == rtcpNackListGet(pid, blp)
      valid == rtpRollingBufferGetValidSeqIndexList(list)
  IN  /\ nack.pc = "idle"
      /\ Range(list) \subseteq {SequenceNumber(p) : p \in 0 .. constructed - 1}
      /\ valid # <<>>
      /\ nack' = [Idle EXCEPT !.pc = "extract", !.list = list, !.valid = valid]
      /\ UNCHANGED <<pacerVars, mode, bufferVars, lastIndex, constructed, srtpLocked, app,
                     freed, failures>>

\* A slot that is empty, or an index that has left the buffer, is skipped.
rollingBufferExtractData ==
  LET index == nack.valid[nack.index]
      item  == IF InRange(index) THEN dataBuffer[Slot(index)] ELSE NULL
  IN  /\ nack.pc = "extract"
      /\ IF item = NULL
           THEN /\ nack' = NextIndex
                /\ UNCHANGED dataBuffer
           ELSE /\ nack' = [nack EXCEPT !.pc = "send", !.item = item]
                /\ dataBuffer' = [dataBuffer EXCEPT ![Slot(index)] = NULL]
      /\ UNCHANGED <<pacerVars, mode, headIndex, tailIndex, lastIndex, constructed, srtpLocked, app,
                     freed, failures>>

\* The RTX packet is built and written by writeRtpPacket, which needs
\* pSrtpSessionLock; whether it was sent, and the sequence number of
\* the RTX stream, matter to statistics and to the receiver only.
Resend ==
  /\ nack.pc = "send" /\ ~srtpLocked
  /\ nack' = [nack EXCEPT !.pc = "putback"]
  /\ UNCHANGED <<pacerVars, mode, bufferVars, lastIndex, constructed, srtpLocked, app, freed, failures>>

\* The RTX packet cannot be built: the NACK is given up and the packet freed.
GiveUp ==
  /\ nack.pc = "send" /\ failures < MaxFailures
  /\ failures' = failures + 1
  /\ freed' = freed \cup {nack.item}
  /\ nack' = Idle
  /\ UNCHANGED <<pacerVars, mode, bufferVars, lastIndex, constructed, srtpLocked, app>>

\* The packet goes back at the index sequenceNumberList[index]: a sequence
\* number, of the entry of the NACK with the position of the valid index.
PutBack ==
  /\ nack.pc = "putback"
  /\ rollingBufferInsertData(nack.list[nack.index], nack.item)
  /\ nack' = NextIndex
  /\ UNCHANGED <<pacerVars, mode, lastIndex, constructed, srtpLocked, app, failures>>

-----------------------------------------------------------------------------
PacerStep ==
  /\ useBatchPacing
  /\ \/ PacerTick
     \/ pacerTimerCallback
     \/ pacerSetTargetBitrate
     \/ pacerSetMaxQueueTime
  /\ UNCHANGED senderVars

AppStep == AddRtpPacket \/ NoteLastIndex \/ (\E size \in Sizes : SendRtpPacket(size)) \/ EnqueueFrame
NackStep == rollingBufferExtractData \/ Resend \/ PutBack

Next ==
  \/ \E n \in 1 .. MaxFrame : WriteFrame(n)
  \/ AppStep
  \/ BreakOffFrame
  \/ \E pid \in 0 .. SeqSpace - 1, blp \in Blps : NackArrives(pid, blp)
  \/ NackStep
  \/ GiveUp
  \/ PacerStep

\* The threads go on with what they have begun, the timer keeps firing, and a
\* thread that waits for the SRTP lock gets it when it keeps becoming free.
Fairness ==
  /\ WF_vars(AppStep)
  /\ WF_vars(rollingBufferExtractData) /\ WF_vars(PutBack) /\ SF_vars(Resend)
  /\ WF_vars(PacerTick /\ UNCHANGED senderVars /\ useBatchPacing)
  /\ WF_vars(pacerTimerCallback /\ UNCHANGED senderVars /\ useBatchPacing)

Spec == Init /\ [][Next]_vars
FairSpec == Spec /\ Fairness

-----------------------------------------------------------------------------
(* Properties.                                                             *)

\* The variables keep their types and every list its bound.
TypeOK ==
  /\ PacerTypeOK
  /\ headIndex \in 0 .. MaxPackets /\ tailIndex \in 0 .. headIndex
  /\ BufferSize <= capacity
  /\ dataBuffer \in [0 .. capacity - 1 -> Packets \cup {NULL}]
  /\ lastIndex \in Nat /\ constructed \in 0 .. MaxPackets /\ srtpLocked \in BOOLEAN
  /\ app.pc \in {"idle", "append", "index", "send", "enqueue"}
  /\ Len(app.frame) <= MaxFrame
  /\ nack.pc \in {"idle", "extract", "send", "putback"}
  /\ Len(nack.valid) <= Min({Len(nack.list), validIndexListLen})
  /\ nack.item \in Packets \cup {NULL}
  /\ freed \subseteq Packets

\* Every copy that entered the rolling buffer has exactly one owner: one slot,
\* the NACK being answered, or the heap.  While the listener thread holds a
\* packet outside the buffer's lock, the application thread may reuse its slot
\* and the put-back may displace another packet; none is lost, freed twice or
\* used after it was freed.
OneOwner ==
  LET buffered == {slot \in DOMAIN dataBuffer : dataBuffer[slot] # NULL}
      inHand   == {nack.item} \ {NULL}
  IN  /\ \A s, t \in buffered : dataBuffer[s] = dataBuffer[t] => s = t
      /\ \A s \in buffered : dataBuffer[s] \notin freed \cup inHand
      /\ inHand \cap freed = {}
      /\ Cardinality(buffered) + Cardinality(inHand) + Cardinality(freed) = headIndex

\* The look-up of sequence numbers, across their wrap-around and with an index
\* that lags behind the buffer: an index it yields within the buffer belongs to
\* the sequence number asked for, and once the index is noted every packet
\* position of the buffer can be found.
LookupExact ==
  /\ \A seqNum \in 0 .. SeqSpace - 1 :
       FoundPacket(seqNum) /\ InRange(IndexOf(seqNum)) => SequenceNumber(IndexOf(seqNum)) = seqNum
  /\ lastIndex = headIndex - 1 =>
       \A index \in tailIndex .. headIndex - 1 :
         FoundPacket(SequenceNumber(index)) /\ IndexOf(SequenceNumber(index)) = index

\* The pacer's counters say what its queue holds and never exceed its limits,
\* though sends fail half way through a run and frames are dropped.
QueueAccounting ==
  /\ queueSize = Len(packetQueue) /\ queueSize <= maxQueueSize
  /\ queueBytes = Bytes(packetQueue) /\ queueBytes <= maxQueueBytes

\* No packet is lost track of on its way out, in the rolling buffer or in the
\* pacer's queue.
PacketsAccounted == OneOwner /\ QueueAccounting

\* With a deadline set, a run of the timer leaves no packet in the queue that
\* has reached it, whatever the bitrate and however many sends fail.
DeadlineHonoured ==
  [][elapsedTimeKvs' = 0 /\ elapsedTimeKvs > 0 /\ maxQueueTimeKvs > 0 =>
       \A i \in DOMAIN packetQueue' : packetQueue'[i].age < maxQueueTimeKvs]_vars

\* Answering a NACK comes to an end: the listener thread, which also receives
\* everything else, is not held up forever by writeFrame.
NackEnds == nack.pc # "idle" ~> nack.pc = "idle"

\* A packet in the pacer's queue leaves it in the end, at every bitrate of
\* which three intervals cover the largest packet: either the queue keeps
\* becoming empty or packets keep leaving it from its head.
PacedPacketsLeave ==
  (\A rate \in Rates : 3 * rate >= Max(Sizes))
    => []<>(packetQueue = <<>>) \/ []<><<Len(packetQueue') < Len(packetQueue)>>_vars

\* The pacer is in time: packets leave in the end, and by their deadline if there is one.
PacedInTime == DeadlineHonoured /\ PacedPacketsLeave

\* What is sent again was asked for.
ResentWasAsked == nack.pc = "send" => SequenceNumber(nack.item) \in Range(nack.list)
=============================================================================
