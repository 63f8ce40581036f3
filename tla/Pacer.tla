------------------------------- MODULE Pacer -------------------------------
(***************************************************************************)
(* The pacer of the media send path (PeerConnection/Pacer.c): encrypted    *)
(* video packets wait in a bounded queue, and a timer sends as many of     *)
(* them as the byte budget of the elapsed time allows, or as the deadline  *)
(* of the oldest packet demands.                                           *)
(*                                                                         *)
(* Time advances in pacing intervals.  A bitrate appears as the bytes it   *)
(* allows in one interval, pacing factor included; a packet as its id, its *)
(* size and its age.  Every operation holds pPacer->lock from start to     *)
(* end, so each is one step.  Starting and stopping the timer, statistics  *)
(* and the reports to the TWCC manager are left out.                       *)
(***************************************************************************)
EXTENDS Integers, Sequences, FiniteSets, FiniteSetsExt, SequencesExt

CONSTANTS
  maxQueueSize,        \* packets the queue may hold
  maxQueueBytes,       \* bytes the queue may hold
  QueueTimes,          \* deadlines the application sets, in intervals, 0 = none
  Rates,               \* bytes per interval that the bitrates in use allow
  Sizes,               \* sizes of packets
  MaxElapsed           \* bound: intervals by which the timer may be late

ASSUME PacerAssumption ==
  /\ maxQueueSize \in Nat \ {0} /\ maxQueueBytes \in Nat \ {0}
  /\ MaxElapsed \in Nat \ {0}
  /\ QueueTimes \subseteq Nat /\ QueueTimes # {} /\ IsFiniteSet(QueueTimes)
  /\ Rates \subseteq Nat \ {0} /\ Rates # {}
  /\ Sizes \subseteq Nat \ {0} /\ Sizes # {}

VARIABLES
  packetQueue,         \* the packets from pHead to pTail
  queueSize,           \* how many, as the pacer counts them
  queueBytes,          \* and their bytes
  budgetBytes,         \* bytes left over from the last run
  targetBitrateBps,    \* bytes per interval
  maxQueueTimeKvs,     \* deadline of a packet, 0 = none
  elapsedTimeKvs       \* intervals since the last run (now - lastSendTimeKvs)

pacerVars == <<packetQueue, queueSize, queueBytes, budgetBytes, targetBitrateBps,
               maxQueueTimeKvs, elapsedTimeKvs>>

\* The sum of the first n numbers, for each n.
Sums(numbers) ==
  LET sum[n \in 0 .. Len(numbers)] == IF n = 0 THEN 0 ELSE sum[n - 1] + numbers[n]
  IN  sum

SizesOf(packets) == [i \in 1 .. Len(packets) |-> packets[i].size]
Bytes(packets) == Sums(SizesOf(packets))[Len(packets)]

QueuedIds == {packetQueue[i].id : i \in DOMAIN packetQueue}

createPacer ==
  /\ packetQueue = <<>>
  /\ queueSize = 0
  /\ queueBytes = 0
  /\ budgetBytes = 0
  /\ targetBitrateBps \in Rates
  /\ maxQueueTimeKvs \in QueueTimes
  /\ elapsedTimeKvs = 0

-----------------------------------------------------------------------------
\* A frame enters the queue as a whole, or is dropped as a whole.
HasRoom(frame) ==
  /\ queueSize + Len(frame) <= maxQueueSize
  /\ queueBytes + Bytes(frame) <= maxQueueBytes

pacerEnqueueFrame(frame) ==
  /\ IF HasRoom(frame)
       THEN /\ packetQueue' = packetQueue \o frame
            /\ queueSize' = queueSize + Len(frame)
            /\ queueBytes' = queueBytes + Bytes(frame)
       ELSE UNCHANGED <<packetQueue, queueSize, queueBytes>>
  /\ UNCHANGED <<budgetBytes, targetBitrateBps, maxQueueTimeKvs, elapsedTimeKvs>>

pacerSetTargetBitrate ==
  /\ targetBitrateBps' \in Rates \ {targetBitrateBps}
  /\ UNCHANGED <<packetQueue, queueSize, queueBytes, budgetBytes, maxQueueTimeKvs, elapsedTimeKvs>>

pacerSetMaxQueueTime ==
  /\ maxQueueTimeKvs' \in QueueTimes \ {maxQueueTimeKvs}
  /\ UNCHANGED <<packetQueue, queueSize, queueBytes, budgetBytes, targetBitrateBps, elapsedTimeKvs>>

\* An interval passes.  An age is only compared with deadlines: it stops at
\* the latest of them.
PacerTick ==
  /\ elapsedTimeKvs < MaxElapsed
  /\ elapsedTimeKvs' = elapsedTimeKvs + 1
  /\ packetQueue' = [i \in DOMAIN packetQueue |->
                       [packetQueue[i] EXCEPT !.age = Min({@ + 1, Max(QueueTimes)})]]
  /\ UNCHANGED <<queueSize, queueBytes, budgetBytes, targetBitrateBps, maxQueueTimeKvs>>

-----------------------------------------------------------------------------
\* What the bitrate allows in a number of intervals.
pacerCalculateBudget(intervals) == targetBitrateBps * intervals

\* The budget of a run: what time allows, more when the oldest packet would
\* miss its deadline, and exactly the whole queue once it has missed it.
DrainBudget ==
  LET earned == budgetBytes + pacerCalculateBudget(elapsedTimeKvs)
      left   == maxQueueTimeKvs - Head(packetQueue).age
  IN  IF maxQueueTimeKvs = 0 \/ packetQueue = <<>> THEN earned
      ELSE IF left <= 0 THEN queueBytes
      ELSE Max({earned, queueBytes \div left})

\* The bytes of the first n packets that were sent: a packet the ICE agent
\* refuses is dropped without being charged.
Charges(accepted) ==
  [i \in 1 .. Len(packetQueue) |->
     IF packetQueue[i].id \in accepted THEN packetQueue[i].size ELSE 0]
Charged(accepted, n) == Sums(Charges(accepted))[n]

\* The packets dequeued: up to the first one that exceeds what is left.
Dequeued(budget, accepted) ==
  Min({n \in 0 .. Len(packetQueue) :
         n < Len(packetQueue) => packetQueue[n + 1].size > budget - Charged(accepted, n)})

\* Mutant: no credit survives beyond one interval.
CappedBudget_OneInterval(budget) == Min({budget, pacerCalculateBudget(1)})

\* Credit is capped at what two intervals allow.
CappedBudget(budget) == Min({budget, pacerCalculateBudget(2)})

\* What leaves the byte count when n packets are dequeued.
DequeuedBytes(accepted, n) == Bytes(SubSeq(packetQueue, 1, n))

\* One run of pacerTimerCallback, in which the ICE agent accepts the packets
\* named and refuses the others.
pacerDrainQueue(accepted) ==
  LET budget == DrainBudget
      n      == Dequeued(budget, accepted)
  IN  /\ elapsedTimeKvs > 0
      /\ packetQueue' = SubSeq(packetQueue, n + 1, Len(packetQueue))
      /\ queueSize' = queueSize - n
      /\ queueBytes' = queueBytes - DequeuedBytes(accepted, n)
      /\ budgetBytes' = CappedBudget(budget - Charged(accepted, n))
      /\ elapsedTimeKvs' = 0
      /\ UNCHANGED <<targetBitrateBps, maxQueueTimeKvs>>

pacerTimerCallback == \E accepted \in SUBSET QueuedIds : pacerDrainQueue(accepted)

PacerTypeOK ==
  /\ queueSize \in Nat /\ queueBytes \in Nat /\ budgetBytes \in Nat
  /\ targetBitrateBps \in Rates
  /\ maxQueueTimeKvs \in QueueTimes
  /\ elapsedTimeKvs \in 0 .. MaxElapsed
  /\ \A i \in DOMAIN packetQueue : packetQueue[i].size \in Sizes
                                   /\ packetQueue[i].age \in 0 .. Max(QueueTimes)
=============================================================================
