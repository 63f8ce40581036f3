---------------------------- MODULE JitterBuffer ----------------------------
(***************************************************************************)
(* PeerConnection/JitterBuffer.c: the two jitter buffers behind one table   *)
(* of functions, and the default one.  It keeps packets in a table by       *)
(* sequence number and, on every push, walks from its head to its tail: the *)
(* frame at the head is handed over when it is whole, given up when it is   *)
(* stale, and holds up all others until then.                               *)
(*                                                                         *)
(* The walk (jitterBufferInternalParse) takes two steps per sequence number,*)
(* one for each place in which it may call the application.                 *)
(* onFrameReadyFunc fails when a packet of the range it is given is not     *)
(* there; the walk then ends and leaves the buffer as it is.                *)
(* Redundant audio (synthetic packets) is left out.                         *)
(***************************************************************************)
EXTENDS RealTimeJitterBuffer

CONSTANTS
    Kinds,          \* the buffers: "realtime" and "default"
    ClockRate,      \* timestamps per second
    Reorder,        \* bound: how far a packet may overtake those sent before it
    MaxAgain        \* bound: packets that arrive a second time

ASSUME DefaultAssumption ==
    /\ Kinds \subseteq {"realtime", "default"}
    /\ ClockRate \in Nat \ {0} /\ Reorder \in Nat /\ MaxAgain \in Nat

VARIABLES
    kind,      \* which of the two buffers the transceiver has
    walk       \* the local variables of jitterBufferInternalParse

allVars == <<vars, kind, walk>>

NoWalk == [closed |-> FALSE]   \* no walk is under way

\* createJitterBuffer
defaultInit ==
    jb = [started |-> FALSE, first |-> FALSE, seqOver |-> FALSE, tsOver |-> FALSE,
          headSeq |-> SeqMod - 1, tailSeq |-> SeqMod - 1, headTs |-> TsMod - 1, tailTs |-> 0, table |-> {}]

Init ==
    /\ stream \in Streams /\ kind \in Kinds
    /\ IF kind = "realtime" THEN rtInit ELSE defaultInit
    /\ pc = "idle" /\ arrived = {} /\ again = 0 /\ out = <<>> /\ walk = NoWalk

-----------------------------------------------------------------------------
(* Order: each check of the code returns a truth value and moves a field    *)

headCheckingAllowed(b, p) == ~b.first \/ b.headTs = Ts(p)

\* headSequenceNumberCheck: the packet comes before the head ...
BecomesHead(b, p) ==
    LET s == Seq16(p)
    IN  /\ s # b.headSeq /\ headCheckingAllowed(b, p)
        /\ s < b.headSeq /\ s >= b.headSeq - Near
        /\ b.seqOver => b.tailSeq < s

\* ... and is the head from now on
WithHead(b, p) == [b EXCEPT !.headSeq = IF BecomesHead(b, p) THEN Seq16(p) ELSE @]

headSequenceNumberCheck(b, p) == b.headSeq = Seq16(p) \/ BecomesHead(b, p)

\* tailSequenceNumberCheck
BecomesTail(b, p) == Seq16(p) > b.tailSeq /\ (b.seqOver => b.headSeq > Seq16(p))

WithTail(b, p) == [b EXCEPT !.tailSeq = IF BecomesTail(b, p) THEN Seq16(p) ELSE @]

tailSequenceNumberCheck(b, p) == b.tailSeq = Seq16(p) \/ BecomesTail(b, p)

\* at most one frame per second: the sequence numbers between allow for the time between
underflowPossible(b, p) ==
    LET between == SeqMod - 1 - Seq16(p) + b.headSeq
        passed == IF (TsMod - 1) \div ClockRate <= between THEN TsMod - 1 ELSE ClockRate * between
        elapsed == IF b.headTs > Ts(p) THEN b.headTs - Ts(p) ELSE TsMod - 1 - Ts(p) + b.headTs
    IN  b.headTs = Ts(p) \/ passed >= elapsed

\* enterSequenceNumberOverflowCheck, or else the tail
EnterSequence(b, p) ==
    LET s == Seq16(p)
        left == SeqMod - 1 - b.tailSeq
        over == ~b.seqOver /\ left <= Near /\ s < b.tailSeq /\ s <= Near - left
        under == /\ ~b.seqOver /\ left > Near /\ headCheckingAllowed(b, p)
                 /\ b.headSeq < Near /\ s >= SeqMod - 1 - (Near - b.headSeq)
                 /\ underflowPossible(b, p)
    IN  CASE over  -> [b EXCEPT !.seqOver = TRUE, !.tailSeq = s, !.tailTs = Ts(p)]
          [] under -> [b EXCEPT !.seqOver = TRUE, !.headSeq = s, !.headTs = Ts(p)]
          [] OTHER -> WithTail(b, p)

\* tailTimestampCheck
tailTimestampCheck(b, p) ==
    LET t == Ts(p)
        newer == b.tailTs < t /\ (b.tsOver => b.headTs > t)
        c == IF newer THEN WithTail(b, p) ELSE b
    IN  [c EXCEPT !.tailTs = IF newer /\ tailSequenceNumberCheck(b, p) THEN t ELSE @]

\* enterTimestampOverflowCheck, or else the tail
EnterTimestamp(b, p) ==
    LET t == Ts(p)
        older == ~b.tsOver /\ b.headTs > t /\ b.tailTs > t
        newer == ~b.tsOver /\ b.headTs < t /\ b.tailTs < t
        over == older /\ tailSequenceNumberCheck(b, p)
        under == newer /\ BecomesHead(b, p)
    IN  CASE over  -> [WithTail(b, p) EXCEPT !.tsOver = TRUE, !.tailTs = t]
          [] under -> [WithHead(b, p) EXCEPT !.tsOver = TRUE, !.headTs = t]
          [] OTHER -> tailTimestampCheck(b, p)

\* withinLatencyTolerance, after its call of tailTimestampCheck; the last subtraction is unsigned
withinLatencyTolerance(b, p) ==
    LET t == Ts(p)
        minimum == IF b.tailTs < MaxLatency THEN TsMod - 1 - (MaxLatency - b.tailTs) ELSE 0
    IN  \/ b.tailTs = t
        \/ b.tsOver /\ (t < b.tailTs \/ t > b.headTs \/ t >= minimum)
        \/ ~b.tsOver /\ (\/ t < MaxLatency /\ b.tailTs <= MaxLatency
                         \/ b.tailTs >= MaxLatency /\ t >= b.tailTs - MaxLatency)

\* headTimestampCheck and headSequenceNumberCheck of a packet that was stored
EnterHead(b, p) ==
    LET t == Ts(p)
        older == IF b.tsOver THEN b.headTs > t /\ b.tailTs < t ELSE b.headTs > t \/ b.tailTs < t
        c == IF older
             THEN [WithHead(b, p) EXCEPT !.headTs = IF headSequenceNumberCheck(b, p) THEN t ELSE @]
             ELSE b
    IN  IF headCheckingAllowed(b, p) THEN WithHead(c, p) ELSE b

-----------------------------------------------------------------------------
(* defaultPush and the start of the walk *)

Slot(b, s) == {p \in b.table : Seq16(p) = s}
InTable(b, from, to) == UNION {Slot(b, (from + k) % SeqMod) : k \in 0..SeqSub(to, from)}
Filled(b, from, to) == \A k \in 0..SeqSub(to, from) : Slot(b, (from + k) % SeqMod) # {}

StartWalk(b, closed) ==
    [closed |-> closed, from |-> b.headSeq, index |-> b.headSeq, drop |-> b.headSeq, gap |-> -1,
     contiguous |-> TRUE, seen |-> FALSE, ended |-> FALSE, last |-> 0, lastNonNull |-> 0,
     hasStart |-> FALSE, size |-> FALSE]

Started(b, p) ==
    IF b.started THEN b
    ELSE [b EXCEPT !.started = TRUE, !.headSeq = Seq16(p), !.tailSeq = Seq16(p), !.headTs = Ts(p)]

defaultPush(p) ==
    LET b == tailTimestampCheck(EnterTimestamp(EnterSequence(Started(jb, p), p), p), p)
        stored == [b EXCEPT !.table = (@ \ Slot(b, Seq16(p))) \cup {p}]
    IN  /\ pc = "idle"
        /\ jb' = IF withinLatencyTolerance(b, p) THEN EnterHead(stored, p) ELSE b
        /\ pc' = "top" /\ walk' = StartWalk(jb', FALSE)
        /\ UNCHANGED <<stream, out>>

-----------------------------------------------------------------------------
(* jitterBufferInternalParse *)

End(p) == Marker(p) \/ SinglePacket

\* the frame at the head has waited for longer than maxLatency, or waits no longer
Overdue ==
    LET earliest == IF jb.tailTs > MaxLatency THEN jb.tailTs - MaxLatency ELSE 0
    IN  jb.headTs < earliest \/ walk.closed

\* defaultDropBufferData with the two exit checks
Dropped(b, from, to, next) ==
    LET head == (to + 1) % SeqMod
    IN  [b EXCEPT !.table = @ \ InTable(b, from, to), !.headTs = next, !.headSeq = head,
                  !.tsOver = @ /\ next > b.tailTs, !.seqOver = @ /\ head > b.tailSeq]

\* onFrameReadyFunc, onFrameDroppedFunc and the removal of what they were told of
Settle(b, ready, from, to, next) ==
    /\ out' = Append(out, [ts |-> b.headTs, ready |-> ready, packets |-> InTable(b, from, to)])
    /\ jb' = Dropped(b, from, to, next)

Processed == [jb EXCEPT !.first = TRUE]   \* firstFrameProcessed

\* The walk is over: a push returns, and defaultDestroy walks again for as long as the head moves.
Return(b) ==
    LET more == walk.closed /\ b.headSeq # walk.from /\ SeqSub(b.tailSeq + 1, b.headSeq) > 0
    IN  /\ pc' = CASE ~walk.closed -> "idle" [] more -> "top" [] OTHER -> "free"
        /\ walk' = IF more THEN StartWalk(b, TRUE) ELSE NoWalk

Leave == UNCHANGED <<jb, out>> /\ Return(jb)

\* a sequence number that is missing: the walk goes on only if the head is overdue
Missing ==
    /\ pc = "top" /\ walk.index # (jb.tailSeq + 1) % SeqMod /\ Slot(jb, walk.index) = {}
    /\ IF Overdue
       THEN /\ walk' = [walk EXCEPT !.gap = IF @ = -1 THEN walk.index ELSE @,
                                    !.contiguous = @ /\ ~(walk.seen /\ ~walk.ended),
                                    !.index = (@ + 1) % SeqMod]
            /\ UNCHANGED <<jb, pc, out>>
       ELSE Leave
    /\ UNCHANGED <<stream, kind, arrived, again>>

\* a packet of the frame at the head
OfHead ==
    /\ pc = "top" /\ walk.index # (jb.tailSeq + 1) % SeqMod
    /\ \E p \in Slot(jb, walk.index) :
          /\ Ts(p) = jb.headTs
          /\ walk' = [walk EXCEPT !.lastNonNull = walk.index, !.last = walk.index, !.seen = TRUE,
                                  !.ended = @ \/ End(p)]
    /\ pc' = "bottom"
    /\ UNCHANGED <<stream, kind, jb, arrived, again, out>>

\* A packet of another frame: the one at the head is handed over if it is whole, given up if it is
\* overdue, and waited for otherwise; if nothing of it was there the packet begins the new head.
OfNext ==
    /\ pc = "top" /\ walk.index # (jb.tailSeq + 1) % SeqMod
    /\ \E p \in Slot(jb, walk.index) :
          LET i == walk.index
              before == SeqSub(i, 1)
              gap == walk.gap # -1 /\ walk.seen /\ (walk.gap <= walk.last \/ ~walk.ended)
              whole == walk.hasStart /\ walk.contiguous /\ ~gap
              begun == [walk EXCEPT !.drop = i, !.last = i, !.lastNonNull = i, !.seen = TRUE,
                                    !.ended = End(p), !.contiguous = TRUE, !.gap = -1, !.size = FALSE]
          IN  /\ Ts(p) # jb.headTs
              /\ \/ /\ whole /\ Filled(jb, walk.drop, before)
                    /\ Settle(Processed, TRUE, walk.drop, before, Ts(p))
                    /\ walk' = [begun EXCEPT !.hasStart = FALSE] /\ pc' = "bottom"
                 \/ /\ whole /\ ~Filled(jb, walk.drop, before)
                    /\ Leave
                 \/ /\ ~whole /\ walk.seen /\ walk.drop # i /\ Overdue
                    /\ Settle(Processed, FALSE, walk.drop, before, Ts(p))
                    /\ walk' = begun /\ pc' = "bottom"
                 \/ /\ ~whole /\ walk.seen /\ (walk.drop = i \/ ~Overdue)
                    /\ pc' = "last" /\ walk' = [walk EXCEPT !.lastNonNull = i] /\ UNCHANGED <<jb, out>>
                 \/ /\ ~whole /\ ~walk.seen
                    /\ jb' = [jb EXCEPT !.headTs = Ts(p)]
                    /\ walk' = begun /\ pc' = "bottom" /\ UNCHANGED out
    /\ UNCHANGED <<stream, kind, arrived, again>>

\* The rest of the loop's body: after the first frame a marker ends the frame at the head at once.
Count ==
    /\ pc = "bottom"
    /\ \E p \in Slot(jb, walk.index) :
          LET i == walk.index
              started == walk.hasStart \/ (p \in stream.starts /\ jb.headTs = Ts(p))
              whole == /\ jb.first \/ SinglePacket
                       /\ Ts(p) = jb.headTs /\ End(p) /\ started /\ walk.contiguous
          IN  \/ /\ whole /\ Filled(jb, walk.drop, i)
                 /\ Settle(Processed, TRUE, walk.drop, i, Ts(p))
                 /\ walk' = [walk EXCEPT !.size = FALSE, !.drop = (i + 1) % SeqMod, !.hasStart = started]
                 /\ pc' = "last"
              \/ whole /\ ~Filled(jb, walk.drop, i) /\ Leave
              \/ /\ ~whole /\ pc' = "top" /\ UNCHANGED <<jb, out>>
                 /\ walk' = [walk EXCEPT !.size = TRUE, !.hasStart = started, !.index = (i + 1) % SeqMod]
    /\ UNCHANGED <<stream, kind, arrived, again>>

\* After the loop: a buffer that is closed settles the frame that is left.
Last ==
    LET from == walk.drop
        to == walk.lastNonNull
    IN  /\ pc = "last" \/ (pc = "top" /\ walk.index = (jb.tailSeq + 1) % SeqMod)
        /\ IF walk.closed /\ walk.size /\ Slot(jb, from) # {}
           THEN Settle(jb, Filled(jb, from, to), from, to, jb.headTs) /\ Return(jb')
           ELSE Leave
        /\ UNCHANGED <<stream, kind, arrived, again>>

-----------------------------------------------------------------------------
(* defaultDestroy *)

defaultDestroy ==
    /\ pc = "idle" /\ UNCHANGED <<stream, kind, jb, arrived, again, out>>
    /\ IF jb.started THEN pc' = "top" /\ walk' = StartWalk(jb, TRUE)
       ELSE pc' = "free" /\ UNCHANGED walk

FreeAll ==
    /\ pc = "free" /\ pc' = "destroyed" /\ jb' = [jb EXCEPT !.table = {}]
    /\ UNCHANGED <<stream, kind, walk, arrived, again, out>>

-----------------------------------------------------------------------------
(* The network and the table of functions *)

jitterBufferPush(p) ==
    IF kind = "realtime" THEN rtPush(p) /\ UNCHANGED walk ELSE defaultPush(p)

Arrive(p) ==
    /\ p \notin arrived /\ p <= Highest + 1 + Reorder
    /\ arrived' = arrived \cup {p} /\ UNCHANGED <<kind, again>>
    /\ jitterBufferPush(p)

ArriveAgain(p) ==
    /\ p \in arrived /\ again < MaxAgain /\ again' = again + 1 /\ UNCHANGED <<kind, arrived>>
    /\ jitterBufferPush(p)

RealTimeStep == (Evict \/ Deliver \/ rtDestroy \/ Flush) /\ UNCHANGED <<kind, walk>>

Next ==
    \/ \E p \in Packets : Arrive(p) \/ ArriveAgain(p)
    \/ kind = "realtime" /\ RealTimeStep
    \/ kind = "default" /\ (Missing \/ OfHead \/ OfNext \/ Count \/ Last \/ defaultDestroy \/ FreeAll)

Spec == Init /\ [][Next]_allVars

-----------------------------------------------------------------------------
(* Properties *)

defaultTypeOK ==
    /\ jb.started \in BOOLEAN /\ jb.first \in BOOLEAN /\ jb.seqOver \in BOOLEAN /\ jb.tsOver \in BOOLEAN
    /\ jb.headSeq \in 0..SeqMod - 1 /\ jb.tailSeq \in 0..SeqMod - 1
    /\ jb.headTs \in 0..TsMod - 1 /\ jb.tailTs \in 0..TsMod - 1
    /\ jb.table \subseteq Packets
    /\ pc \in {"idle", "top", "bottom", "last", "free", "destroyed"}

\* All fields of either buffer keep their types; the ring of processed timestamps its size.
TypeOK ==
    /\ kind \in Kinds /\ walk.closed \in BOOLEAN
    /\ IF kind = "realtime" THEN rtTypeOK ELSE defaultTypeOK

\* A frame is only handed over whole: from a packet that looks like a start to the last packet the
\* sender sent for it, whichever of them were late, doubled or lost and whether or not there are
\* markers.  (The frames that are handed over when the buffer is freed may lack their end: there is
\* no later packet.)  onFrameReadyFunc fails when a packet is missing, so it never does.  The default
\* buffer does not keep to the start: see StartsWithStart.
WholeFrames ==
    pc \notin {"flush", "free", "destroyed"} /\ ~walk.closed =>
        \A i \in 1..Len(out) :
            out[i].ready => \E p \in out[i].packets :
                                /\ kind = "realtime" => p \in stream.starts
                                /\ out[i].packets = p..LastOf[FrameOf[p]]

\* The tail is the newest packet of the stream: the age of every other packet is measured from it.
\* In the real-time buffer also when the sequence number has wrapped around; in the default one a
\* late packet from before the wrap, of a frame that is settled, is taken for the new tail.
TailIsLatest ==
    (kind = "default" => stream.seq + Cardinality(Packets) <= SeqMod) =>
        (arrived # {} => jb.tailTs = Ts(Highest) /\ jb.tailSeq = Seq16(Highest))

\* What the buffer knows of itself is so: counts, the newest packet and the age of the oldest.
BufferConsistent ==
    /\ TailIsLatest
    /\ kind = "realtime" => EntriesMatchRing /\ NothingStale

\* The frame with timestamp t; the frames the real-time buffer has settled and the packets it holds,
\* as the promise has them (nothing is promised of the default one)
FrameAt(t) == CHOOSE f \in 1..NumFrames : TsOf(f) = t

Outcomes ==
    [i \in (IF kind = "realtime" THEN 1..Len(out) ELSE {}) |->
        [frame |-> FrameAt(out[i].ts), ready |-> out[i].ready, packets |-> out[i].packets]]

Held == IF kind = "realtime" THEN rtHeld ELSE {}

Promise == INSTANCE FrameDelivery WITH held <- Held, out <- Outcomes

\* The real-time buffer keeps the promise of a jitter buffer: of the frames it holds the oldest is
\* settled first, with exactly its own packets and without a hole when it is handed over, and no
\* packet is taken for a frame that is settled.  (The default one settles a frame twice when one of
\* its packets comes late or a second time.)
Refines == Promise!Spec

\* Frames are tracked independently by timestamp (Include.h, useRealTimeJitterBuffer): settling one
\* takes no packet of another.
FramesIndependent == \A i \in 1..Len(out) : \A p \in out[i].packets : Ts(p) = out[i].ts

\* A frame blocks those after it only until its time is over (Include.h, useRealTimeJitterBuffer):
\* between two calls no packet between head and tail is older than maxLatency.
BlockedNoLonger ==
    pc = "idle" /\ kind = "default" =>
        \A p \in jb.table :
            SeqSub(Seq16(p), jb.headSeq) <= SeqSub(jb.tailSeq, jb.headSeq) =>
                TsStep * (FrameOf[Highest] - FrameOf[p]) <= MaxLatency

\* A frame is handed over only with a packet that looks like its start (containStartForEarliestFrame).
StartsWithStart ==
    pc \notin {"flush", "free", "destroyed"} /\ ~walk.closed =>
        \A i \in 1..Len(out) : out[i].ready => out[i].packets \cap stream.starts # {}
=============================================================================
