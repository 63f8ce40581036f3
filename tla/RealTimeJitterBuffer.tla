------------------------ MODULE RealTimeJitterBuffer ------------------------
(***************************************************************************)
(* PeerConnection/RealTimeJitterBuffer.c: packets of a stream arrive late,  *)
(* twice, out of order or not at all; frames are put together by timestamp, *)
(* recognised as complete by their markers or by the packets around them,   *)
(* handed over or given up.  Sequence numbers and timestamps wrap around.   *)
(*                                                                         *)
(* One call of rtPush is three kinds of steps: the packet is placed, stale  *)
(* frames are given up one by one, complete frames are handed over one by   *)
(* one (each of them a callback).  No other call comes in between: the      *)
(* buffer belongs to the thread that receives.  JitterBuffer.tla brings the *)
(* network and the choice between this buffer and the default one.          *)
(***************************************************************************)
EXTENDS Integers, Sequences, FiniteSets, FiniteSetsExt

CONSTANTS
    Sizes,          \* the stream: number of packets of each frame
    Streams,        \* the streams: first sequence number and timestamp, whether the sender sets markers,
                    \* and the packets in which the depayloader sees the start of a frame
    TsStep,         \* timestamps from one frame to the next
    SeqMod, TsMod,  \* 2^16 and 2^32
    RingSize,       \* RT_PKT_RING_SIZE
    ProcessedSize,  \* RT_PROCESSED_TS_RING_SIZE
    Near,           \* 512: distance within which sequence numbers count as neighbours
    Span,           \* 1000: the longest run a fence scan looks at
    MaxLatency,     \* maxLatency, in units of the timestamp
    SinglePacket    \* alwaysSinglePacketFrames

NumFrames == Len(Sizes)

\* the number of the last packet of frame f
LastOf[f \in 0..NumFrames] == IF f = 0 THEN 0 ELSE LastOf[f - 1] + Sizes[f]

Packets == 1..LastOf[NumFrames]
FrameOf == [p \in Packets |-> CHOOSE f \in 1..NumFrames : LastOf[f - 1] < p /\ p <= LastOf[f]]

ASSUME JitterAssumption ==
    /\ Sizes \in Seq(Nat \ {0})
    /\ Streams \subseteq [seq : 0..SeqMod - 1, ts : 0..TsMod - 1, markers : BOOLEAN,
                       starts : SUBSET Packets]
    /\ TsStep \in Nat \ {0}
    /\ SeqMod \in Nat \ {0} /\ TsMod \in Nat \ {0}
    /\ RingSize \in Nat \ {0} /\ SeqMod % RingSize = 0
    /\ ProcessedSize \in Nat \ {0} /\ Near \in Nat /\ Span \in Nat /\ MaxLatency \in Nat
    /\ SinglePacket \in BOOLEAN

VARIABLES
    stream,    \* the stream that is received
    jb,        \* the RealTimeJitterBufferInternal
    pc,        \* where rtPush or rtDestroy is
    arrived,   \* packets that have arrived
    again,     \* number of packets that arrived a second time
    out        \* the frames handed over and given up so far

vars == <<stream, jb, pc, arrived, again, out>>

Seq16(p) == (stream.seq + p - 1) % SeqMod
TsOf(f) == (stream.ts + TsStep * (f - 1)) % TsMod
Ts(p) == TsOf(FrameOf[p])
Marker(p) == stream.markers /\ p = LastOf[FrameOf[p]]

\* the packet sent last of those that have arrived
Highest == IF arrived = {} THEN 0 ELSE Max(arrived)

\* createRealTimeJitterBuffer
rtInit ==
    /\ jb = [started |-> FALSE, seqOver |-> FALSE, tsOver |-> FALSE, delivered |-> FALSE,
             headSeq |-> SeqMod - 1, tailSeq |-> SeqMod - 1, headTs |-> TsMod - 1, tailTs |-> 0,
             ring |-> [i \in 0..RingSize - 1 |-> 0], processed |-> <<>>, frames |-> <<>>]

-----------------------------------------------------------------------------
(* Order and distance *)

\* UINT16 arithmetic
SeqSub(a, b) == (a - b) % SeqMod

\* rtTimestampCompare(x, y) > 0
Newer(b, x, y) ==
    LET wrapped(t) == b.tsOver /\ t < b.headTs
    IN  IF wrapped(x) # wrapped(y) THEN wrapped(x) ELSE x > y

rtTimestampAge(b, t) ==
    CASE b.tsOver /\ (t < b.headTs) # (b.tailTs < b.headTs) -> (b.tailTs - t) % TsMod
      [] ~(b.tsOver /\ (t < b.headTs) # (b.tailTs < b.headTs)) ->
            IF b.tailTs >= t THEN b.tailTs - t ELSE 0

\* the packet with sequence number s, or 0
At(b, s) == LET p == b.ring[s % RingSize] IN IF p # 0 /\ Seq16(p) = s THEN p ELSE 0

InRange(b, e) == {At(b, (e.first + k) % SeqMod) : k \in 0..SeqSub(e.last, e.first)} \ {0}

\* mutant: a frame with a start and an end is taken for complete
CompleteWithoutCount(e) == IF SinglePacket THEN e.count > 0 ELSE e.start /\ e.end

rtFrameIsComplete(e) ==
    IF SinglePacket THEN e.count > 0
    ELSE e.start /\ e.end /\ e.count = SeqSub(e.last + 1, e.first)

rtFindEarliestFrame(b) ==
    CHOOSE t \in DOMAIN b.frames : \A u \in DOMAIN b.frames : ~Newer(b, t, u)

\* the timestamps of the frames after t, and the sequence number the first of them begins at
Later(b, t) == {u \in DOMAIN b.frames : Newer(b, u, t)}

rtFindNextFrameFence(b, t) ==
    b.frames[CHOOSE u \in Later(b, t) : \A v \in Later(b, t) : ~Newer(b, u, v)].first

\* rtFenceScan and rtTryMarkFrameComplete: all packets from the start of the frame to the fence
\* are there, and they are the frame's
rtTryMarkFrameComplete(b, t, fence) ==
    LET e == b.frames[t]
        n == SeqSub(fence, e.first)
        here(k) == At(b, (e.first + k) % SeqMod)
        stops == {k \in 0..n - 1 : here(k) = 0 \/ Ts(here(k)) # t}
        present == IF stops = {} THEN n ELSE Min(stops)
        gap == stops # {} /\ here(present) = 0
    IN  IF n \in 1..Span /\ ~gap /\ present = e.count
        THEN [e EXCEPT !.end = TRUE, !.last = (fence - 1) % SeqMod]
        ELSE e

\* rtUpdateHead
rtUpdateHead(b) ==
    IF DOMAIN b.frames = {}
    THEN [b EXCEPT !.headTs = b.tailTs, !.headSeq = b.tailSeq, !.tsOver = FALSE, !.seqOver = FALSE]
    ELSE LET t == rtFindEarliestFrame(b)
             s == b.frames[t].first
         IN  [b EXCEPT !.headTs = t, !.headSeq = s,
                       !.tsOver = @ /\ t > b.tailTs, !.seqOver = @ /\ s > b.tailSeq]

Without(f, t) == [u \in DOMAIN f \ {t} |-> f[u]]

\* rtFreePacketsInRange and rtRemoveFrame
Removed(b, t) ==
    [b EXCEPT !.ring = [i \in DOMAIN @ |-> IF @[i] \in InRange(b, b.frames[t]) THEN 0 ELSE @[i]],
              !.frames = Without(@, t)]

\* mutant: the ring of processed timestamps is not bounded
MarkProcessedUnbounded(b, t) == [b EXCEPT !.processed = Append(@, t)]

\* rtMarkTimestampProcessed
rtMarkTimestampProcessed(b, t) ==
    LET s == Append(b.processed, t)
    IN  [b EXCEPT !.processed = IF Len(s) > ProcessedSize THEN Tail(s) ELSE s]

-----------------------------------------------------------------------------
(* rtPush *)

Bootstrap(b, p) ==
    IF b.started THEN b
    ELSE [b EXCEPT !.started = TRUE, !.headSeq = Seq16(p), !.tailSeq = Seq16(p),
                   !.headTs = Ts(p), !.tailTs = Ts(p)]

\* sequence number overflow and underflow, then the tail
TrackSequence(b, p) ==
    LET s == Seq16(p)
        left == SeqMod - 1 - b.tailSeq
        over == ~b.seqOver /\ left <= Near /\ s < b.tailSeq /\ s <= Near - left
        under == /\ ~b.seqOver /\ ~over
                 /\ b.headSeq < Near /\ s >= SeqMod - 1 - Near /\ s > b.tailSeq
        c == [b EXCEPT !.seqOver = @ \/ over \/ under,
                       !.tailSeq = IF over THEN s ELSE @, !.headSeq = IF under THEN s ELSE @]
        ahead == IF c.seqOver THEN SeqSub(s, c.tailSeq) \in 1..Near - 1 ELSE s > c.tailSeq
    IN  [c EXCEPT !.tailSeq = IF ahead THEN s ELSE @]

\* timestamp overflow and underflow, then the tail
TrackTimestamp(b, p) ==
    LET t == Ts(p)
        behind == b.tailTs > t /\ t < b.headTs
        over == ~b.tsOver /\ behind /\ Seq16(p) = b.tailSeq
        under == /\ ~b.tsOver /\ ~behind /\ t > b.headTs /\ t > b.tailTs
                 /\ SeqSub(b.headSeq, Seq16(p)) \in 1..Near - 1
        c == [b EXCEPT !.tsOver = @ \/ over \/ under, !.tailTs = IF over THEN t ELSE @,
                       !.headTs = IF under THEN t ELSE @, !.headSeq = IF under THEN Seq16(p) ELSE @]
    IN  [c EXCEPT !.tailTs = IF Newer(c, t, @) THEN t ELSE @]

Store(b, p) == [b EXCEPT !.ring = [@ EXCEPT ![Seq16(p) % RingSize] = p]]

\* marks the frames of the set older with the fence
MarkOlder(b, older, fence) ==
    [b EXCEPT !.frames =
        [u \in DOMAIN @ |-> IF u \in older THEN rtTryMarkFrameComplete(b, u, fence) ELSE @[u]]]

\* a packet with a new timestamp: a frame entry, and a fence for the frames before it
NewFrame(b, p) ==
    LET t == Ts(p)
        s == Seq16(p)
        head == Newer(b, b.headTs, t)
        c == [b EXCEPT !.frames = [u \in DOMAIN @ \cup {t} |->
                          IF u = t THEN [first |-> s, last |-> s, count |-> 0, start |-> FALSE, end |-> FALSE]
                          ELSE @[u]],
                       !.headTs = IF head THEN t ELSE @, !.headSeq = IF head THEN s ELSE @]
    IN  MarkOlder(c, {u \in DOMAIN b.frames : ~b.frames[u].end /\ Newer(c, t, u)}, s)

\* the packet is counted and the frame's range and flags are brought up to date
AddToFrame(b, p) ==
    LET s == Seq16(p)
        e == b.frames[Ts(p)]
        outside == SeqSub(s, e.first) > SeqSub(e.last, e.first)
        before == SeqSub(e.first, s) < SeqSub(s, e.last)
        f == [first |-> IF outside /\ before THEN s ELSE e.first,
              last |-> IF outside /\ ~before THEN s ELSE e.last,
              count |-> e.count + 1,
              start |-> e.start \/ p \in stream.starts, end |-> e.end \/ Marker(p)]
    IN  [b EXCEPT !.frames = [@ EXCEPT ![Ts(p)] = f]]

\* late packets: this frame may be complete, and so may the ones before it
Reevaluate(b, p) ==
    LET t == Ts(p)
        e == b.frames[t]
        c == IF ~e.end /\ e.start /\ Later(b, t) # {}
             THEN MarkOlder(b, {t}, rtFindNextFrameFence(b, t)) ELSE b
        older == {u \in DOMAIN c.frames : /\ ~c.frames[u].end /\ Newer(c, t, u)
                                          /\ rtFindNextFrameFence(c, u) = c.frames[t].first}
        d == MarkOlder(c, older, c.frames[t].first)
    IN  [d EXCEPT !.headSeq = IF t = d.headTs /\ SeqSub(@, Seq16(p)) \in 1..Near - 1 THEN Seq16(p) ELSE @]

Place(b, p) ==
    LET new == Ts(p) \notin DOMAIN b.frames
    IN  Reevaluate(AddToFrame(IF new THEN NewFrame(Store(b, p), p) ELSE Store(b, p), p), p)

\* mutant: packets of frames that are settled are taken
DiscardedForgetful(b, p) == rtTimestampAge(b, Ts(p)) > MaxLatency \/ At(b, Seq16(p)) # 0

\* the packet is too old, already there (the new copy replaces it), or its frame is settled
Discarded(b, p) ==
    \/ rtTimestampAge(b, Ts(p)) > MaxLatency
    \/ At(b, Seq16(p)) # 0
    \/ /\ Ts(p) \notin DOMAIN b.frames
       /\ \E i \in 1..Len(b.processed) : b.processed[i] = Ts(p)

rtPush(p) ==
    LET b == TrackTimestamp(TrackSequence(Bootstrap(jb, p), p), p)
    IN  /\ pc = "idle"
        /\ jb' = IF Discarded(b, p) THEN b ELSE Place(b, p)
        /\ pc' = "evict"
        /\ UNCHANGED <<stream, out>>

Output(b, t, ready) ==
    out' = Append(out, [ts |-> t, ready |-> ready, packets |-> InRange(b, b.frames[t])])

\* mutant: only a frame whose start is missing is given up
EvictHeadless ==
    LET t == rtFindEarliestFrame(jb) IN
    /\ pc = "evict"
    /\ IF /\ DOMAIN jb.frames # {}
          /\ rtTimestampAge(jb, t) > MaxLatency /\ ~jb.frames[t].start
       THEN /\ jb' = rtUpdateHead([Removed(rtMarkTimestampProcessed(jb, t), t) EXCEPT !.delivered = TRUE])
            /\ Output(jb, t, FALSE)
            /\ UNCHANGED pc
       ELSE pc' = "deliver" /\ UNCHANGED <<jb, out>>
    /\ UNCHANGED <<stream, arrived, again>>

\* the oldest frame is given up when it is too old and incomplete
Evict ==
    LET t == rtFindEarliestFrame(jb) IN
    /\ pc = "evict"
    /\ IF /\ DOMAIN jb.frames # {}
          /\ rtTimestampAge(jb, t) > MaxLatency /\ ~rtFrameIsComplete(jb.frames[t])
       THEN /\ jb' = rtUpdateHead([Removed(rtMarkTimestampProcessed(jb, t), t) EXCEPT !.delivered = TRUE])
            /\ Output(jb, t, FALSE)
            /\ UNCHANGED pc
       ELSE pc' = "deliver" /\ UNCHANGED <<jb, out>>
    /\ UNCHANGED <<stream, arrived, again>>

\* The oldest frame is handed over when it is complete.  The very first one waits for a second
\* frame, since what looks complete may be a part of it.
Deliver ==
    LET t == rtFindEarliestFrame(jb) IN
    /\ pc = "deliver"
    /\ IF /\ DOMAIN jb.frames # {}
          /\ rtFrameIsComplete(jb.frames[t])
          /\ jb.delivered \/ SinglePacket \/ Cardinality(DOMAIN jb.frames) > 1
       THEN /\ jb' = rtUpdateHead([Removed(rtMarkTimestampProcessed(jb, t), t) EXCEPT !.delivered = TRUE])
            /\ Output(jb, t, TRUE)
            /\ UNCHANGED pc
       ELSE pc' = "idle" /\ UNCHANGED <<jb, out>>
    /\ UNCHANGED <<stream, arrived, again>>

-----------------------------------------------------------------------------
(* rtDestroy *)

\* frames without an end: the next frame is the fence; the last one ends where its packets end
Ended(b, t) ==
    LET e == b.frames[t] IN
    CASE e.end -> e
      [] ~e.end /\ Later(b, t) # {} -> rtTryMarkFrameComplete(b, t, rtFindNextFrameFence(b, t))
      [] OTHER -> [e EXCEPT !.end = (e.count = SeqSub(e.last + 1, e.first))]

rtDestroy ==
    /\ pc = "idle" /\ pc' = "flush"
    /\ jb' = [jb EXCEPT !.frames = [t \in DOMAIN @ |-> Ended(jb, t)]]
    /\ UNCHANGED <<stream, arrived, again, out>>

Flush ==
    LET t == rtFindEarliestFrame(jb) IN
    /\ pc = "flush"
    /\ IF DOMAIN jb.frames = {} THEN pc' = "destroyed" /\ UNCHANGED <<jb, out>>
       ELSE /\ Output(jb, t, rtFrameIsComplete(jb.frames[t]))
            /\ jb' = Removed(jb, t)
            /\ UNCHANGED pc
    /\ UNCHANGED <<stream, arrived, again>>

-----------------------------------------------------------------------------
(* Properties *)

\* All fields of the buffer keep their types; the ring of processed timestamps its size.
rtTypeOK ==
    /\ jb.started \in BOOLEAN /\ jb.seqOver \in BOOLEAN /\ jb.tsOver \in BOOLEAN /\ jb.delivered \in BOOLEAN
    /\ jb.headSeq \in 0..SeqMod - 1 /\ jb.tailSeq \in 0..SeqMod - 1
    /\ jb.headTs \in 0..TsMod - 1 /\ jb.tailTs \in 0..TsMod - 1
    /\ jb.ring \in [0..RingSize - 1 -> Packets \cup {0}]
    /\ Len(jb.processed) <= ProcessedSize
    /\ DOMAIN jb.frames \subseteq 0..TsMod - 1
    /\ pc \in {"idle", "evict", "deliver", "flush", "destroyed"}

rtHeld == {p \in Packets : At(jb, Seq16(p)) = p}

\* The packet counts that decide completeness are exact: a frame entry counts the packets of its
\* timestamp that are in the ring, and no packet in the ring is without a frame entry, although
\* packets are replaced, freed by range and found by ring slot.
EntriesMatchRing ==
    /\ \A t \in DOMAIN jb.frames : jb.frames[t].count = Cardinality({p \in rtHeld : Ts(p) = t})
    /\ \A i \in DOMAIN jb.ring : jb.ring[i] # 0 => Ts(jb.ring[i]) \in DOMAIN jb.frames

\* Between two calls no packet in the buffer is older than the latency the application chose: a
\* frame that is not complete by then has been given up.
NothingStale ==
    pc = "idle" => \A p \in rtHeld : TsStep * (FrameOf[Highest] - FrameOf[p]) <= MaxLatency
=============================================================================
