------------------------- MODULE JitterBufferProofs -------------------------
(***************************************************************************)
(* Proofs about the jitter buffers, for every stream: both buffers keep     *)
(* their types, and what follows from the promise of a jitter buffer.       *)
(***************************************************************************)
EXTENDS JitterBuffer, WellFoundedInduction, TLAPS

-----------------------------------------------------------------------------
(* The promise                                                              *)

Frames == {FrameOf[p] : p \in Packets}

Outcome == [frame : Frames, ready : BOOLEAN, packets : SUBSET Packets]

\* the inductive invariant: SettledOnce needs no more than the types
PromiseInv == Held \in SUBSET Packets /\ Outcomes \in Seq(Outcome) /\ Promise!SettledOnce

\* What is appended is the last element, and the elements before it stay as they are.
LEMMA Appended ==
  ASSUME NEW S, NEW s \in Seq(S), NEW e \in S
  PROVE  /\ Append(s, e) \in Seq(S) /\ Len(Append(s, e)) = Len(s) + 1
         /\ Append(s, e)[Len(s) + 1] = e
         /\ \A i \in 1..Len(s) : Append(s, e)[i] = s[i]
  OBVIOUS

\* A packet is accepted only for a frame that is not settled.
LEMMA AcceptInv ==
  ASSUME PromiseInv, NEW p \in Packets, Promise!Accept(p)
  PROVE  PromiseInv'
  <1>1. Held' \in SUBSET Packets /\ Outcomes' = Outcomes
    BY DEF PromiseInv, Promise!Accept
  <1>2. Promise!Settled' = Promise!Settled
    BY <1>1 DEF Promise!Settled
  <1>3. \A q \in Held' : FrameOf[q] \notin Promise!Settled'
    BY <1>2 DEF PromiseInv, Promise!SettledOnce, Promise!Accept
  <1> QED
    BY <1>1, <1>3 DEF PromiseInv, Promise!SettledOnce

\* Settling takes every packet of the frame and adds it to those that are settled.
LEMMA SettleInv ==
  ASSUME PromiseInv, NEW p \in Packets, NEW ready \in BOOLEAN, Promise!Settle(FrameOf[p], ready)
  PROVE  PromiseInv'
  <1> DEFINE f == FrameOf[p]
             e == [frame |-> f, ready |-> ready, packets |-> Promise!Part(f)]
  <1>1. e \in Outcome
    BY DEF PromiseInv, Outcome, Frames, Promise!Part
  <1>2. Outcomes' = Append(Outcomes, e) /\ Held' = Held \ Promise!Part(f)
    BY DEF Promise!Settle
  <1>3. Outcomes \in Seq(Outcome) /\ Len(Outcomes) \in Nat
    BY DEF PromiseInv
  <1> HIDE DEF e
  <1>4. /\ Outcomes' \in Seq(Outcome) /\ Len(Outcomes') = Len(Outcomes) + 1
        /\ Outcomes'[Len(Outcomes) + 1] = e
        /\ \A i \in 1..Len(Outcomes) : Outcomes'[i] = Outcomes[i]
    BY <1>1, <1>2, <1>3, Appended
  <1>5. e.frame = f
    BY DEF e
  <1>6. f \notin Promise!Settled
    BY DEF Promise!Settle, Promise!Part, PromiseInv, Promise!SettledOnce
  <1>7. \A i \in 1..Len(Outcomes) : Outcomes[i].frame # f
    BY <1>6 DEF Promise!Settled
  <1>8. \A i, j \in 1..Len(Outcomes') : Outcomes'[i].frame = Outcomes'[j].frame => i = j
    BY <1>3, <1>4, <1>5, <1>7 DEF PromiseInv, Promise!SettledOnce
  <1>9. \A g \in Promise!Settled' : g = f \/ g \in Promise!Settled
    BY <1>3, <1>4, <1>5 DEF Promise!Settled
  <1>10. \A q \in Held' : FrameOf[q] \notin Promise!Settled'
    BY <1>2, <1>9 DEF PromiseInv, Promise!SettledOnce, Promise!Part
  <1> QED
    BY <1>2, <1>4, <1>8, <1>10 DEF PromiseInv, Promise!SettledOnce

\* Whatever the stream, a buffer that keeps the promise (Refines, which the real-time jitter buffer
\* is checked to do) settles a frame at most once and holds nothing of a frame that is settled.
THEOREM FramesSettledOnce == Refines => []Promise!SettledOnce
  <1>1. Promise!Init => PromiseInv
    BY DEF Promise!Init, PromiseInv, Promise!SettledOnce, Promise!Settled
  <1>2. PromiseInv /\ [Promise!Next]_<<Held, Outcomes>> => PromiseInv'
    <2> SUFFICES ASSUME PromiseInv, [Promise!Next]_<<Held, Outcomes>> PROVE PromiseInv'
      OBVIOUS
    <2>1. CASE \E p \in Packets : Promise!Accept(p)
      BY <2>1, AcceptInv
    <2>2. CASE \E p \in Packets, ready \in BOOLEAN : Promise!Settle(FrameOf[p], ready)
      BY <2>2, SettleInv
    <2>3. CASE UNCHANGED <<Held, Outcomes>>
      BY <2>3 DEF PromiseInv, Promise!SettledOnce, Promise!Settled
    <2> QED
      BY <2>1, <2>2, <2>3 DEF Promise!Next
  <1>3. PromiseInv => Promise!SettledOnce
    BY DEF PromiseInv
  <1> QED
    BY <1>1, <1>2, <1>3, PTL DEF Refines, Promise!Spec

-----------------------------------------------------------------------------
(* The stream                                                               *)

SeqNo == 0..SeqMod - 1
Stamp == 0..TsMod - 1

LEMMA LeastNumber ==
  ASSUME NEW T \in SUBSET Nat, T # {}
  PROVE  \E m \in T : \A y \in T : m <= y
  <1> DEFINE R == {ss \in Nat \X Nat : ss[1] < ss[2]}
  <1>1. IsWellFoundedOn(R, Nat)
    BY NatLessThanWellFounded, Zenon DEF OpToRel
  <1> HIDE DEF R
  <1>2. PICK m \in T : \A y \in T : ~(<<y, m>> \in R)
    BY <1>1, WFMin
  <1>3. \A y \in T : ~(y < m)
    BY <1>2 DEF R
  <1> QED BY <1>3

\* Induction up to a number.
LEMMA InductionUpTo ==
  ASSUME NEW N \in Nat, NEW T, 0 \in T, \A n \in 0..N : n \in T /\ n < N => n + 1 \in T
  PROVE  \A n \in 0..N : n \in T
  <1> DEFINE Rest == {n \in 0..N : n \notin T}
  <1> SUFFICES ASSUME Rest # {} PROVE FALSE
    OBVIOUS
  <1>1. Rest \in SUBSET Nat
    OBVIOUS
  <1>2. PICK m \in Rest : \A y \in Rest : m <= y
    BY <1>1, LeastNumber
  <1>3. m # 0 /\ m - 1 \in 0..N /\ m - 1 < N /\ m - 1 \notin Rest
    BY <1>2
  <1> QED BY <1>2, <1>3

\* The numbers of the last packets are numbers: the recursion that defines them has a solution.
LEMMA LastOfIs == LastOf \in [0..NumFrames -> Nat] /\ LastOf[0] = 0
  <1> DEFINE N == NumFrames
             Step(g, n) == \A f \in 0..n : g[f] = IF f = 0 THEN 0 ELSE g[f - 1] + Sizes[f]
             T == {n \in 0..N : \E g \in [0..n -> Nat] : Step(g, n)}
  <1>1. N \in Nat /\ \A f \in 1..N : Sizes[f] \in Nat
    BY JitterAssumption DEF NumFrames
  <1> HIDE DEF N
  <1>2. \A n \in 0..N : n \in T
    <2>1. 0 \in T
      <3>1. PICK g : g = [i \in 0..0 |-> 0]
        OBVIOUS
      <3>2. g \in [0..0 -> Nat] /\ Step(g, 0)
        BY <3>1
      <3> HIDE DEF Step
      <3>3. \E k \in [0..0 -> Nat] : Step(k, 0)
        BY <3>2
      <3>4. 0 \in 0..N
        BY <1>1
      <3> QED BY <3>3, <3>4
    <2>2. ASSUME NEW n \in 0..N, n \in T, n < N PROVE n + 1 \in T
      <3>1. PICK g \in [0..n -> Nat] : Step(g, n)
        BY <2>2
      <3> DEFINE h == [f \in 0..n + 1 |-> IF f = n + 1 THEN g[n] + Sizes[n + 1] ELSE g[f]]
      <3>2. n + 1 \in 1..N /\ n + 1 \in 0..N /\ n \in Nat
        BY <1>1, <2>2
      <3>3. h \in [0..n + 1 -> Nat]
        BY <1>1, <3>2
      <3>4. ASSUME NEW f \in 0..n + 1 PROVE h[f] = IF f = 0 THEN 0 ELSE h[f - 1] + Sizes[f]
        <4>1. CASE f = n + 1
          BY <3>2, <4>1
        <4>2. CASE f # n + 1
          BY <3>1, <3>2, <4>2
        <4> QED BY <4>1, <4>2
      <3> QED BY <3>2, <3>3, <3>4
    <2> HIDE DEF T
    <2> QED BY <1>1, <2>1, <2>2, InductionUpTo
  <1>3. PICK g \in [0..N -> Nat] : Step(g, N)
    <2>1. N \in 0..N
      BY <1>1
    <2> HIDE DEF Step
    <2> QED BY <1>2, <2>1
  <1>4. g = [f \in 0..N |-> IF f = 0 THEN 0 ELSE g[f - 1] + Sizes[f]]
    BY <1>3
  <1>5. LastOf = [f \in 0..N |-> IF f = 0 THEN 0 ELSE LastOf[f - 1] + Sizes[f]]
    BY <1>4 DEF LastOf, N
  <1>6. \A f \in 0..N : LastOf[f] = IF f = 0 THEN 0 ELSE LastOf[f - 1] + Sizes[f]
    BY <1>5
  <1> DEFINE V == {n \in 0..N : LastOf[n] \in Nat}
  <1>7. \A n \in 0..N : n \in V
    <2>1. 0 \in V
      BY <1>1, <1>6
    <2>2. ASSUME NEW n \in 0..N, n \in V, n < N PROVE n + 1 \in V
      <3>1. n + 1 \in 1..N /\ n + 1 \in 0..N /\ n + 1 # 0 /\ n + 1 - 1 = n
        BY <1>1, <2>2
      <3>2. LastOf[n + 1] = LastOf[n] + Sizes[n + 1]
        BY <1>6, <3>1
      <3> QED BY <1>1, <2>2, <3>1, <3>2
    <2> HIDE DEF V
    <2> QED BY <1>1, <2>1, <2>2, InductionUpTo
  <1>8. \A n \in 0..N : LastOf[n] \in Nat
    BY <1>7
  <1>9. DOMAIN LastOf = 0..N /\ LastOf = [f \in 0..N |-> LastOf[f]]
    BY <1>5, <1>6
  <1>10. LastOf \in [0..N -> Nat]
    BY <1>8, <1>9
  <1> QED BY <1>1, <1>6, <1>10 DEF N

\* Every packet is part of a frame.
LEMMA FrameOfIs ==
  ASSUME NEW p \in Packets
  PROVE  FrameOf[p] \in 1..NumFrames
  <1> DEFINE N == NumFrames
             T == {f \in 0..N : p <= LastOf[f]}
  <1>1. N \in Nat /\ \A f \in 0..N : LastOf[f] \in Nat
    BY LastOfIs, JitterAssumption DEF NumFrames
  <1>2. LastOf[0] = 0 /\ p \in 1..LastOf[N]
    BY LastOfIs DEF Packets
  <1> HIDE DEF N
  <1>3. T \in SUBSET Nat /\ N \in T
    BY <1>1, <1>2
  <1>4. PICK f \in T : \A g \in T : f <= g
    <2> HIDE DEF T
    <2> QED BY <1>3, LeastNumber
  <1>5. f # 0 /\ f \in 1..N /\ f - 1 \in 0..N /\ p \in Nat
    BY <1>1, <1>2, <1>4
  <1>6. f - 1 \notin T
    BY <1>3, <1>4, <1>5
  <1>7. LastOf[f - 1] < p /\ p <= LastOf[f]
    BY <1>1, <1>4, <1>5, <1>6
  <1>8. FrameOf[p] = CHOOSE g \in 1..N : LastOf[g - 1] < p /\ p <= LastOf[g]
    BY DEF FrameOf, N
  <1> QED BY <1>5, <1>7, <1>8 DEF N

LEMMA StreamIs ==
  ASSUME stream \in Streams, NEW p \in Packets
  PROVE  Seq16(p) \in SeqNo /\ Ts(p) \in Stamp /\ Marker(p) \in BOOLEAN
  <1>1. /\ stream.seq \in Int /\ stream.ts \in Int /\ stream.markers \in BOOLEAN
        /\ SeqMod \in Nat \ {0} /\ TsMod \in Nat \ {0} /\ TsStep \in Int
    BY JitterAssumption
  <1>2. p \in Int /\ FrameOf[p] \in Int
    <2>1. LastOf[NumFrames] \in Nat
      BY SMTT(60), LastOfIs, JitterAssumption DEF NumFrames
    <2> QED BY <2>1, FrameOfIs, JitterAssumption DEF Packets, NumFrames
  <1>3. (stream.seq + p - 1) % SeqMod \in SeqNo
    <2> DEFINE x == stream.seq + p - 1
    <2>1. x \in Int
      BY <1>1, <1>2
    <2> HIDE DEF x
    <2>2. x % SeqMod \in SeqNo
      BY <1>1, <2>1 DEF SeqNo
    <2> QED BY <2>2 DEF x
  <1>4. (stream.ts + TsStep * (FrameOf[p] - 1)) % TsMod \in Stamp
    <2> DEFINE f == FrameOf[p] - 1
               y == TsStep * f
    <2>1. f \in Int
      BY <1>2
    <2> HIDE DEF f
    <2>2. y \in Int
      BY <1>1, <2>1
    <2> HIDE DEF y
    <2> DEFINE x == stream.ts + y
    <2>3. x \in Int
      BY <1>1, <2>2
    <2> HIDE DEF x
    <2>4. x % TsMod \in Stamp
      BY <1>1, <2>3 DEF Stamp
    <2> QED BY <2>4 DEF x, y, f
  <1>5. Marker(p) \in BOOLEAN
    BY Zenon DEF Marker
  <1> QED BY <1>3, <1>4, <1>5 DEF Seq16, Ts, TsOf

-----------------------------------------------------------------------------
(* The default buffer                                                       *)

DefaultBuffer ==
  [started : BOOLEAN, first : BOOLEAN, seqOver : BOOLEAN, tsOver : BOOLEAN, headSeq : SeqNo,
   tailSeq : SeqNo, headTs : Stamp, tailTs : Stamp, table : SUBSET Packets]

\* the fields of jitterBufferInternalParse while it walks
Walking ==
  [closed : BOOLEAN, from : SeqNo, index : SeqNo, drop : SeqNo, gap : Int, contiguous : BOOLEAN,
   seen : BOOLEAN, ended : BOOLEAN, last : SeqNo, lastNonNull : SeqNo, hasStart : BOOLEAN,
   size : BOOLEAN]

DefaultInv ==
  /\ jb \in DefaultBuffer
  /\ pc \in {"idle", "top", "bottom", "last", "free", "destroyed"}
  /\ IF pc \in {"top", "bottom", "last"} THEN walk \in Walking ELSE walk = NoWalk

LEMMA ModIs ==
  ASSUME NEW M \in Nat \ {0}, NEW x \in Int
  PROVE  x % M \in 0..M - 1
  OBVIOUS

LEMMA SpaceIs ==
  /\ SeqMod \in Nat \ {0} /\ TsMod \in Nat \ {0} /\ 0 \in SeqNo /\ 0 \in Stamp
  /\ SeqMod - 1 \in SeqNo /\ TsMod - 1 \in Stamp
  BY JitterAssumption DEF SeqNo, Stamp

LEMMA HeadTail ==
  ASSUME NEW b \in DefaultBuffer, NEW p \in Packets, stream \in Streams
  PROVE  WithHead(b, p) \in DefaultBuffer /\ WithTail(b, p) \in DefaultBuffer
  BY StreamIs DEF WithHead, WithTail, DefaultBuffer

LEMMA EnterSequenceIs ==
  ASSUME NEW b \in DefaultBuffer, NEW p \in Packets, stream \in Streams
  PROVE  EnterSequence(b, p) \in DefaultBuffer
  <1>1. WithTail(b, p) \in DefaultBuffer /\ Seq16(p) \in SeqNo /\ Ts(p) \in Stamp
    BY HeadTail, StreamIs
  <1>2. /\ [b EXCEPT !.seqOver = TRUE, !.tailSeq = Seq16(p), !.tailTs = Ts(p)] \in DefaultBuffer
        /\ [b EXCEPT !.seqOver = TRUE, !.headSeq = Seq16(p), !.headTs = Ts(p)] \in DefaultBuffer
    BY <1>1 DEF DefaultBuffer
  <1> QED BY <1>1, <1>2 DEF EnterSequence

LEMMA TailTimestampIs ==
  ASSUME NEW b \in DefaultBuffer, NEW p \in Packets, stream \in Streams
  PROVE  tailTimestampCheck(b, p) \in DefaultBuffer
  <1>1. WithTail(b, p) \in DefaultBuffer /\ Ts(p) \in Stamp
    BY HeadTail, StreamIs
  <1>2. \A c \in DefaultBuffer : \A t \in Stamp : [c EXCEPT !.tailTs = t] \in DefaultBuffer /\ c.tailTs \in Stamp
    BY DEF DefaultBuffer
  <1> QED BY <1>1, <1>2 DEF tailTimestampCheck

LEMMA EnterTimestampIs ==
  ASSUME NEW b \in DefaultBuffer, NEW p \in Packets, stream \in Streams
  PROVE  EnterTimestamp(b, p) \in DefaultBuffer
  <1>1. /\ WithTail(b, p) \in DefaultBuffer /\ WithHead(b, p) \in DefaultBuffer /\ Ts(p) \in Stamp
        /\ tailTimestampCheck(b, p) \in DefaultBuffer
    BY HeadTail, TailTimestampIs, StreamIs
  <1>2. \A c \in DefaultBuffer : \A t \in Stamp :
          /\ [c EXCEPT !.tsOver = TRUE, !.tailTs = t] \in DefaultBuffer
          /\ [c EXCEPT !.tsOver = TRUE, !.headTs = t] \in DefaultBuffer
    BY DEF DefaultBuffer
  <1> QED BY <1>1, <1>2 DEF EnterTimestamp

LEMMA EnterHeadIs ==
  ASSUME NEW b \in DefaultBuffer, NEW p \in Packets, stream \in Streams
  PROVE  EnterHead(b, p) \in DefaultBuffer
  <1>1. WithHead(b, p) \in DefaultBuffer /\ Ts(p) \in Stamp
    BY HeadTail, StreamIs
  <1>2. \A c \in DefaultBuffer : WithHead(c, p) \in DefaultBuffer
    BY HeadTail
  <1>3. \A c \in DefaultBuffer : \A t \in Stamp : [c EXCEPT !.headTs = t] \in DefaultBuffer /\ c.headTs \in Stamp
    BY DEF DefaultBuffer
  <1> DEFINE d == [WithHead(b, p) EXCEPT !.headTs = IF headSequenceNumberCheck(b, p) THEN Ts(p) ELSE @]
  <1>4. d \in DefaultBuffer
    BY <1>1, <1>3
  <1>5. WithHead(d, p) \in DefaultBuffer
    BY <1>2, <1>4
  <1> QED BY <1>1, <1>2, <1>4, <1>5 DEF EnterHead

LEMMA StartWalkIs ==
  ASSUME NEW b \in DefaultBuffer, NEW closed \in BOOLEAN
  PROVE  StartWalk(b, closed) \in Walking
  BY SpaceIs DEF StartWalk, Walking, DefaultBuffer

LEMMA DefaultPushIs ==
  ASSUME DefaultInv, stream \in Streams, NEW p \in Packets, defaultPush(p)
  PROVE  DefaultInv'
  <1> DEFINE s == Started(jb, p)
             q == EnterSequence(s, p)
             r == EnterTimestamp(q, p)
             b == tailTimestampCheck(r, p)
             stored == [b EXCEPT !.table = (@ \ Slot(b, Seq16(p))) \cup {p}]
  <1>1. s \in DefaultBuffer
    BY StreamIs DEF DefaultInv, Started, DefaultBuffer
  <1> HIDE DEF s
  <1>2. q \in DefaultBuffer
    BY <1>1, EnterSequenceIs
  <1> HIDE DEF q
  <1>3. r \in DefaultBuffer
    BY <1>2, EnterTimestampIs
  <1> HIDE DEF r
  <1>4. b \in DefaultBuffer
    BY <1>3, TailTimestampIs
  <1>5. jb' = IF withinLatencyTolerance(b, p) THEN EnterHead(stored, p) ELSE b
    BY DEF defaultPush, b, r, q, s
  <1> HIDE DEF b
  <1>6. stored \in DefaultBuffer
    BY <1>4 DEF DefaultBuffer
  <1> HIDE DEF stored
  <1>7. jb' \in DefaultBuffer
    BY <1>4, <1>5, <1>6, EnterHeadIs
  <1>8. pc' = "top" /\ walk' = StartWalk(jb', FALSE)
    BY DEF defaultPush
  <1>9. walk' \in Walking
    BY <1>7, <1>8, StartWalkIs
  <1> QED BY <1>7, <1>8, <1>9 DEF DefaultInv, DefaultBuffer, Walking, SeqNo, Stamp, Packets

LEMMA DroppedIs ==
  ASSUME NEW b \in DefaultBuffer, NEW from, NEW to \in SeqNo, NEW next \in Stamp
  PROVE  Dropped(b, from, to, next) \in DefaultBuffer
  <1> DEFINE head == (to + 1) % SeqMod
             tab == b.table \ InTable(b, from, to)
             ts == b.tsOver /\ next > b.tailTs
             sq == b.seqOver /\ head > b.tailSeq
  <1>1. head \in SeqNo
    <2> DEFINE x == to + 1
    <2>1. x \in Int
      BY DEF SeqNo
    <2> HIDE DEF x
    <2>2. x % SeqMod \in SeqNo
      BY <2>1, SpaceIs, ModIs DEF SeqNo
    <2> QED BY <2>2 DEF x
  <1>2. tab \in SUBSET Packets
    BY DEF DefaultBuffer
  <1>3. ts \in BOOLEAN /\ sq \in BOOLEAN
    BY Zenon
  <1>4. Dropped(b, from, to, next) =
          [b EXCEPT !.table = tab, !.headTs = next, !.headSeq = head, !.tsOver = ts, !.seqOver = sq]
    BY DEF Dropped
  <1> HIDE DEF head, tab, ts, sq
  <1> QED BY <1>1, <1>2, <1>3, <1>4 DEF DefaultBuffer

LEMMA ReturnIs ==
  ASSUME NEW b \in DefaultBuffer, walk \in Walking, jb' = b, Return(b)
  PROVE  DefaultInv'
  <1>1. CASE walk.closed /\ b.headSeq # walk.from /\ SeqSub(b.tailSeq + 1, b.headSeq) > 0
    <2>1. pc' = "top" /\ walk' = StartWalk(b, TRUE)
      BY <1>1 DEF Return
    <2>2. walk' \in Walking
      BY <2>1, StartWalkIs
    <2> QED BY <2>1, <2>2 DEF DefaultInv, DefaultBuffer, Walking, SeqNo, Stamp, Packets
  <1>2. CASE ~(walk.closed /\ b.headSeq # walk.from /\ SeqSub(b.tailSeq + 1, b.headSeq) > 0)
    <2>1. pc' \in {"idle", "free"} /\ walk' = NoWalk
      BY <1>2 DEF Return
    <2> QED BY <2>1 DEF DefaultInv, DefaultBuffer, NoWalk, SeqNo, Stamp, Packets
  <1> QED BY <1>1, <1>2

LEMMA LeaveIs ==
  ASSUME jb \in DefaultBuffer, walk \in Walking, Leave
  PROVE  DefaultInv'
  BY ReturnIs DEF Leave

LEMMA WalksOn ==
  ASSUME jb' \in DefaultBuffer, walk' \in Walking, pc' \in {"top", "bottom", "last"}
  PROVE  DefaultInv'
  BY DEF DefaultInv, DefaultBuffer, Walking, SeqNo, Stamp, Packets

LEMMA NextNumber ==
  ASSUME NEW i \in SeqNo
  PROVE  (i + 1) % SeqMod \in SeqNo /\ SeqSub(i, 1) \in SeqNo
  <1> DEFINE x == i + 1
             y == i - 1
  <1>1. x \in Int /\ y \in Int
    BY DEF SeqNo
  <1> HIDE DEF x, y
  <1>2. x % SeqMod \in SeqNo /\ y % SeqMod \in SeqNo
    BY <1>1, SpaceIs, ModIs DEF SeqNo
  <1> QED BY <1>2 DEF x, y, SeqSub

LEMMA MissingIs ==
  ASSUME DefaultInv, Missing
  PROVE  DefaultInv'
  <1>1. pc = "top" /\ jb \in DefaultBuffer /\ walk \in Walking
    BY DEF DefaultInv, Missing
  <1>2. CASE Overdue
    <2> DEFINE gap == IF walk.gap = -1 THEN walk.index ELSE walk.gap
               contiguous == walk.contiguous /\ ~(walk.seen /\ ~walk.ended)
               index == (walk.index + 1) % SeqMod
    <2>1. gap \in Int /\ index \in SeqNo
      BY <1>1, NextNumber DEF Walking, SeqNo
    <2>2. contiguous \in BOOLEAN
      BY Zenon
    <2>3. /\ walk' = [walk EXCEPT !.gap = gap, !.contiguous = contiguous, !.index = index]
          /\ jb' = jb /\ pc' = pc
      BY <1>2 DEF Missing
    <2> HIDE DEF gap, contiguous, index
    <2>4. walk' \in Walking
      BY <1>1, <2>1, <2>2, <2>3 DEF Walking
    <2> QED BY <1>1, <2>3, <2>4, WalksOn
  <1>3. CASE ~Overdue
    BY <1>1, <1>3, LeaveIs DEF Missing
  <1> QED BY <1>2, <1>3

LEMMA OfHeadIs ==
  ASSUME DefaultInv, OfHead
  PROVE  DefaultInv'
  <1>1. pc = "top" /\ jb \in DefaultBuffer /\ walk \in Walking
    BY DEF DefaultInv, OfHead
  <1>2. PICK p \in Slot(jb, walk.index) :
          walk' = [walk EXCEPT !.lastNonNull = walk.index, !.last = walk.index, !.seen = TRUE,
                               !.ended = @ \/ End(p)]
    BY DEF OfHead
  <1> DEFINE ended == walk.ended \/ End(p)
  <1>3. ended \in BOOLEAN
    BY Zenon
  <1>4. walk' = [walk EXCEPT !.lastNonNull = walk.index, !.last = walk.index, !.seen = TRUE, !.ended = ended]
    BY <1>2
  <1> HIDE DEF ended
  <1>5. walk' \in Walking
    BY <1>1, <1>3, <1>4 DEF Walking
  <1>6. jb' = jb /\ pc' = "bottom"
    BY DEF OfHead
  <1> QED BY <1>1, <1>5, <1>6, WalksOn

LEMMA SettleIs ==
  ASSUME NEW b \in DefaultBuffer, NEW ready, NEW from, NEW to \in SeqNo, NEW next \in Stamp,
         Settle(b, ready, from, to, next)
  PROVE  jb' \in DefaultBuffer
  BY DroppedIs DEF Settle

LEMMA OfNextIs ==
  ASSUME DefaultInv, stream \in Streams, OfNext
  PROVE  DefaultInv'
  <1>1. pc = "top" /\ jb \in DefaultBuffer /\ walk \in Walking
    BY DEF DefaultInv, OfNext
  <1> DEFINE i == walk.index
             before == SeqSub(i, 1)
             begun(p) == [walk EXCEPT !.drop = i, !.last = i, !.lastNonNull = i, !.seen = TRUE,
                                      !.ended = End(p), !.contiguous = TRUE, !.gap = -1, !.size = FALSE]
  <1>2. i \in SeqNo /\ before \in SeqNo
    BY <1>1, NextNumber DEF Walking
  <1>3. PICK p \in Slot(jb, walk.index) :
          \/ /\ Settle(Processed, TRUE, walk.drop, before, Ts(p))
             /\ walk' = [begun(p) EXCEPT !.hasStart = FALSE] /\ pc' = "bottom"
          \/ Leave
          \/ /\ Settle(Processed, FALSE, walk.drop, before, Ts(p))
             /\ walk' = begun(p) /\ pc' = "bottom"
          \/ pc' = "last" /\ walk' = [walk EXCEPT !.lastNonNull = i] /\ jb' = jb
          \/ jb' = [jb EXCEPT !.headTs = Ts(p)] /\ walk' = begun(p) /\ pc' = "bottom"
    BY DEF OfNext
  <1>4. p \in Packets
    BY <1>1 DEF Slot, DefaultBuffer
  <1>5. Ts(p) \in Stamp /\ Processed \in DefaultBuffer
    BY <1>1, <1>4, StreamIs DEF Processed, DefaultBuffer
  <1>6. begun(p) \in Walking /\ [begun(p) EXCEPT !.hasStart = FALSE] \in Walking
    <2> DEFINE e == End(p)
    <2>1. e \in BOOLEAN
      BY Zenon DEF End
    <2> HIDE DEF e, i
    <2>2. begun(p) = [walk EXCEPT !.drop = i, !.last = i, !.lastNonNull = i, !.seen = TRUE,
                                  !.ended = e, !.contiguous = TRUE, !.gap = -1, !.size = FALSE]
      BY DEF e
    <2> HIDE DEF begun
    <2> DEFINE none == -1
    <2>3. none \in Int
      OBVIOUS
    <2>4. begun(p) = [walk EXCEPT !.drop = i, !.last = i, !.lastNonNull = i, !.seen = TRUE,
                                  !.ended = e, !.contiguous = TRUE, !.gap = none, !.size = FALSE]
      BY <2>2
    <2> HIDE DEF none
    <2>5. begun(p) \in Walking
      BY ZenonT(60), <1>1, <1>2, <2>1, <2>3, <2>4 DEF Walking
    <2> QED BY <2>5 DEF Walking
  <1>7. [walk EXCEPT !.lastNonNull = i] \in Walking /\ [jb EXCEPT !.headTs = Ts(p)] \in DefaultBuffer
    BY <1>1, <1>2, <1>5 DEF Walking, DefaultBuffer
  <1> HIDE DEF begun, i, before
  <1>8. CASE Leave
    BY <1>1, <1>8, LeaveIs
  <1>9. CASE \/ /\ Settle(Processed, TRUE, walk.drop, before, Ts(p))
                /\ walk' = [begun(p) EXCEPT !.hasStart = FALSE] /\ pc' = "bottom"
             \/ /\ Settle(Processed, FALSE, walk.drop, before, Ts(p))
                /\ walk' = begun(p) /\ pc' = "bottom"
    <2>1. jb' \in DefaultBuffer
      BY <1>2, <1>5, <1>9, SettleIs
    <2> QED BY <1>6, <1>9, <2>1, WalksOn
  <1>10. CASE pc' = "last" /\ walk' = [walk EXCEPT !.lastNonNull = i] /\ jb' = jb
    BY <1>1, <1>7, <1>10, WalksOn
  <1>11. CASE jb' = [jb EXCEPT !.headTs = Ts(p)] /\ walk' = begun(p) /\ pc' = "bottom"
    BY <1>6, <1>7, <1>11, WalksOn
  <1> QED BY <1>3, <1>8, <1>9, <1>10, <1>11

LEMMA CountIs ==
  ASSUME DefaultInv, stream \in Streams, Count
  PROVE  DefaultInv'
  <1>1. pc = "bottom" /\ jb \in DefaultBuffer /\ walk \in Walking
    BY DEF DefaultInv, Count
  <1> DEFINE i == walk.index
             after == (i + 1) % SeqMod
             started(p) == walk.hasStart \/ (p \in stream.starts /\ jb.headTs = Ts(p))
  <1>2. i \in SeqNo /\ after \in SeqNo
    BY <1>1, NextNumber DEF Walking
  <1>3. PICK p \in Slot(jb, walk.index) :
          \/ /\ Settle(Processed, TRUE, walk.drop, i, Ts(p))
             /\ walk' = [walk EXCEPT !.size = FALSE, !.drop = after, !.hasStart = started(p)]
             /\ pc' = "last"
          \/ Leave
          \/ /\ pc' = "top" /\ jb' = jb
             /\ walk' = [walk EXCEPT !.size = TRUE, !.hasStart = started(p), !.index = after]
    BY DEF Count
  <1>4. p \in Packets
    BY <1>1 DEF Slot, DefaultBuffer
  <1>5. Ts(p) \in Stamp /\ Processed \in DefaultBuffer
    BY <1>1, <1>4, StreamIs DEF Processed, DefaultBuffer
  <1>6. started(p) \in BOOLEAN
    BY Zenon
  <1> HIDE DEF started, after, i
  <1>7. /\ [walk EXCEPT !.size = FALSE, !.drop = after, !.hasStart = started(p)] \in Walking
        /\ [walk EXCEPT !.size = TRUE, !.hasStart = started(p), !.index = after] \in Walking
    BY <1>1, <1>2, <1>6 DEF Walking
  <1>8. CASE Leave
    BY <1>1, <1>8, LeaveIs
  <1>9. CASE /\ Settle(Processed, TRUE, walk.drop, i, Ts(p))
             /\ walk' = [walk EXCEPT !.size = FALSE, !.drop = after, !.hasStart = started(p)]
             /\ pc' = "last"
    <2>1. jb' \in DefaultBuffer
      BY <1>2, <1>5, <1>9, SettleIs
    <2> QED BY <1>7, <1>9, <2>1, WalksOn
  <1>10. CASE /\ pc' = "top" /\ jb' = jb
              /\ walk' = [walk EXCEPT !.size = TRUE, !.hasStart = started(p), !.index = after]
    BY <1>1, <1>7, <1>10, WalksOn
  <1> QED BY <1>3, <1>8, <1>9, <1>10

LEMMA LastIs ==
  ASSUME DefaultInv, Last
  PROVE  DefaultInv'
  <1>1. jb \in DefaultBuffer /\ walk \in Walking
    BY DEF DefaultInv, Last
  <1>2. \/ Leave
        \/ /\ Settle(jb, Filled(jb, walk.drop, walk.lastNonNull), walk.drop, walk.lastNonNull, jb.headTs)
           /\ Return(jb')
    BY DEF Last
  <1>3. CASE Leave
    BY <1>1, <1>3, LeaveIs
  <1>4. CASE /\ Settle(jb, Filled(jb, walk.drop, walk.lastNonNull), walk.drop, walk.lastNonNull, jb.headTs)
             /\ Return(jb')
    <2>1. walk.lastNonNull \in SeqNo /\ jb.headTs \in Stamp
      BY <1>1 DEF Walking, DefaultBuffer
    <2>2. jb' \in DefaultBuffer
      BY <1>1, <1>4, <2>1, SettleIs
    <2> QED BY <1>1, <1>4, <2>2, ReturnIs
  <1> QED BY <1>2, <1>3, <1>4

LEMMA DefaultDestroyIs ==
  ASSUME DefaultInv, defaultDestroy \/ FreeAll
  PROVE  DefaultInv'
  <1>1. CASE defaultDestroy
    <2>1. jb \in DefaultBuffer /\ walk = NoWalk /\ jb' = jb
      BY <1>1 DEF DefaultInv, defaultDestroy
    <2>2. CASE jb.started
      <3>1. pc' = "top" /\ walk' = StartWalk(jb, TRUE)
        BY <1>1, <2>2 DEF defaultDestroy
      <3> QED BY <2>1, <3>1, StartWalkIs, WalksOn
    <2>3. CASE ~jb.started
      <3>1. pc' = "free" /\ walk' = walk
        BY <1>1, <2>3 DEF defaultDestroy
      <3> QED BY <2>1, <3>1 DEF DefaultInv, DefaultBuffer, NoWalk, SeqNo, Stamp, Packets
    <2> QED BY <2>2, <2>3
  <1>2. CASE FreeAll
    <2>1. jb \in DefaultBuffer /\ walk = NoWalk /\ walk' = walk /\ pc' = "destroyed"
      BY <1>2 DEF DefaultInv, FreeAll
    <2>2. jb' \in DefaultBuffer
      BY <1>2, <2>1 DEF FreeAll, DefaultBuffer
    <2> QED BY <2>1, <2>2 DEF DefaultInv, DefaultBuffer, NoWalk, SeqNo, Stamp, Packets
  <1> QED BY <1>1, <1>2

-----------------------------------------------------------------------------
(* The real-time buffer                                                     *)

Entry == [first : SeqNo, last : SeqNo, count : Nat, start : BOOLEAN, end : BOOLEAN]
Tables == UNION {[D -> Entry] : D \in SUBSET Stamp}
Rings == [0..RingSize - 1 -> Packets \cup {0}]
Processeds == {s \in Seq(Stamp) : Len(s) <= ProcessedSize}

RtBuffer ==
  [started : BOOLEAN, seqOver : BOOLEAN, tsOver : BOOLEAN, delivered : BOOLEAN, headSeq : SeqNo,
   tailSeq : SeqNo, headTs : Stamp, tailTs : Stamp, ring : Rings, processed : Processeds,
   frames : Tables]

RtInv ==
  jb \in RtBuffer /\ pc \in {"idle", "evict", "deliver", "flush", "destroyed"} /\ walk = NoWalk

LEMMA TableIs ==
  ASSUME NEW f
  PROVE  f \in Tables <=> /\ DOMAIN f \subseteq Stamp /\ f = [t \in DOMAIN f |-> f[t]]
                          /\ \A t \in DOMAIN f : f[t] \in Entry
  <1>1. ASSUME f \in Tables
        PROVE  /\ DOMAIN f \subseteq Stamp /\ f = [t \in DOMAIN f |-> f[t]]
               /\ \A t \in DOMAIN f : f[t] \in Entry
    <2>1. PICK D \in SUBSET Stamp : f \in [D -> Entry]
      BY <1>1 DEF Tables
    <2> QED BY <2>1
  <1>2. ASSUME DOMAIN f \subseteq Stamp, f = [t \in DOMAIN f |-> f[t]], \A t \in DOMAIN f : f[t] \in Entry
        PROVE  f \in Tables
    <2>1. f \in [DOMAIN f -> Entry]
      BY <1>2
    <2> QED BY <1>2, <2>1 DEF Tables
  <1> QED BY <1>1, <1>2

\* Newer orders the timestamps: some frame is the earliest.
LEMMA EarliestIs ==
  ASSUME NEW b, NEW S \in SUBSET Stamp, S # {}
  PROVE  \E t \in S : \A u \in S : ~Newer(b, t, u)
  <1> DEFINE wrapped(t) == b.tsOver /\ t < b.headTs
             W == {t \in S : wrapped(t)}
             P == {t \in S : ~wrapped(t)}
  <1>1. W \in SUBSET Nat /\ P \in SUBSET Nat /\ S = W \cup P
    <2> HIDE DEF wrapped
    <2>1. Stamp \subseteq Nat
      BY SpaceIs DEF Stamp
    <2> QED BY <2>1
  <1>2. \A t, u \in S : Newer(b, t, u) = (IF wrapped(t) # wrapped(u) THEN wrapped(t) ELSE t > u)
    BY DEF Newer
  <1>3. \A t, u \in S : wrapped(t) \in BOOLEAN /\ wrapped(u) \in BOOLEAN
    BY Zenon
  <1> HIDE DEF wrapped
  <1>4. CASE P # {}
    <2>1. PICK t \in P : \A u \in P : t <= u
      <3> HIDE DEF P
      <3> QED BY <1>1, <1>4, LeastNumber
    <2>2. ASSUME NEW u \in S PROVE ~Newer(b, t, u)
      <3>1. t \in S /\ ~wrapped(t)
        BY <2>1
      <3>2. CASE wrapped(u)
        BY <1>2, <3>1, <3>2
      <3>3. CASE ~wrapped(u)
        <4>1. t <= u /\ t \in Nat /\ u \in Nat
          BY <1>1, <2>1, <3>3
        <4>2. ~(t > u)
          BY <4>1
        <4>3. wrapped(t) = wrapped(u)
          BY <1>3, <3>1, <3>3
        <4> QED BY <1>2, <3>1, <4>2, <4>3
      <3> QED BY <3>2, <3>3
    <2> QED BY <2>1, <2>2
  <1>5. CASE P = {}
    <2>1. PICK t \in W : \A u \in W : t <= u
      <3>1. W # {}
        BY <1>1, <1>5
      <3> HIDE DEF W
      <3> QED BY <1>1, <3>1, LeastNumber
    <2>2. ASSUME NEW u \in S PROVE ~Newer(b, t, u)
      <3>1. t \in S /\ wrapped(t) /\ u \in W /\ wrapped(u)
        BY <1>1, <1>5, <2>1
      <3>2. t <= u /\ t \in Nat /\ u \in Nat
        BY <1>1, <2>1, <3>1
      <3>3. ~(t > u)
        BY <3>2
      <3>4. wrapped(t) = wrapped(u)
        BY <1>3, <3>1
      <3> QED BY <1>2, <3>1, <3>3, <3>4
    <2> QED BY <2>1, <2>2
  <1> QED BY <1>4, <1>5

LEMMA BufferFields ==
  ASSUME NEW b \in RtBuffer
  PROVE  /\ b.started \in BOOLEAN /\ b.seqOver \in BOOLEAN /\ b.tsOver \in BOOLEAN /\ b.delivered \in BOOLEAN
         /\ b.headSeq \in SeqNo /\ b.tailSeq \in SeqNo /\ b.headTs \in Stamp /\ b.tailTs \in Stamp
         /\ b.ring \in Rings /\ b.processed \in Processeds /\ b.frames \in Tables
         /\ DOMAIN b.frames \in SUBSET Stamp /\ \A t \in DOMAIN b.frames : b.frames[t] \in Entry
  <1>1. b.frames \in Tables
    BY DEF RtBuffer
  <1>2. DOMAIN b.frames \subseteq Stamp /\ \A t \in DOMAIN b.frames : b.frames[t] \in Entry
    BY <1>1, TableIs
  <1> QED BY <1>1, <1>2 DEF RtBuffer

LEMMA FindIs ==
  ASSUME NEW b \in RtBuffer
  PROVE  /\ DOMAIN b.frames # {} => rtFindEarliestFrame(b) \in DOMAIN b.frames
         /\ \A t : Later(b, t) # {} => rtFindNextFrameFence(b, t) \in SeqNo
  <1>1. DOMAIN b.frames \in SUBSET Stamp /\ \A t \in DOMAIN b.frames : b.frames[t] \in Entry
    BY BufferFields
  <1>2. DOMAIN b.frames # {} => rtFindEarliestFrame(b) \in DOMAIN b.frames
    BY <1>1, EarliestIs DEF rtFindEarliestFrame
  <1>3. ASSUME NEW t, Later(b, t) # {} PROVE rtFindNextFrameFence(b, t) \in SeqNo
    <2> DEFINE L == Later(b, t)
               c == CHOOSE u \in L : \A v \in L : ~Newer(b, u, v)
    <2>1. L \in SUBSET Stamp /\ L \subseteq DOMAIN b.frames
      BY <1>1 DEF Later
    <2>2. \E u \in L : \A v \in L : ~Newer(b, u, v)
      BY <1>3, <2>1, EarliestIs
    <2>3. c \in L
      BY <2>2
    <2>4. b.frames[c] \in Entry
      BY <1>1, <2>1, <2>3
    <2>5. rtFindNextFrameFence(b, t) = b.frames[c].first
      BY DEF rtFindNextFrameFence
    <2> HIDE DEF c
    <2> QED BY <2>4, <2>5 DEF Entry
  <1> QED BY <1>2, <1>3

LEMMA NewTable ==
  ASSUME NEW b \in RtBuffer, NEW f \in Tables
  PROVE  [b EXCEPT !.frames = f] \in RtBuffer
  BY DEF RtBuffer

LEMMA TryMarkIs ==
  ASSUME NEW b, NEW t, b.frames[t] \in Entry, NEW fence \in Int
  PROVE  rtTryMarkFrameComplete(b, t, fence) \in Entry
  <1> DEFINE e == b.frames[t]
             l == (fence - 1) % SeqMod
  <1>1. l \in SeqNo
    <2> DEFINE x == fence - 1
    <2>1. x \in Int
      OBVIOUS
    <2> HIDE DEF x
    <2>2. x % SeqMod \in SeqNo
      BY <2>1, SpaceIs, ModIs DEF SeqNo
    <2> QED BY <2>2 DEF x
  <1>2. rtTryMarkFrameComplete(b, t, fence) \in {e, [e EXCEPT !.end = TRUE, !.last = l]}
    BY DEF rtTryMarkFrameComplete
  <1> HIDE DEF l, e
  <1>3. e \in Entry /\ [e EXCEPT !.end = TRUE, !.last = l] \in Entry
    <2>1. e \in Entry
      BY DEF e
    <2> QED BY <1>1, <2>1 DEF Entry
  <1> QED BY <1>2, <1>3

LEMMA MarkOlderIs ==
  ASSUME NEW b \in RtBuffer, NEW older, NEW fence \in Int
  PROVE  /\ MarkOlder(b, older, fence) \in RtBuffer
         /\ DOMAIN MarkOlder(b, older, fence).frames = DOMAIN b.frames
  <1> DEFINE f == [u \in DOMAIN b.frames |->
                     IF u \in older THEN rtTryMarkFrameComplete(b, u, fence) ELSE b.frames[u]]
  <1>1. DOMAIN b.frames \in SUBSET Stamp /\ \A t \in DOMAIN b.frames : b.frames[t] \in Entry
    BY BufferFields
  <1>2. \A u \in DOMAIN b.frames : rtTryMarkFrameComplete(b, u, fence) \in Entry
    BY <1>1, TryMarkIs
  <1>3. /\ DOMAIN f = DOMAIN b.frames /\ f = [u \in DOMAIN f |-> f[u]]
        /\ \A u \in DOMAIN f : f[u] \in Entry
    BY <1>1, <1>2
  <1>4. MarkOlder(b, older, fence) = [b EXCEPT !.frames = f]
    BY DEF MarkOlder
  <1> HIDE DEF f
  <1>5. f \in Tables
    BY <1>1, <1>3, TableIs
  <1>6. [b EXCEPT !.frames = f].frames = f
    BY DEF RtBuffer
  <1> QED BY <1>3, <1>4, <1>5, <1>6, NewTable

LEMMA BootstrapIs ==
  ASSUME NEW b \in RtBuffer, NEW p \in Packets, stream \in Streams
  PROVE  Bootstrap(b, p) \in RtBuffer
  BY StreamIs DEF Bootstrap, RtBuffer

LEMMA TrackSequenceIs ==
  ASSUME NEW b \in RtBuffer, NEW p \in Packets, stream \in Streams
  PROVE  TrackSequence(b, p) \in RtBuffer
  <1> DEFINE s == Seq16(p)
             left == SeqMod - 1 - b.tailSeq
             over == ~b.seqOver /\ left <= Near /\ s < b.tailSeq /\ s <= Near - left
             under == /\ ~b.seqOver /\ ~over
                      /\ b.headSeq < Near /\ s >= SeqMod - 1 - Near /\ s > b.tailSeq
             seqOver == b.seqOver \/ over \/ under
             c == [b EXCEPT !.seqOver = seqOver,
                            !.tailSeq = IF over THEN s ELSE @, !.headSeq = IF under THEN s ELSE @]
             ahead == IF c.seqOver THEN SeqSub(s, c.tailSeq) \in 1..Near - 1 ELSE s > c.tailSeq
  <1>1. s \in SeqNo
    BY StreamIs
  <1>2. seqOver \in BOOLEAN
    BY Zenon
  <1>3. TrackSequence(b, p) = [c EXCEPT !.tailSeq = IF ahead THEN s ELSE @]
    BY DEF TrackSequence
  <1> HIDE DEF over, under, seqOver, s
  <1>4. c \in RtBuffer
    BY <1>1, <1>2 DEF RtBuffer
  <1> HIDE DEF c, ahead
  <1>5. [c EXCEPT !.tailSeq = IF ahead THEN s ELSE @] \in RtBuffer
    BY <1>1, <1>4 DEF RtBuffer
  <1> QED BY <1>3, <1>5

LEMMA TrackTimestampIs ==
  ASSUME NEW b \in RtBuffer, NEW p \in Packets, stream \in Streams
  PROVE  TrackTimestamp(b, p) \in RtBuffer
  <1> DEFINE t == Ts(p)
             s == Seq16(p)
             behind == b.tailTs > t /\ t < b.headTs
             over == ~b.tsOver /\ behind /\ s = b.tailSeq
             under == /\ ~b.tsOver /\ ~behind /\ t > b.headTs /\ t > b.tailTs
                      /\ SeqSub(b.headSeq, s) \in 1..Near - 1
             tsOver == b.tsOver \/ over \/ under
             c == [b EXCEPT !.tsOver = tsOver, !.tailTs = IF over THEN t ELSE @,
                            !.headTs = IF under THEN t ELSE @, !.headSeq = IF under THEN s ELSE @]
  <1>1. t \in Stamp /\ s \in SeqNo
    BY StreamIs
  <1>2. tsOver \in BOOLEAN
    BY Zenon
  <1>3. TrackTimestamp(b, p) = [c EXCEPT !.tailTs = IF Newer(c, t, @) THEN t ELSE @]
    BY DEF TrackTimestamp
  <1> HIDE DEF over, under, tsOver, s, t
  <1>4. c \in RtBuffer
    BY <1>1, <1>2 DEF RtBuffer
  <1> HIDE DEF c
  <1>5. [c EXCEPT !.tailTs = IF Newer(c, t, @) THEN t ELSE @] \in RtBuffer
    BY <1>1, <1>4 DEF RtBuffer
  <1> QED BY <1>3, <1>5

LEMMA StoreIs ==
  ASSUME NEW b \in RtBuffer, NEW p \in Packets, stream \in Streams
  PROVE  Store(b, p) \in RtBuffer /\ Store(b, p).frames = b.frames
  <1> DEFINE x == Seq16(p)
             i == x % RingSize
  <1>1. x \in Int /\ RingSize \in Nat \ {0}
    BY StreamIs, SpaceIs, JitterAssumption DEF SeqNo
  <1>i. Store(b, p) = [b EXCEPT !.ring = [@ EXCEPT ![i] = p]]
    BY DEF Store
  <1> HIDE DEF x
  <1>2. i \in 0..RingSize - 1
    BY <1>1, ModIs
  <1> HIDE DEF i
  <1>3. [b.ring EXCEPT ![i] = p] \in Rings
    BY <1>2, BufferFields DEF Rings
  <1> QED BY <1>i, <1>3 DEF RtBuffer

LEMMA NewFrameIs ==
  ASSUME NEW b \in RtBuffer, NEW p \in Packets, stream \in Streams
  PROVE  NewFrame(b, p) \in RtBuffer /\ Ts(p) \in DOMAIN NewFrame(b, p).frames
  <1> DEFINE t == Ts(p)
             s == Seq16(p)
             e == [first |-> s, last |-> s, count |-> 0, start |-> FALSE, end |-> FALSE]
             f == [u \in DOMAIN b.frames \cup {t} |-> IF u = t THEN e ELSE b.frames[u]]
             head == Newer(b, b.headTs, t)
             c == [b EXCEPT !.frames = f, !.headTs = IF head THEN t ELSE @,
                            !.headSeq = IF head THEN s ELSE @]
             older == {u \in DOMAIN b.frames : ~b.frames[u].end /\ Newer(c, t, u)}
  <1>1. t \in Stamp /\ s \in SeqNo /\ s \in Int
    BY StreamIs, SpaceIs DEF SeqNo
  <1>2. NewFrame(b, p) = MarkOlder(c, older, s)
    BY DEF NewFrame
  <1> HIDE DEF s, t
  <1>3. e \in Entry
    BY <1>1 DEF Entry
  <1> HIDE DEF e
  <1>4. DOMAIN b.frames \in SUBSET Stamp /\ \A u \in DOMAIN b.frames : b.frames[u] \in Entry
    BY BufferFields
  <1>5. /\ DOMAIN f \subseteq Stamp /\ f = [u \in DOMAIN f |-> f[u]]
        /\ \A u \in DOMAIN f : f[u] \in Entry
    BY <1>1, <1>3, <1>4
  <1>6. t \in DOMAIN f
    OBVIOUS
  <1> HIDE DEF f
  <1>7. f \in Tables
    BY <1>5, TableIs
  <1> HIDE DEF head
  <1>8. c \in RtBuffer /\ c.frames = f
    BY <1>1, <1>7 DEF RtBuffer
  <1> HIDE DEF c, older
  <1>9. MarkOlder(c, older, s) \in RtBuffer /\ DOMAIN MarkOlder(c, older, s).frames = DOMAIN f
    BY <1>1, <1>8, MarkOlderIs
  <1> QED BY <1>2, <1>6, <1>9 DEF t

LEMMA AddToFrameIs ==
  ASSUME NEW b \in RtBuffer, NEW p \in Packets, stream \in Streams, Ts(p) \in DOMAIN b.frames
  PROVE  AddToFrame(b, p) \in RtBuffer /\ Ts(p) \in DOMAIN AddToFrame(b, p).frames
  <1> DEFINE s == Seq16(p)
             t == Ts(p)
             e == b.frames[t]
             outside == SeqSub(s, e.first) > SeqSub(e.last, e.first)
             before == SeqSub(e.first, s) < SeqSub(s, e.last)
             start == e.start \/ p \in stream.starts
             end == e.end \/ Marker(p)
             f == [first |-> IF outside /\ before THEN s ELSE e.first,
                   last |-> IF outside /\ ~before THEN s ELSE e.last,
                   count |-> e.count + 1, start |-> start, end |-> end]
             g == [b.frames EXCEPT ![t] = f]
  <1>1. t \in Stamp /\ s \in SeqNo
    BY StreamIs
  <1>2. start \in BOOLEAN /\ end \in BOOLEAN
    BY Zenon
  <1>3. AddToFrame(b, p) = [b EXCEPT !.frames = g]
    BY DEF AddToFrame
  <1>4. /\ DOMAIN b.frames \in SUBSET Stamp /\ \A u \in DOMAIN b.frames : b.frames[u] \in Entry
        /\ b.frames \in Tables
    BY BufferFields
  <1> HIDE DEF t
  <1>5. e \in Entry /\ t \in DOMAIN b.frames
    BY <1>4 DEF t
  <1> HIDE DEF outside, before, start, end, s, e
  <1>6. f \in Entry
    BY <1>1, <1>2, <1>5 DEF Entry
  <1> HIDE DEF f
  <1>7. /\ DOMAIN g = DOMAIN b.frames /\ g = [u \in DOMAIN g |-> g[u]]
        /\ \A u \in DOMAIN g : g[u] \in Entry
    BY <1>4, <1>5, <1>6
  <1> HIDE DEF g
  <1>8. g \in Tables
    BY <1>4, <1>7, TableIs
  <1>9. [b EXCEPT !.frames = g].frames = g
    BY DEF RtBuffer
  <1> QED BY <1>3, <1>5, <1>7, <1>8, <1>9, NewTable DEF t

LEMMA ReevaluateIs ==
  ASSUME NEW b \in RtBuffer, NEW p \in Packets, stream \in Streams, Ts(p) \in DOMAIN b.frames
  PROVE  Reevaluate(b, p) \in RtBuffer
  <1> DEFINE t == Ts(p)
             e == b.frames[t]
             c == IF ~e.end /\ e.start /\ Later(b, t) # {}
                  THEN MarkOlder(b, {t}, rtFindNextFrameFence(b, t)) ELSE b
             older == {u \in DOMAIN c.frames : /\ ~c.frames[u].end /\ Newer(c, t, u)
                                               /\ rtFindNextFrameFence(c, u) = c.frames[t].first}
             d == MarkOlder(c, older, c.frames[t].first)
  <1>0. SeqNo \subseteq Int
    BY SpaceIs DEF SeqNo
  <1>1. Later(b, t) # {} => rtFindNextFrameFence(b, t) \in Int
    BY <1>0, FindIs
  <1>2. Reevaluate(b, p) =
          [d EXCEPT !.headSeq = IF t = d.headTs /\ SeqSub(@, Seq16(p)) \in 1..Near - 1 THEN Seq16(p) ELSE @]
    BY DEF Reevaluate
  <1>3. t \in DOMAIN b.frames
    OBVIOUS
  <1> HIDE DEF t
  <1>4. c \in RtBuffer /\ DOMAIN c.frames = DOMAIN b.frames
    <2>1. CASE Later(b, t) # {}
      <3>1. /\ MarkOlder(b, {t}, rtFindNextFrameFence(b, t)) \in RtBuffer
            /\ DOMAIN MarkOlder(b, {t}, rtFindNextFrameFence(b, t)).frames = DOMAIN b.frames
        BY <1>1, <2>1, MarkOlderIs
      <3> QED BY <3>1
    <2>2. CASE Later(b, t) = {}
      BY <2>2
    <2> QED BY <2>1, <2>2
  <1> HIDE DEF c
  <1>5. c.frames[t] \in Entry
    BY <1>3, <1>4, BufferFields
  <1>6. c.frames[t].first \in Int
    BY <1>0, <1>5 DEF Entry
  <1> HIDE DEF older
  <1>7. d \in RtBuffer
    BY <1>4, <1>6, MarkOlderIs
  <1> HIDE DEF d
  <1>8. Seq16(p) \in SeqNo
    BY StreamIs
  <1> QED BY <1>2, <1>7, <1>8 DEF RtBuffer

LEMMA PlaceIs ==
  ASSUME NEW b \in RtBuffer, NEW p \in Packets, stream \in Streams
  PROVE  Place(b, p) \in RtBuffer
  <1> DEFINE s == Store(b, p)
             c == IF Ts(p) \notin DOMAIN b.frames THEN NewFrame(s, p) ELSE s
             d == AddToFrame(c, p)
  <1>1. s \in RtBuffer /\ s.frames = b.frames
    BY StoreIs
  <1> HIDE DEF s
  <1>2. c \in RtBuffer /\ Ts(p) \in DOMAIN c.frames
    BY <1>1, NewFrameIs
  <1> HIDE DEF c
  <1>3. d \in RtBuffer /\ Ts(p) \in DOMAIN d.frames
    BY <1>2, AddToFrameIs
  <1>4. Place(b, p) = Reevaluate(d, p)
    BY DEF Place, d, c, s
  <1> HIDE DEF d
  <1> QED BY <1>3, <1>4, ReevaluateIs

LEMMA RtPushIs ==
  ASSUME RtInv, stream \in Streams, NEW p \in Packets, rtPush(p), walk' = walk
  PROVE  RtInv'
  <1> DEFINE q == Bootstrap(jb, p)
             r == TrackSequence(q, p)
             b == TrackTimestamp(r, p)
  <1>1. q \in RtBuffer
    BY BootstrapIs DEF RtInv
  <1> HIDE DEF q
  <1>2. r \in RtBuffer
    BY <1>1, TrackSequenceIs
  <1> HIDE DEF r
  <1>3. b \in RtBuffer
    BY <1>2, TrackTimestampIs
  <1>4. jb' = (IF Discarded(b, p) THEN b ELSE Place(b, p)) /\ pc' = "evict"
    BY DEF rtPush, b, r, q
  <1> HIDE DEF b
  <1>5. jb' \in RtBuffer
    BY <1>3, <1>4, PlaceIs
  <1>6. RtBuffer' = RtBuffer
    BY DEF RtBuffer, SeqNo, Stamp, Rings, Processeds, Tables, Entry, Packets
  <1> QED BY <1>4, <1>5, <1>6 DEF RtInv, NoWalk

LEMMA RemovedIs ==
  ASSUME NEW b \in RtBuffer, NEW t \in DOMAIN b.frames
  PROVE  Removed(b, t) \in RtBuffer
  <1> DEFINE R == InRange(b, b.frames[t])
             ring == [i \in DOMAIN b.ring |-> IF b.ring[i] \in R THEN 0 ELSE b.ring[i]]
             f == [u \in DOMAIN b.frames \ {t} |-> b.frames[u]]
  <1>1. /\ DOMAIN b.frames \in SUBSET Stamp /\ \A u \in DOMAIN b.frames : b.frames[u] \in Entry
        /\ b.ring \in Rings
    BY BufferFields
  <1>2. Removed(b, t) = [b EXCEPT !.ring = ring, !.frames = f]
    BY DEF Removed, Without
  <1> HIDE DEF R
  <1>3. ring \in Rings
    BY <1>1 DEF Rings
  <1> HIDE DEF ring
  <1>4. /\ DOMAIN f \subseteq Stamp /\ f = [u \in DOMAIN f |-> f[u]]
        /\ \A u \in DOMAIN f : f[u] \in Entry
    BY <1>1
  <1> HIDE DEF f
  <1>5. f \in Tables
    BY <1>4, TableIs
  <1> QED BY <1>2, <1>3, <1>5 DEF RtBuffer

\* The ring of processed timestamps keeps its size.
LEMMA MarkProcessedIs ==
  ASSUME NEW b \in RtBuffer, NEW t \in Stamp
  PROVE  rtMarkTimestampProcessed(b, t) \in RtBuffer /\ rtMarkTimestampProcessed(b, t).frames = b.frames
  <1> DEFINE s == Append(b.processed, t)
             q == IF Len(s) > ProcessedSize THEN Tail(s) ELSE s
  <1>1. b.processed \in Seq(Stamp) /\ Len(b.processed) <= ProcessedSize
    BY BufferFields DEF Processeds
  <1>2. s \in Seq(Stamp) /\ Len(s) = Len(b.processed) + 1 /\ Len(b.processed) \in Nat
    BY <1>1
  <1>3. rtMarkTimestampProcessed(b, t) = [b EXCEPT !.processed = q]
    BY DEF rtMarkTimestampProcessed
  <1> HIDE DEF s
  <1>4. s # <<>>
    BY <1>2
  <1>5. Tail(s) \in Seq(Stamp) /\ Len(Tail(s)) = Len(s) - 1
    BY <1>2, <1>4
  <1>6. ProcessedSize \in Nat
    BY JitterAssumption
  <1>7. q \in Seq(Stamp) /\ Len(q) <= ProcessedSize
    BY <1>1, <1>2, <1>5, <1>6
  <1>8. q \in Processeds
    BY <1>7 DEF Processeds
  <1> HIDE DEF q
  <1> QED BY <1>3, <1>8 DEF RtBuffer

LEMMA UpdateHeadIs ==
  ASSUME NEW b \in RtBuffer
  PROVE  rtUpdateHead(b) \in RtBuffer
  <1>1. CASE DOMAIN b.frames = {}
    <2>1. b.tailTs \in Stamp /\ b.tailSeq \in SeqNo
      BY BufferFields
    <2>2. rtUpdateHead(b) = [b EXCEPT !.headTs = b.tailTs, !.headSeq = b.tailSeq, !.tsOver = FALSE, !.seqOver = FALSE]
      BY <1>1 DEF rtUpdateHead
    <2> QED BY <2>1, <2>2 DEF RtBuffer
  <1>2. CASE DOMAIN b.frames # {}
    <2> DEFINE t == rtFindEarliestFrame(b)
               s == b.frames[t].first
               ts == b.tsOver /\ t > b.tailTs
               sq == b.seqOver /\ s > b.tailSeq
    <2>1. t \in DOMAIN b.frames
      BY <1>2, FindIs
    <2>2. rtUpdateHead(b) = [b EXCEPT !.headTs = t, !.headSeq = s, !.tsOver = ts, !.seqOver = sq]
      BY <1>2 DEF rtUpdateHead
    <2>3. ts \in BOOLEAN /\ sq \in BOOLEAN
      BY Zenon
    <2> HIDE DEF t
    <2>4. t \in Stamp /\ b.frames[t] \in Entry
      BY <2>1, BufferFields
    <2>5. s \in SeqNo
      BY <2>4 DEF Entry
    <2> HIDE DEF s, ts, sq
    <2> QED BY <2>2, <2>3, <2>4, <2>5 DEF RtBuffer
  <1> QED BY <1>1, <1>2

\* A frame that is settled leaves the buffer.
LEMMA SettledIs ==
  ASSUME NEW b \in RtBuffer, DOMAIN b.frames # {}, NEW t, t = rtFindEarliestFrame(b)
  PROVE  /\ Removed(b, t) \in RtBuffer
         /\ rtUpdateHead([Removed(rtMarkTimestampProcessed(b, t), t) EXCEPT !.delivered = TRUE]) \in RtBuffer
  <1> DEFINE c == rtMarkTimestampProcessed(b, t)
             d == Removed(c, t)
             e == [d EXCEPT !.delivered = TRUE]
  <1>1. t \in DOMAIN b.frames /\ t \in Stamp
    <2>1. t \in DOMAIN b.frames
      BY FindIs
    <2> QED BY <2>1, BufferFields
  <1>2. c \in RtBuffer /\ c.frames = b.frames
    BY <1>1, MarkProcessedIs
  <1> HIDE DEF c
  <1>3. d \in RtBuffer
    BY <1>1, <1>2, RemovedIs
  <1> HIDE DEF d
  <1>4. e \in RtBuffer
    BY <1>3 DEF RtBuffer
  <1>5. rtUpdateHead(e) \in RtBuffer
    <2> HIDE DEF e
    <2> QED BY <1>4, UpdateHeadIs
  <1>6. Removed(b, t) \in RtBuffer
    BY <1>1, RemovedIs
  <1> QED BY <1>5, <1>6 DEF c, d

LEMMA EndedIs ==
  ASSUME NEW b \in RtBuffer, NEW t \in DOMAIN b.frames
  PROVE  Ended(b, t) \in Entry
  <1> DEFINE e == b.frames[t]
             full == (e.count = SeqSub(e.last + 1, e.first))
  <1>1. e \in Entry
    BY BufferFields
  <1>2. CASE e.end
    BY <1>1, <1>2 DEF Ended
  <1>3. CASE ~e.end /\ Later(b, t) # {}
    <2>1. rtFindNextFrameFence(b, t) \in Int
      BY <1>3, FindIs, SpaceIs DEF SeqNo
    <2>2. rtTryMarkFrameComplete(b, t, rtFindNextFrameFence(b, t)) \in Entry
      BY <1>1, <2>1, TryMarkIs
    <2>3. Ended(b, t) = rtTryMarkFrameComplete(b, t, rtFindNextFrameFence(b, t))
      BY <1>3 DEF Ended
    <2> QED BY <2>2, <2>3
  <1>4. CASE ~e.end /\ Later(b, t) = {}
    <2>1. full \in BOOLEAN
      BY Zenon
    <2>2. Ended(b, t) = [e EXCEPT !.end = full]
      BY <1>4 DEF Ended
    <2> HIDE DEF full, e
    <2> QED BY <1>1, <2>1, <2>2 DEF Entry
  <1> QED BY <1>2, <1>3, <1>4

LEMMA RealTimeStepIs ==
  ASSUME RtInv, RealTimeStep
  PROVE  RtInv'
  <1>1. jb \in RtBuffer /\ walk = NoWalk /\ walk' = walk
    BY DEF RtInv, RealTimeStep
  <1>2. RtBuffer' = RtBuffer /\ NoWalk' = NoWalk
    BY DEF RtBuffer, SeqNo, Stamp, Rings, Processeds, Tables, Entry, Packets, NoWalk
  <1>s. ASSUME jb' \in RtBuffer, pc' \in {"idle", "evict", "deliver", "flush", "destroyed"}
        PROVE  RtInv'
    BY <1>1, <1>2, <1>s DEF RtInv
  <1> DEFINE t == rtFindEarliestFrame(jb)
             settled == rtUpdateHead([Removed(rtMarkTimestampProcessed(jb, t), t) EXCEPT !.delivered = TRUE])
  <1>3. DOMAIN jb.frames # {} => settled \in RtBuffer /\ Removed(jb, t) \in RtBuffer
    BY <1>1, SettledIs
  <1>4. CASE Evict
    <2>1. /\ jb' = jb \/ (DOMAIN jb.frames # {} /\ jb' = settled)
          /\ pc' = pc \/ pc' = "deliver"
      BY <1>4 DEF Evict
    <2>2. pc = "evict"
      BY <1>4 DEF Evict
    <2> HIDE DEF settled
    <2> QED BY <1>1, <1>3, <1>s, <2>1, <2>2
  <1>5. CASE Deliver
    <2>1. /\ jb' = jb \/ (DOMAIN jb.frames # {} /\ jb' = settled)
          /\ pc' = pc \/ pc' = "idle"
      BY <1>5 DEF Deliver
    <2>2. pc = "deliver"
      BY <1>5 DEF Deliver
    <2> HIDE DEF settled
    <2> QED BY <1>1, <1>3, <1>s, <2>1, <2>2
  <1>6. CASE rtDestroy
    <2> DEFINE f == [u \in DOMAIN jb.frames |-> Ended(jb, u)]
    <2>1. DOMAIN jb.frames \in SUBSET Stamp
      BY <1>1, BufferFields
    <2>2. /\ DOMAIN f \subseteq Stamp /\ f = [u \in DOMAIN f |-> f[u]]
          /\ \A u \in DOMAIN f : f[u] \in Entry
      BY <1>1, <2>1, EndedIs
    <2>3. jb' = [jb EXCEPT !.frames = f] /\ pc' = "flush"
      BY <1>6 DEF rtDestroy
    <2> HIDE DEF f
    <2>4. f \in Tables
      BY <2>2, TableIs
    <2> QED BY <1>1, <1>s, <2>3, <2>4, NewTable
  <1>7. CASE Flush
    <2>1. /\ jb' = jb \/ (DOMAIN jb.frames # {} /\ jb' = Removed(jb, t))
          /\ pc' = pc \/ pc' = "destroyed"
      BY <1>7 DEF Flush
    <2>2. pc = "flush"
      BY <1>7 DEF Flush
    <2> HIDE DEF t
    <2> QED BY <1>1, <1>3, <1>s, <2>1, <2>2
  <1> QED BY <1>4, <1>5, <1>6, <1>7 DEF RealTimeStep

-----------------------------------------------------------------------------
(* Both                                                                     *)

\* the inductive invariant: the fields of whichever buffer there is, and of its walk
JitterInv ==
  /\ stream \in Streams /\ kind \in Kinds
  /\ IF kind = "realtime" THEN RtInv ELSE DefaultInv

LEMMA JitterInvInit == Init => JitterInv
  <1> SUFFICES ASSUME Init PROVE JitterInv
    OBVIOUS
  <1>1. stream \in Streams /\ kind \in Kinds /\ pc = "idle" /\ walk = NoWalk
    BY DEF Init
  <1>2. CASE kind = "realtime"
    <2> DEFINE ring == [i \in 0..RingSize - 1 |-> 0]
    <2>1. ring \in Rings
      BY DEF Rings
    <2>2. <<>> \in Processeds
      BY JitterAssumption DEF Processeds
    <2>3. <<>> \in Tables
      <3>1. DOMAIN <<>> = {}
        OBVIOUS
      <3>2. <<>> = [u \in {} |-> <<>>[u]]
        OBVIOUS
      <3> QED BY <3>1, <3>2, TableIs
    <2>4. jb = [started |-> FALSE, seqOver |-> FALSE, tsOver |-> FALSE, delivered |-> FALSE,
                headSeq |-> SeqMod - 1, tailSeq |-> SeqMod - 1, headTs |-> TsMod - 1, tailTs |-> 0,
                ring |-> ring, processed |-> <<>>, frames |-> <<>>]
      BY <1>2 DEF Init, rtInit
    <2> HIDE DEF ring
    <2>5. jb \in RtBuffer
      BY <2>1, <2>2, <2>3, <2>4, SpaceIs DEF RtBuffer
    <2> QED BY <1>1, <1>2, <2>5 DEF JitterInv, RtInv
  <1>3. CASE kind # "realtime"
    <2>1. jb = [started |-> FALSE, first |-> FALSE, seqOver |-> FALSE, tsOver |-> FALSE,
                headSeq |-> SeqMod - 1, tailSeq |-> SeqMod - 1, headTs |-> TsMod - 1, tailTs |-> 0,
                table |-> {}]
      BY <1>3 DEF Init, defaultInit
    <2>2. jb \in DefaultBuffer
      BY <2>1, SpaceIs DEF DefaultBuffer
    <2> QED BY <1>1, <1>3, <2>2 DEF JitterInv, DefaultInv
  <1> QED BY <1>2, <1>3

LEMMA JitterInvStep ==
  ASSUME JitterInv, [Next]_allVars
  PROVE  JitterInv'
  <1>1. stream \in Streams /\ kind \in Kinds
    BY Zenon DEF JitterInv
  <1>2. stream' = stream /\ kind' = kind
    BY DEF Next, Arrive, ArriveAgain, jitterBufferPush, rtPush, defaultPush, RealTimeStep, Evict, Deliver,
           rtDestroy, Flush, Missing, OfHead, OfNext, Count, Last, defaultDestroy, FreeAll, allVars, vars
  <1>3. CASE kind = "realtime"
    <2>1. RtInv
      BY <1>3 DEF JitterInv
    <2>2. \/ \E p \in Packets : rtPush(p) /\ walk' = walk
          \/ RealTimeStep
          \/ UNCHANGED <<jb, pc, walk>>
      BY <1>3 DEF Next, Arrive, ArriveAgain, jitterBufferPush, allVars, vars
    <2>3. ASSUME \E p \in Packets : rtPush(p) /\ walk' = walk PROVE RtInv'
      BY <1>1, <2>1, <2>3, RtPushIs
    <2>4. ASSUME RealTimeStep PROVE RtInv'
      BY <2>1, <2>4, RealTimeStepIs
    <2>5. ASSUME UNCHANGED <<jb, pc, walk>> PROVE RtInv'
      BY <2>1, <2>5 DEF RtInv, RtBuffer, SeqNo, Stamp, Rings, Processeds, Tables, Entry, Packets, NoWalk
    <2>6. RtInv'
      BY <2>2, <2>3, <2>4, <2>5
    <2> QED BY <1>1, <1>2, <1>3, <2>6 DEF JitterInv
  <1>4. CASE kind # "realtime"
    <2>1. DefaultInv
      BY <1>4 DEF JitterInv
    <2>2. \/ \E p \in Packets : defaultPush(p)
          \/ Missing \/ OfHead \/ OfNext \/ Count \/ Last \/ defaultDestroy \/ FreeAll
          \/ UNCHANGED <<jb, pc, walk>>
      BY <1>4 DEF Next, Arrive, ArriveAgain, jitterBufferPush, allVars, vars
    <2>3. ASSUME \E p \in Packets : defaultPush(p) PROVE DefaultInv'
      BY <1>1, <2>1, <2>3, DefaultPushIs
    <2>4. ASSUME Missing \/ OfHead \/ OfNext \/ Count \/ Last \/ defaultDestroy \/ FreeAll PROVE DefaultInv'
      BY <1>1, <2>1, <2>4, MissingIs, OfHeadIs, OfNextIs, CountIs, LastIs, DefaultDestroyIs
    <2>5. ASSUME UNCHANGED <<jb, pc, walk>> PROVE DefaultInv'
      BY <2>1, <2>5 DEF DefaultInv, DefaultBuffer, Walking, SeqNo, Stamp, Packets, NoWalk
    <2>6. DefaultInv'
      BY <2>2, <2>3, <2>4, <2>5
    <2> QED BY <1>1, <1>2, <1>4, <2>6 DEF JitterInv
  <1> QED BY <1>3, <1>4

\* The types of both buffers hold for every stream, ring size and latency: the heads and tails that
\* wrap around stay within their fields, every frame looked up is there, and the ring of processed
\* timestamps keeps its size (rtPush, rtMarkTimestampProcessed, jitterBufferInternalParse).
THEOREM TypeCorrect == Spec => []TypeOK
  <1>1. JitterInv => TypeOK
    <2> SUFFICES ASSUME JitterInv PROVE TypeOK
      OBVIOUS
    <2>1. kind \in Kinds
      BY DEF JitterInv
    <2>2. CASE kind = "realtime"
      <3>1. RtInv /\ jb \in RtBuffer
        BY <2>2 DEF JitterInv, RtInv
      <3>2. walk.closed \in BOOLEAN
        BY <3>1 DEF RtInv, NoWalk
      <3>3. rtTypeOK
        BY <3>1, BufferFields DEF RtInv, rtTypeOK, Rings, Processeds, SeqNo, Stamp
      <3> QED BY <2>1, <2>2, <3>2, <3>3 DEF TypeOK
    <2>3. CASE kind # "realtime"
      <3>1. DefaultInv
        BY <2>3 DEF JitterInv
      <3>2. walk.closed \in BOOLEAN
        <4>1. CASE walk \in Walking
          BY <4>1 DEF Walking
        <4>2. CASE walk = NoWalk
          BY <4>2 DEF NoWalk
        <4> QED BY <3>1, <4>1, <4>2 DEF DefaultInv
      <3>3. defaultTypeOK
        BY <3>1 DEF DefaultInv, DefaultBuffer, defaultTypeOK, SeqNo, Stamp
      <3> QED BY <2>1, <2>3, <3>2, <3>3 DEF TypeOK
    <2> QED BY <2>2, <2>3
  <1>2. JitterInv /\ [Next]_allVars => JitterInv'
    BY JitterInvStep
  <1> QED BY <1>1, <1>2, JitterInvInit, PTL DEF Spec
=============================================================================
