-------------------------- MODULE SctpAssocProofs --------------------------
(***************************************************************************)
(* Proofs about SctpAssoc for every size of the tables, every window and   *)
(* every number of messages: the books of the retransmission table are     *)
(* exact (Accounting), and T3-rtx is armed exactly while a chunk is kept   *)
(* (T3Armed).  Neither is inductive: a new chunk must have a fresh TSN,    *)
(* the loops that run with busy set must find work and an established      *)
(* association, and only an active session runs them.  On top of them, for *)
(* reliable messages: whatever waits is served (WaitingIsServed), and what *)
(* is acknowledged has been delivered (AckedMeansDelivered), which takes   *)
(* an invariant on the packets in flight and on the crossing handshakes.   *)
(***************************************************************************)
EXTENDS SctpAssoc, FiniteSetTheorems, FunctionTheorems, WellFoundedInduction, TLAPS

\* outstanding[] and the two counters kept beside it.
TableInv(p) ==
  /\ IsFiniteSet(outstanding[p])
  /\ outstandingCount[p] = Cardinality(outstanding[p])
  /\ flightSize[p] = Cardinality(outstanding[p])
  /\ \A c, d \in outstanding[p] : c.tsn = d.tsn => c = d
  /\ \A c \in outstanding[p] : c.tsn < nextTsn[p]

TimerInv(p) ==
  /\ session[p] = "active" => (t3RtxExpiry[p] <=> outstanding[p] # {})
  /\ session[p] = "none" => outstanding[p] = {} /\ ~t3RtxExpiry[p]

\* A loop that runs has something to send.
LoopInv(p) ==
  /\ session[p] # "active" => busy[p] = "idle"
  /\ busy[p] = "flush" => state[p] = "ESTABLISHED" /\ sendQueue[p] # <<>>
  /\ busy[p] = "drain" => InUse(pendingQueue[p]) # {}

SendInv ==
  /\ session \in [Peers -> {"none", "active", "freed"}]
  /\ state \in [Peers -> AssocState]
  /\ SendTypes
  /\ \A p \in Peers : TableInv(p) /\ TimerInv(p) /\ LoopInv(p)

-----------------------------------------------------------------------------
(* Lemmas about the operators                                              *)

\* The chunks of one message have distinct TSNs: n of them fill n slots of
\* outstanding[].
LEMMA ChunkCount ==
  ASSUME NEW p \in Peers, NEW m \in Msgs, NEW n \in Nat, nextTsn[p] \in Nat
  PROVE  /\ IsFiniteSet({Chunk(p, m, i) : i \in 1..n})
         /\ Cardinality({Chunk(p, m, i) : i \in 1..n}) = n
<1> DEFINE S == {Chunk(p, m, i) : i \in 1..n}
           f == [i \in 1..n |-> Chunk(p, m, i)]
<1>1. f \in Bijection(1..n, S)
  <2>1. f \in [1..n -> S]
    OBVIOUS
  <2>2. \A i, j \in 1..n : f[i] = f[j] => i = j
    BY DEF Chunk
  <2>3. \A t \in S : \E i \in 1..n : f[i] = t
    OBVIOUS
  <2> HIDE DEF f, S
  <2> QED BY <2>1, <2>2, <2>3, Fun_IsBij
<1>2. ExistsBijection(1..n, S)
  BY <1>1 DEF ExistsBijection
<1> HIDE DEF S
<1>3. IsFiniteSet(S) /\ Cardinality(S) = n
  BY <1>2, FS_NatBijection, FS_CountingElements
<1> QED BY <1>3 DEF S

\* What a message puts into outstanding[] are chunks, with TSNs from nextTsn
\* on and below nextTsn + n.
LEMMA ChunkTypes ==
  ASSUME NEW p \in Peers, NEW m \in Msgs, NEW n \in Nat, nextTsn[p] \in Nat \ {0}
  PROVE  /\ {Chunk(p, m, i) : i \in 1..n} \subseteq Chunks
         /\ \A c \in {Chunk(p, m, i) : i \in 1..n} :
              nextTsn[p] <= c.tsn /\ c.tsn < nextTsn[p] + n
         /\ \A c, d \in {Chunk(p, m, i) : i \in 1..n} : c.tsn = d.tsn => c = d
<1>1. \A i \in 1..n : Chunk(p, m, i) \in Chunks
  <2> SUFFICES ASSUME NEW i \in 1..n PROVE Chunk(p, m, i) \in Chunks
    OBVIOUS
  <2>1. nextTsn[p] + i - 1 \in Nat /\ m.kind \in AllKinds /\ m.id \in Nat
    BY DEF Msgs
  <2>2. <<m.id, i>> \in Seq(Nat)
    BY <2>1
  <2> QED BY <2>1, <2>2 DEF Chunk, Chunks
<1>2. \A i \in 1..n : Chunk(p, m, i).tsn = nextTsn[p] + i - 1
  BY DEF Chunk
<1> QED BY <1>1, <1>2

\* Storing n new chunks beside those kept.
LEMMA AddChunks ==
  ASSUME NEW S, IsFiniteSet(S), NEW T, IsFiniteSet(T), S \cap T = {}
  PROVE  /\ IsFiniteSet(S \cup T)
         /\ Cardinality(S \cup T) = Cardinality(S) + Cardinality(T)
BY FS_Union, FS_EmptySet, FS_CardinalityType, SMTT(60)

\* A set of slots that is not empty has a lowest one.
LEMMA LowestExists ==
  ASSUME NEW n \in Nat, NEW S \in SUBSET (1..n), S # {}
  PROVE  \E s \in S : \A t \in S : s <= t
<1> DEFINE R == {ss \in Nat \X Nat : ss[1] < ss[2]}
<1>1. IsWellFoundedOn(R, Nat)
  BY NatLessThanWellFounded, Zenon DEF OpToRel
<1>2. S \subseteq Nat
  OBVIOUS
<1> HIDE DEF R
<1>3. PICK x \in S : \A y \in S : ~ (<<y, x>> \in R)
  BY <1>1, <1>2, WFMin
<1>4. \A y \in S : ~(y < x)
  BY <1>2, <1>3 DEF R
<1> QED BY <1>2, <1>4

\* A retransmission keeps the TSN, so it changes no count.
LEMMA RetransmittedCount ==
  ASSUME NEW K \in SUBSET Chunks, IsFiniteSet(K),
         \A c, d \in K : c.tsn = d.tsn => c = d
  PROVE  /\ IsFiniteSet({Retransmitted(c) : c \in K})
         /\ Cardinality({Retransmitted(c) : c \in K}) = Cardinality(K)
<1> DEFINE T == {Retransmitted(c) : c \in K}
           f == [c \in K |-> Retransmitted(c)]
<1>1. \A c \in Chunks : Retransmitted(c).tsn = c.tsn
  BY DEF Retransmitted, Chunks
<1>2. f \in Bijection(K, T)
  <2>1. f \in [K -> T]
    OBVIOUS
  <2>2. \A c, d \in K : f[c] = f[d] => c = d
    BY <1>1
  <2>3. \A t \in T : \E c \in K : f[c] = t
    OBVIOUS
  <2> HIDE DEF f, T
  <2> QED BY <2>1, <2>2, <2>3, Fun_IsBij
<1>3. ExistsBijection(K, T)
  BY <1>2 DEF ExistsBijection
<1> HIDE DEF T
<1>4. IsFiniteSet(T) /\ Cardinality(T) = Cardinality(K)
  BY <1>3, FS_Bijection
<1> QED BY <1>4 DEF T

\* Releasing part of a finite set.
LEMMA ReleasedCount ==
  ASSUME NEW S, IsFiniteSet(S), NEW G \in SUBSET S
  PROVE  /\ IsFiniteSet(G) /\ IsFiniteSet(S \ G)
         /\ Cardinality(G) \in Nat /\ Cardinality(S) \in Nat
         /\ Cardinality(G) <= Cardinality(S)
         /\ Cardinality(S \ G) = Cardinality(S) - Cardinality(G)
<1>1. S \cap G = G
  OBVIOUS
<1>2. IsFiniteSet(G) /\ Cardinality(G) <= Cardinality(S)
  BY FS_Subset
<1>3. IsFiniteSet(S \ G) /\ Cardinality(S \ G) = Cardinality(S) - Cardinality(S \cap G)
  BY FS_Difference
<1> QED BY <1>1, <1>2, <1>3, FS_CardinalityType

-----------------------------------------------------------------------------
(* One call of sctpAssocSend                                               *)

\* What AssocSend changes on the send side has the right type, keeps the
\* books and arms T3 when it stores the first chunk.
LEMMA AssocSendKeeps ==
  ASSUME SendInv, NEW p \in Peers, session[p] = "active",
         NEW m \in Msgs, NEW sq \in Seq(Msgs),
         NEW pend \in [1..SCTP_MAX_PENDING_SENDS -> Msgs \cup {NoMsg}],
         AssocSend(p, m, sq, pend), session' = session
  PROVE  /\ nextTsn' \in [Peers -> Nat \ {0}]
         /\ nextSsn' \in [Peers -> Nat]
         /\ outstanding' \in [Peers -> SUBSET Chunks]
         /\ outstandingCount' \in [Peers -> 0..SCTP_MAX_OUTSTANDING]
         /\ flightSize' \in [Peers -> Nat]
         /\ t3RtxExpiry' \in [Peers -> BOOLEAN]
         /\ sendQueue' \in [Peers -> Seq(Msgs)]
         /\ pendingQueue' \in [Peers -> [1..SCTP_MAX_PENDING_SENDS -> Msgs \cup {NoMsg}]]
         /\ dropped' \in [Peers -> SUBSET Nat]
         /\ onWire' \in [Peers -> Seq(Nat)]
         /\ \A q \in Peers : TableInv(q)' /\ TimerInv(q)'
         /\ \A q \in Peers \ {p} : /\ sendQueue'[q] = sendQueue[q]
                                  /\ pendingQueue'[q] = pendingQueue[q]
<1> USE DEF SendInv
<1>1. m.id \in Nat /\ m.frags \in 1..MaxFrags /\ m.frags \in Nat
  BY FragsAssumption, LimitsAssumption DEF Msgs
<1>2. ASSUME SendQueued(p, m, pend)
      PROVE  /\ sendQueue' \in [Peers -> Seq(Msgs)]
             /\ pendingQueue' \in [Peers -> [1..SCTP_MAX_PENDING_SENDS -> Msgs \cup {NoMsg}]]
             /\ dropped' \in [Peers -> SUBSET Nat]
             /\ UNCHANGED chunkVars
             /\ \A q \in Peers \ {p} : /\ sendQueue'[q] = sendQueue[q]
                                      /\ pendingQueue'[q] = pendingQueue[q]
  <2>1. Append(sendQueue[p], m) \in Seq(Msgs)
    BY DEF SendTypes
  <2>2. sendQueue' \in [Peers -> Seq(Msgs)]
    <3>1. sendQueue' = sendQueue \/ sendQueue' = [sendQueue EXCEPT ![p] = Append(sendQueue[p], m)]
      BY <1>2 DEF SendQueued
    <3>2. sendQueue \in [Peers -> Seq(Msgs)]
      BY DEF SendTypes
    <3> QED BY ONLY <2>1, <3>1, <3>2, p \in Peers
  <2>3. dropped' \in [Peers -> SUBSET Nat]
    <3>1. dropped \in [Peers -> SUBSET Nat] /\ dropped[p] \cup {m.id} \in SUBSET Nat
      BY <1>1 DEF SendTypes
    <3>2. dropped' = dropped \/ dropped' = [dropped EXCEPT ![p] = @ \cup {m.id}]
      BY <1>2 DEF SendQueued
    <3> QED BY <3>1, <3>2
  <2>4. pendingQueue' \in [Peers -> [1..SCTP_MAX_PENDING_SENDS -> Msgs \cup {NoMsg}]]
    BY <1>2 DEF SendQueued, SendTypes
  <2>5. UNCHANGED chunkVars
    BY <1>2 DEF SendQueued
  <2>6. \A q \in Peers \ {p} : /\ sendQueue'[q] = sendQueue[q]
                             /\ pendingQueue'[q] = pendingQueue[q]
    BY <1>2 DEF SendQueued, SendTypes
  <2> QED BY <2>2, <2>3, <2>4, <2>5, <2>6
<1>3. ASSUME SendPending(p, m, sq, pend)
      PROVE  /\ sendQueue' \in [Peers -> Seq(Msgs)]
             /\ pendingQueue' \in [Peers -> [1..SCTP_MAX_PENDING_SENDS -> Msgs \cup {NoMsg}]]
             /\ dropped' \in [Peers -> SUBSET Nat]
             /\ UNCHANGED chunkVars
             /\ \A q \in Peers \ {p} : /\ sendQueue'[q] = sendQueue[q]
                                      /\ pendingQueue'[q] = pendingQueue[q]
  <2>1. PendingPut(pend, m) \in [1..SCTP_MAX_PENDING_SENDS -> Msgs \cup {NoMsg}]
    BY DEF PendingPut
  <2> QED BY <1>3, <1>1, <2>1 DEF SendPending, SendTypes
<1>4. UNCHANGED chunkVars /\ SendTypes =>
        /\ nextTsn' \in [Peers -> Nat \ {0}]
        /\ nextSsn' \in [Peers -> Nat]
        /\ outstanding' \in [Peers -> SUBSET Chunks]
        /\ outstandingCount' \in [Peers -> 0..SCTP_MAX_OUTSTANDING]
        /\ flightSize' \in [Peers -> Nat]
        /\ t3RtxExpiry' \in [Peers -> BOOLEAN]
        /\ onWire' \in [Peers -> Seq(Nat)]
        /\ \A q \in Peers : TableInv(q)' /\ TimerInv(q)'
  BY DEF chunkVars, SendTypes, TableInv, TimerInv
<1>5. CASE SendQueued(p, m, pend)
  BY <1>2, <1>4, <1>5
<1>6. CASE SendPending(p, m, sq, pend)
  BY <1>3, <1>4, <1>6
<1>7. CASE SendChunks(p, m, sq, pend)
  <2> DEFINE n == Stored(p, m)
             new == {Chunk(p, m, i) : i \in 1..n}
  <2>1. nextTsn[p] \in Nat \ {0} /\ outstanding[p] \subseteq Chunks
        /\ outstandingCount[p] \in 0..SCTP_MAX_OUTSTANDING /\ flightSize[p] \in Nat
    BY DEF SendTypes
  <2>2. n \in Nat /\ n <= m.frags /\ outstandingCount[p] + n <= SCTP_MAX_OUTSTANDING
    BY <1>1, <2>1, LimitsAssumption DEF Stored
  <2>3. outstanding[p] = {} => n = m.frags /\ n > 0
    <3>1. outstanding[p] = {} => outstandingCount[p] = 0
      BY FS_EmptySet DEF TableInv
    <3> QED BY <3>1, <1>1, FragsAssumption, LimitsAssumption DEF Stored
  <2> HIDE DEF n
  <2>4. IsFiniteSet(new) /\ Cardinality(new) = n
    BY <2>1, <2>2, ChunkCount
  <2>5. /\ new \subseteq Chunks
        /\ \A c \in new : nextTsn[p] <= c.tsn /\ c.tsn < nextTsn[p] + n
        /\ \A c, d \in new : c.tsn = d.tsn => c = d
    BY <2>1, <2>2, ChunkTypes
  <2>5a. n > 0 => new # {}
    <3>1. n > 0 => Chunk(p, m, 1) \in new
      BY <2>2
    <3> QED BY <3>1
  <2>6. /\ nextTsn' = [nextTsn EXCEPT ![p] = @ + (IF n = m.frags THEN n ELSE n + 1)]
        /\ nextSsn' = [nextSsn EXCEPT ![p] = @ + 1]
        /\ outstanding' = [outstanding EXCEPT ![p] = @ \cup new]
        /\ outstandingCount' = [outstandingCount EXCEPT ![p] = @ + n]
        /\ flightSize' = [flightSize EXCEPT ![p] = @ + n]
        /\ t3RtxExpiry' = [t3RtxExpiry EXCEPT ![p] = @ \/ n = m.frags]
        /\ sendQueue' = [sendQueue EXCEPT ![p] = sq]
        /\ pendingQueue' = [pendingQueue EXCEPT ![p] = pend]
        /\ onWire' = [onWire EXCEPT ![p] = Append(@, m.id)]
        /\ dropped' = IF n = m.frags THEN dropped
                      ELSE [dropped EXCEPT ![p] = @ \cup {m.id}]
    BY <1>7 DEF SendChunks, StartsT3, n
  <2> HIDE DEF new
  <2>7. /\ nextTsn' \in [Peers -> Nat \ {0}]
        /\ nextSsn' \in [Peers -> Nat]
        /\ outstanding' \in [Peers -> SUBSET Chunks]
        /\ outstandingCount' \in [Peers -> 0..SCTP_MAX_OUTSTANDING]
        /\ flightSize' \in [Peers -> Nat]
    <3>0. nextTsn[p] + (IF n = m.frags THEN n ELSE n + 1) \in Nat \ {0}
      BY <2>1, <2>2
    <3>1. nextTsn' \in [Peers -> Nat \ {0}] /\ nextSsn' \in [Peers -> Nat]
      BY <3>0, <2>6 DEF SendTypes
    <3>2. outstanding' \in [Peers -> SUBSET Chunks]
      BY <2>1, <2>5, <2>6 DEF SendTypes
    <3>3. outstandingCount[p] + n \in 0..SCTP_MAX_OUTSTANDING /\ flightSize[p] + n \in Nat
      BY <2>1, <2>2, LimitsAssumption
    <3>4. outstandingCount' \in [Peers -> 0..SCTP_MAX_OUTSTANDING]
      BY <3>3, <2>6 DEF SendTypes
    <3>5. flightSize' \in [Peers -> Nat]
      BY <3>3, <2>6 DEF SendTypes
    <3> QED BY <3>1, <3>2, <3>4, <3>5
  <2>8. /\ t3RtxExpiry' \in [Peers -> BOOLEAN]
        /\ sendQueue' \in [Peers -> Seq(Msgs)]
        /\ pendingQueue' \in [Peers -> [1..SCTP_MAX_PENDING_SENDS -> Msgs \cup {NoMsg}]]
        /\ dropped' \in [Peers -> SUBSET Nat]
        /\ onWire' \in [Peers -> Seq(Nat)]
        /\ \A q \in Peers \ {p} : /\ sendQueue'[q] = sendQueue[q]
                                 /\ pendingQueue'[q] = pendingQueue[q]
    <3>1. t3RtxExpiry' \in [Peers -> BOOLEAN]
      BY <2>6 DEF SendTypes
    <3>2. /\ sendQueue' \in [Peers -> Seq(Msgs)]
          /\ pendingQueue' \in [Peers -> [1..SCTP_MAX_PENDING_SENDS -> Msgs \cup {NoMsg}]]
          /\ \A q \in Peers \ {p} : /\ sendQueue'[q] = sendQueue[q]
                                   /\ pendingQueue'[q] = pendingQueue[q]
      BY <2>6 DEF SendTypes
    <3>3. dropped' \in [Peers -> SUBSET Nat]
      BY <1>1, <2>6 DEF SendTypes
    <3>4. Append(onWire[p], m.id) \in Seq(Nat)
      BY <1>1 DEF SendTypes
    <3>5. onWire' \in [Peers -> Seq(Nat)]
      BY <3>4, <2>6 DEF SendTypes
    <3> QED BY <3>1, <3>2, <3>3, <3>5
  <2>9. \A q \in Peers \ {p} : TableInv(q)' /\ TimerInv(q)'
    BY <2>6 DEF SendTypes, TableInv, TimerInv
  <2>10. /\ nextTsn'[p] > nextTsn[p] + n - 1 /\ nextTsn'[p] >= nextTsn[p]
         /\ outstanding'[p] = outstanding[p] \cup new
         /\ outstandingCount'[p] = outstandingCount[p] + n
         /\ flightSize'[p] = flightSize[p] + n
         /\ t3RtxExpiry'[p] = (t3RtxExpiry[p] \/ n = m.frags)
    <3>1. /\ DOMAIN nextTsn = Peers /\ DOMAIN outstanding = Peers
          /\ DOMAIN outstandingCount = Peers /\ DOMAIN flightSize = Peers
          /\ DOMAIN t3RtxExpiry = Peers
      BY DEF SendTypes
    <3>2. nextTsn'[p] = nextTsn[p] + (IF n = m.frags THEN n ELSE n + 1)
      BY ONLY <2>6, <3>1, p \in Peers
    <3>3. nextTsn'[p] > nextTsn[p] + n - 1 /\ nextTsn'[p] >= nextTsn[p]
      BY ONLY <2>1, <2>2, <3>2
    <3>4. /\ outstanding'[p] = outstanding[p] \cup new
          /\ outstandingCount'[p] = outstandingCount[p] + n
          /\ flightSize'[p] = flightSize[p] + n
      BY ONLY <2>6, <3>1, p \in Peers
    <3>5. t3RtxExpiry'[p] = (t3RtxExpiry[p] \/ n = m.frags)
      BY ONLY <2>6, <3>1, p \in Peers
    <3> QED BY <3>3, <3>4, <3>5
  <2>11. TableInv(p)'
    <3>1. outstanding[p] \cap new = {}
      BY <2>1, <2>5, SMTT(60) DEF TableInv, Chunks
    <3>2. /\ IsFiniteSet(outstanding[p] \cup new)
          /\ Cardinality(outstanding[p] \cup new) = Cardinality(outstanding[p]) + n
      BY <3>1, <2>4, AddChunks DEF TableInv
    <3>3. \A c \in outstanding[p] \cup new : c.tsn < nextTsn'[p]
      BY <2>1, <2>2, <2>5, <2>7, <2>10, SMTT(60) DEF TableInv, Chunks
    <3>4. \A c, d \in outstanding[p] \cup new : c.tsn = d.tsn => c = d
      BY <2>1, <2>5 DEF TableInv, Chunks
    <3> QED BY <2>10, <3>2, <3>3, <3>4 DEF TableInv
  <2>12. TimerInv(p)'
    <3>1. n = m.frags => new # {}
      BY <1>1, <2>2, <2>5a
    <3>2. t3RtxExpiry[p] <=> outstanding[p] # {}
      BY DEF TimerInv
    <3>3. outstanding'[p] # {} <=> (outstanding[p] # {} \/ new # {})
      BY <2>10
    <3>4. n # m.frags => outstanding[p] # {}
      BY <2>3
    <3>5. t3RtxExpiry'[p] <=> outstanding'[p] # {}
      BY <2>10, <3>1, <3>2, <3>3, <3>4
    <3> QED BY <3>5 DEF TimerInv
  <2> QED BY <2>7, <2>8, <2>9, <2>11, <2>12
<1> QED BY <1>5, <1>6, <1>7 DEF AssocSend

-----------------------------------------------------------------------------
(* The other ways in which a step touches the send side                    *)

\* Freeing slots of outstanding[]: gone leaves the table, kept stays in it,
\* perhaps with its retransmission counters raised.
LEMMA ReleaseKeeps ==
  ASSUME SendInv, NEW p \in Peers, NEW gone \in SUBSET outstanding[p],
         NEW kept \in SUBSET Chunks, IsFiniteSet(kept),
         Cardinality(kept) = Cardinality(outstanding[p]) - Cardinality(gone),
         \A c, d \in kept : c.tsn = d.tsn => c = d,
         \A c \in kept : c.tsn < nextTsn[p],
         ReleaseChunks(p, gone, kept), nextTsn' = nextTsn
  PROVE  /\ outstanding' = [outstanding EXCEPT ![p] = kept]
         /\ outstanding' \in [Peers -> SUBSET Chunks]
         /\ outstandingCount' \in [Peers -> 0..SCTP_MAX_OUTSTANDING]
         /\ flightSize' \in [Peers -> Nat]
         /\ \A q \in Peers : TableInv(q)'
<1> USE DEF SendInv
<1>1. /\ outstanding' = [outstanding EXCEPT ![p] = kept]
      /\ outstandingCount' = [outstandingCount EXCEPT ![p] = @ - Cardinality(gone)]
      /\ flightSize' = [flightSize EXCEPT ![p] = @ - Cardinality(gone)]
  BY DEF ReleaseChunks
<1>2. outstanding' \in [Peers -> SUBSET Chunks]
  BY <1>1 DEF SendTypes
<1>3. /\ Cardinality(gone) \in Nat /\ Cardinality(outstanding[p]) \in Nat
      /\ Cardinality(gone) <= Cardinality(outstanding[p])
  BY ReleasedCount DEF TableInv
<1>4. /\ outstandingCount[p] = Cardinality(outstanding[p])
      /\ flightSize[p] = Cardinality(outstanding[p])
      /\ outstandingCount[p] <= SCTP_MAX_OUTSTANDING
  BY LimitsAssumption DEF TableInv, SendTypes
<1>5. /\ outstandingCount[p] - Cardinality(gone) \in 0..SCTP_MAX_OUTSTANDING
      /\ flightSize[p] - Cardinality(gone) \in Nat
  BY <1>3, <1>4, LimitsAssumption
<1>6. outstandingCount' \in [Peers -> 0..SCTP_MAX_OUTSTANDING]
  BY <1>1, <1>5 DEF SendTypes
<1>7. flightSize' \in [Peers -> Nat]
  BY <1>1, <1>5 DEF SendTypes
<1>8. TableInv(p)'
  <2>1. /\ outstanding'[p] = kept
        /\ outstandingCount'[p] = Cardinality(kept)
        /\ flightSize'[p] = Cardinality(kept)
    BY <1>1, <1>4 DEF SendTypes
  <2> QED BY <2>1 DEF TableInv
<1>9. \A q \in Peers \ {p} : TableInv(q)'
  BY <1>1 DEF SendTypes, TableInv
<1> QED BY <1>1, <1>2, <1>6, <1>7, <1>8, <1>9

\* A step that leaves the send side alone may still change the state of an
\* association that runs no loop.
LEMMA QuietStep ==
  ASSUME SendInv, UNCHANGED <<chunkVars, queueVars, written, busy, session>>,
         state' \in [Peers -> AssocState],
         \A q \in Peers : busy[q] = "flush" => state'[q] = state[q]
  PROVE  SendInv'
<1>1. /\ UNCHANGED <<nextTsn, nextSsn, outstanding, outstandingCount, flightSize,
                    t3RtxExpiry, onWire>>
      /\ UNCHANGED <<sendQueue, pendingQueue, dropped, written, busy, session>>
  BY DEF chunkVars, queueVars
<1>2. SendTypes'
  BY <1>1 DEF SendInv, SendTypes
<1>3. \A p \in Peers : TableInv(p)' /\ TimerInv(p)'
  BY <1>1 DEF SendInv, TableInv, TimerInv
<1>4. \A p \in Peers : LoopInv(p)'
  BY <1>1 DEF SendInv, LoopInv, InUse
<1> QED BY <1>1, <1>2, <1>3, <1>4 DEF SendInv

-----------------------------------------------------------------------------
(* One lemma per action that touches the send side                         *)

\* A loop over the queues is untouched by a step that leaves its association
\* alone.
LEMMA LoopElsewhere ==
  ASSUME NEW q \in Peers, LoopInv(q),
         session'[q] = session[q], state'[q] = state[q], busy'[q] = busy[q],
         sendQueue'[q] = sendQueue[q], pendingQueue'[q] = pendingQueue[q]
  PROVE  LoopInv(q)'
BY DEF LoopInv, InUse

\* sctpSessionWriteMessage: a message is queued, held back, dropped or sent.
LEMMA SendInvWrite ==
  ASSUME SendInv, NEW p \in Peers, WriteMessage(p)
  PROVE  SendInv'
<1> USE DEF SendInv
<1>1. PICK k \in Kinds, n \in 1..MaxFrags :
        LET m == [id |-> Len(written[p]) + 1, kind |-> k, frags |-> n]
        IN  /\ written' = [written EXCEPT ![p] = Append(@, m)]
            /\ AssocSend(p, m, sendQueue[p], pendingQueue[p])
  BY DEF WriteMessage
<1> DEFINE m == [id |-> Len(written[p]) + 1, kind |-> k, frags |-> n]
<1>2. m \in Msgs
  <2>1. Len(written[p]) \in Nat
    BY DEF SendTypes
  <2> QED BY <2>1, InputsAssumption DEF Msgs
<1>3. /\ written' = [written EXCEPT ![p] = Append(@, m)]
      /\ AssocSend(p, m, sendQueue[p], pendingQueue[p])
      /\ session' = session /\ state' = state /\ busy' = busy
      /\ session[p] = "active" /\ busy[p] = "idle"
  BY <1>1 DEF WriteMessage, Idle, hsVars
<1> HIDE DEF m
<1>4. sendQueue[p] \in Seq(Msgs)
      /\ pendingQueue[p] \in [1..SCTP_MAX_PENDING_SENDS -> Msgs \cup {NoMsg}]
  BY DEF SendTypes
<1>5. written' \in [Peers -> Seq(Msgs)]
  <2>1. Append(written[p], m) \in Seq(Msgs)
    BY <1>2 DEF SendTypes
  <2> QED BY <1>3, <2>1 DEF SendTypes
<1>6. /\ SendTypes'
      /\ \A q \in Peers : TableInv(q)' /\ TimerInv(q)'
      /\ \A q \in Peers \ {p} : /\ sendQueue'[q] = sendQueue[q]
                               /\ pendingQueue'[q] = pendingQueue[q]
  BY <1>2, <1>3, <1>4, <1>5, AssocSendKeeps DEF SendTypes
<1>7. \A q \in Peers : LoopInv(q)'
  BY <1>3, <1>6 DEF LoopInv, InUse
<1> QED BY <1>3, <1>6, <1>7

\* One iteration of sctpFlushSendQueue.
LEMMA SendInvFlush ==
  ASSUME SendInv, NEW p \in Peers, FlushStep(p)
  PROVE  SendInv'
<1> USE DEF SendInv
<1>1. /\ busy[p] = "flush" /\ session[p] = "active"
      /\ state[p] = "ESTABLISHED" /\ sendQueue[p] # <<>> /\ sendQueue[p] \in Seq(Msgs)
  BY DEF FlushStep, LoopInv, SendTypes
<1> DEFINE m == Head(sendQueue[p])
           rest == Tail(sendQueue[p])
<1>2. m \in Msgs /\ rest \in Seq(Msgs)
      /\ pendingQueue[p] \in [1..SCTP_MAX_PENDING_SENDS -> Msgs \cup {NoMsg}]
  BY <1>1 DEF SendTypes
<1>3. Len(sendQueue[p]) # 1 => rest # <<>>
  <2>1. Len(rest) = Len(sendQueue[p]) - 1
    BY <1>1
  <2>2. rest \in Seq(Msgs) /\ Len(sendQueue[p]) \in Nat
    BY <1>1
  <2> HIDE DEF rest
  <2>3. rest = <<>> => Len(rest) = 0
    BY <2>2
  <2> QED BY <2>1, <2>2, <2>3
<1>4. /\ AssocSend(p, m, rest, pendingQueue[p])
      /\ session' = session /\ state' = state /\ written' = written
      /\ busy' = [busy EXCEPT ![p] = IF Len(sendQueue[p]) = 1 THEN "idle" ELSE @]
  BY DEF FlushStep, hsVars
<1>5. sendQueue' = [sendQueue EXCEPT ![p] = rest]
  BY <1>1, <1>4 DEF AssocSend, SendQueued, SendPending, SendChunks
<1> HIDE DEF m, rest
<1>6. /\ SendTypes'
      /\ \A q \in Peers : TableInv(q)' /\ TimerInv(q)'
      /\ \A q \in Peers \ {p} : /\ sendQueue'[q] = sendQueue[q]
                               /\ pendingQueue'[q] = pendingQueue[q]
  <2>1. busy' \in [Peers -> {"idle", "flush", "drain"}]
    BY <1>4 DEF SendTypes
  <2> QED BY <2>1, <1>1, <1>2, <1>4, AssocSendKeeps DEF SendTypes
<1>7. \A q \in Peers \ {p} : LoopInv(q)'
  <2>1. \A q \in Peers \ {p} : busy'[q] = busy[q]
    BY <1>4 DEF SendTypes
  <2> QED BY <1>4, <1>6, <2>1, LoopElsewhere
<1>8. LoopInv(p)'
  <2>1. sendQueue'[p] = rest
    BY <1>5 DEF SendTypes
  <2>2. busy'[p] = (IF Len(sendQueue[p]) = 1 THEN "idle" ELSE "flush")
    BY <1>1, <1>4 DEF SendTypes
  <2> QED BY <1>1, <1>3, <1>4, <2>1, <2>2 DEF LoopInv
<1> QED BY <1>4, <1>6, <1>7, <1>8

\* The slot that sctpDrainPendingQueue takes holds a message.
LEMMA LowestInUse ==
  ASSUME SendInv, NEW p \in Peers, InUse(pendingQueue[p]) # {}
  PROVE  /\ Lowest(InUse(pendingQueue[p])) \in InUse(pendingQueue[p])
         /\ Lowest(InUse(pendingQueue[p])) \in 1..SCTP_MAX_PENDING_SENDS
         /\ pendingQueue[p][Lowest(InUse(pendingQueue[p]))] \in Msgs
<1>1. pendingQueue[p] \in [1..SCTP_MAX_PENDING_SENDS -> Msgs \cup {NoMsg}]
  BY DEF SendInv, SendTypes
<1>2. InUse(pendingQueue[p]) \subseteq 1..SCTP_MAX_PENDING_SENDS
  BY <1>1 DEF InUse
<1>3. \E s \in InUse(pendingQueue[p]) : \A t \in InUse(pendingQueue[p]) : s <= t
  BY <1>2, LowestExists, LimitsAssumption
<1>4. Lowest(InUse(pendingQueue[p])) \in InUse(pendingQueue[p])
  BY <1>3 DEF Lowest
<1>5. \A s \in InUse(pendingQueue[p]) : pendingQueue[p][s] \in Msgs
  BY <1>1 DEF InUse
<1> QED BY <1>2, <1>4, <1>5

\* One iteration of sctpDrainPendingQueue.
LEMMA SendInvDrain ==
  ASSUME SendInv, NEW p \in Peers, DrainStep(p)
  PROVE  SendInv'
<1> USE DEF SendInv
<1> DEFINE slot == Lowest(InUse(pendingQueue[p]))
           rest == [pendingQueue[p] EXCEPT ![slot] = NoMsg]
           full == Congested(p) \/ outstandingCount[p] >= SCTP_MAX_OUTSTANDING
<1>1. /\ busy[p] = "drain" /\ session[p] = "active"
      /\ InUse(pendingQueue[p]) # {}
      /\ sendQueue[p] \in Seq(Msgs)
      /\ pendingQueue[p] \in [1..SCTP_MAX_PENDING_SENDS -> Msgs \cup {NoMsg}]
  BY DEF DrainStep, LoopInv, SendTypes
<1>2. /\ session' = session /\ state' = state /\ written' = written
      /\ \/ busy' = [busy EXCEPT ![p] = "idle"] /\ UNCHANGED <<chunkVars, queueVars>>
         \/ /\ ~full
            /\ AssocSend(p, pendingQueue[p][slot], sendQueue[p], rest)
            /\ busy' = [busy EXCEPT ![p] = IF InUse(rest) = {} THEN "idle" ELSE @]
  BY DEF DrainStep, hsVars
<1>3. CASE busy' = [busy EXCEPT ![p] = "idle"] /\ UNCHANGED <<chunkVars, queueVars>>
  <2>1. /\ UNCHANGED <<nextTsn, nextSsn, outstanding, outstandingCount, flightSize,
                      t3RtxExpiry, onWire>>
        /\ UNCHANGED <<sendQueue, pendingQueue, dropped, written, session, state>>
    BY <1>2, <1>3 DEF chunkVars, queueVars
  <2>2. SendTypes'
    BY <1>3, <2>1 DEF SendTypes
  <2>3. \A q \in Peers : TableInv(q)' /\ TimerInv(q)'
    BY <2>1 DEF TableInv, TimerInv
  <2>4. \A q \in Peers : LoopInv(q)'
    BY <1>3, <2>1 DEF LoopInv, InUse, SendTypes
  <2> QED BY <2>1, <2>2, <2>3, <2>4
<1>4. CASE /\ ~full
           /\ AssocSend(p, pendingQueue[p][slot], sendQueue[p], rest)
           /\ busy' = [busy EXCEPT ![p] = IF InUse(rest) = {} THEN "idle" ELSE @]
  <2>1. slot \in InUse(pendingQueue[p]) /\ slot \in 1..SCTP_MAX_PENDING_SENDS
    BY <1>1, LowestInUse
  <2> DEFINE m == pendingQueue[p][slot]
  <2>2. m \in Msgs /\ rest \in [1..SCTP_MAX_PENDING_SENDS -> Msgs \cup {NoMsg}]
    BY <1>1, <2>1 DEF InUse
  <2>3. pendingQueue' = [pendingQueue EXCEPT ![p] = rest]
    BY <1>4 DEF AssocSend, SendQueued, SendPending, SendChunks
  <2> HIDE DEF rest, slot
  <2>4. /\ SendTypes'
        /\ \A q \in Peers : TableInv(q)' /\ TimerInv(q)'
        /\ \A q \in Peers \ {p} : /\ sendQueue'[q] = sendQueue[q]
                                 /\ pendingQueue'[q] = pendingQueue[q]
    <3>1. busy' \in [Peers -> {"idle", "flush", "drain"}]
      BY <1>4 DEF SendTypes
    <3> QED BY <3>1, <1>1, <1>2, <1>4, <2>2, AssocSendKeeps DEF SendTypes
  <2>5. \A q \in Peers \ {p} : LoopInv(q)'
    <3>1. \A q \in Peers \ {p} : busy'[q] = busy[q]
      BY <1>4 DEF SendTypes
    <3> QED BY <1>2, <2>4, <3>1, LoopElsewhere
  <2>6. LoopInv(p)'
    <3>1. pendingQueue'[p] = rest
      BY <2>3 DEF SendTypes
    <3>2. busy'[p] = (IF InUse(rest) = {} THEN "idle" ELSE "drain")
      BY <1>1, <1>4 DEF SendTypes
    <3> QED BY <1>1, <1>2, <3>1, <3>2 DEF LoopInv, InUse
  <2> QED BY <1>2, <2>4, <2>5, <2>6
<1> QED BY <1>2, <1>3, <1>4

\* sctpHandleSack releases what the SACK covers and nothing else.
LEMMA SendInvSack ==
  ASSUME SendInv, NEW p \in Peers, NEW m, HandleSack(p, m)
  PROVE  SendInv'
<1> USE DEF SendInv
<1> DEFINE acked == {c \in outstanding[p] : SackCovers(m, c.tsn)}
           kept  == outstanding[p] \ acked
<1>1. /\ session[p] = "active" /\ busy[p] = "idle"
      /\ ReleaseChunks(p, acked, kept)
      /\ IF acked # {}
         THEN /\ t3RtxExpiry' = [t3RtxExpiry EXCEPT ![p] = T3Wanted(kept)]
              /\ busy' = [busy EXCEPT ![p] = AfterSack(p)]
         ELSE UNCHANGED <<t3RtxExpiry, busy>>
  BY DEF HandleSack, Arrives, Idle
<1>2. /\ UNCHANGED <<session, state>>
      /\ UNCHANGED <<nextTsn, nextSsn, onWire, sendQueue, pendingQueue, dropped, written>>
  BY DEF HandleSack, hsVars, queueVars
<1>3. acked \in SUBSET outstanding[p] /\ kept \subseteq outstanding[p]
  OBVIOUS
<1>4. acked = {} => kept = outstanding[p]
  OBVIOUS
<1> HIDE DEF acked
<1>5. kept \in SUBSET Chunks
  BY <1>3 DEF SendTypes
<1>6. IsFiniteSet(kept) /\ Cardinality(kept) = Cardinality(outstanding[p]) - Cardinality(acked)
  BY <1>3, ReleasedCount DEF TableInv
<1>7. /\ \A c, d \in kept : c.tsn = d.tsn => c = d
      /\ \A c \in kept : c.tsn < nextTsn[p]
  BY <1>3 DEF TableInv
<1> HIDE DEF kept
<1>8. /\ outstanding' = [outstanding EXCEPT ![p] = kept]
      /\ outstanding' \in [Peers -> SUBSET Chunks]
      /\ outstandingCount' \in [Peers -> 0..SCTP_MAX_OUTSTANDING]
      /\ flightSize' \in [Peers -> Nat]
      /\ \A q \in Peers : TableInv(q)'
  BY <1>1, <1>2, <1>3, <1>5, <1>6, <1>7, ReleaseKeeps
<1>9. AfterSack(p) \in {"idle", "drain"} /\ (AfterSack(p) = "drain" => InUse(pendingQueue[p]) # {})
  BY <1>1 DEF AfterSack
<1>10. t3RtxExpiry' \in [Peers -> BOOLEAN] /\ busy' \in [Peers -> {"idle", "flush", "drain"}]
  <2>1. CASE acked = {}
    BY <1>1, <2>1 DEF SendTypes
  <2>2. CASE acked # {}
    BY <1>1, <1>9, <2>2 DEF SendTypes, T3Wanted
  <2> QED BY <2>1, <2>2
<1>11. SendTypes'
  BY <1>2, <1>8, <1>10 DEF SendTypes
<1>12. \A q \in Peers \ {p} : outstanding'[q] = outstanding[q]
                             /\ t3RtxExpiry'[q] = t3RtxExpiry[q] /\ busy'[q] = busy[q]
  BY <1>1, <1>8 DEF SendTypes
<1>13. \A q \in Peers \ {p} : TimerInv(q)' /\ LoopInv(q)'
  BY <1>2, <1>12, LoopElsewhere DEF TimerInv
<1>14. outstanding'[p] = kept
  BY <1>8 DEF SendTypes
<1>15. TimerInv(p)'
  <2>1. CASE acked = {}
    BY <1>1, <1>2, <1>4, <1>14, <2>1 DEF TimerInv
  <2>2. CASE acked # {}
    <3>1. t3RtxExpiry'[p] = T3Wanted(kept)
      BY <1>1, <2>2 DEF SendTypes
    <3> QED BY <1>1, <1>2, <1>14, <3>1 DEF TimerInv, T3Wanted
  <2> QED BY <2>1, <2>2
<1>16. LoopInv(p)'
  <2>1. CASE acked = {}
    BY <1>1, <1>2, <2>1, LoopElsewhere
  <2>2. CASE acked # {}
    <3>1. busy'[p] = AfterSack(p)
      BY <1>1, <2>2 DEF SendTypes
    <3> QED BY <1>1, <1>2, <1>9, <3>1 DEF LoopInv, InUse
  <2> QED BY <2>1, <2>2
<1> QED BY <1>2, <1>8, <1>11, <1>13, <1>15, <1>16

\* T3-rtx: some chunks are abandoned, the others are sent again.
LEMMA SendInvT3 ==
  ASSUME SendInv, NEW p \in Peers, NEW cut, T3ExpireAt(p, cut)
  PROVE  SendInv'
<1> USE DEF SendInv
<1> DEFINE gone == {c \in outstanding[p] : ShouldAbandon(c, cut)}
           left == outstanding[p] \ gone
           kept == {Retransmitted(c) : c \in left}
<1>1. /\ session[p] = "active"
      /\ ReleaseChunks(p, gone, kept)
      /\ t3RtxExpiry' = [t3RtxExpiry EXCEPT ![p] = T3Wanted(kept)]
  BY DEF T3ExpireAt, Idle
<1>2. /\ UNCHANGED <<session, state, busy>>
      /\ UNCHANGED <<nextTsn, nextSsn, onWire, sendQueue, pendingQueue, dropped, written>>
  BY DEF T3ExpireAt, hsVars, queueVars
<1>3. gone \in SUBSET outstanding[p] /\ left \subseteq outstanding[p]
  OBVIOUS
<1> HIDE DEF gone
<1>4. IsFiniteSet(left) /\ Cardinality(left) = Cardinality(outstanding[p]) - Cardinality(gone)
  BY <1>3, ReleasedCount DEF TableInv
<1>5. /\ left \in SUBSET Chunks
      /\ \A c, d \in left : c.tsn = d.tsn => c = d
      /\ \A c \in left : c.tsn < nextTsn[p]
  BY <1>3 DEF TableInv, SendTypes
<1> HIDE DEF left
<1>6. \A c \in Chunks : Retransmitted(c) \in Chunks /\ Retransmitted(c).tsn = c.tsn
  BY DEF Retransmitted, Chunks
<1>7. IsFiniteSet(kept) /\ Cardinality(kept) = Cardinality(left)
  BY <1>4, <1>5, RetransmittedCount
<1>8. /\ kept \in SUBSET Chunks
      /\ \A c, d \in kept : c.tsn = d.tsn => c = d
      /\ \A c \in kept : c.tsn < nextTsn[p]
  BY <1>5, <1>6
<1> HIDE DEF kept
<1>9. /\ outstanding' = [outstanding EXCEPT ![p] = kept]
      /\ outstanding' \in [Peers -> SUBSET Chunks]
      /\ outstandingCount' \in [Peers -> 0..SCTP_MAX_OUTSTANDING]
      /\ flightSize' \in [Peers -> Nat]
      /\ \A q \in Peers : TableInv(q)'
  BY <1>1, <1>2, <1>3, <1>4, <1>7, <1>8, ReleaseKeeps
<1>10. t3RtxExpiry' \in [Peers -> BOOLEAN]
  BY <1>1 DEF SendTypes, T3Wanted
<1>11. SendTypes'
  BY <1>2, <1>9, <1>10 DEF SendTypes
<1>12. \A q \in Peers \ {p} : TimerInv(q)'
  BY <1>1, <1>2, <1>9 DEF TimerInv, SendTypes
<1>13. TimerInv(p)'
  BY <1>1, <1>2, <1>9 DEF TimerInv, SendTypes, T3Wanted
<1>14. \A q \in Peers : LoopInv(q)'
  BY <1>2, LoopElsewhere
<1> QED BY <1>2, <1>9, <1>11, <1>12, <1>13, <1>14

\* COOKIE-ECHO and COOKIE-ACK: the association is up and the loop over the
\* send queue runs if there is something in it.
LEMMA SendInvEstablish ==
  ASSUME SendInv, NEW p \in Peers, Idle(p), Establish(p),
         UNCHANGED <<chunkVars, queueVars, written, session>>
  PROVE  SendInv'
<1> USE DEF SendInv
<1>1. /\ UNCHANGED <<nextTsn, nextSsn, outstanding, outstandingCount, flightSize,
                    t3RtxExpiry, onWire>>
      /\ UNCHANGED <<sendQueue, pendingQueue, dropped, written, session>>
  BY DEF chunkVars, queueVars
<1>2. /\ state' = [state EXCEPT ![p] = "ESTABLISHED"]
      /\ busy' = [busy EXCEPT ![p] = IF sendQueue[p] = <<>> THEN @ ELSE "flush"]
      /\ busy[p] = "idle" /\ session[p] = "active"
  BY DEF Establish, Idle
<1>3. state' \in [Peers -> AssocState] /\ SendTypes'
  BY <1>1, <1>2 DEF SendTypes, AssocState
<1>4. \A q \in Peers : TableInv(q)' /\ TimerInv(q)'
  BY <1>1 DEF TableInv, TimerInv
<1>5. \A q \in Peers \ {p} : LoopInv(q)'
  <2>1. \A q \in Peers \ {p} : state'[q] = state[q] /\ busy'[q] = busy[q]
    BY <1>2 DEF SendTypes
  <2> QED BY <1>1, <2>1, LoopElsewhere
<1>6. LoopInv(p)'
  <2>1. /\ state'[p] = "ESTABLISHED"
        /\ busy'[p] = (IF sendQueue[p] = <<>> THEN "idle" ELSE "flush")
    BY <1>2 DEF SendTypes
  <2> QED BY <1>1, <1>2, <2>1 DEF LoopInv
<1> QED BY <1>1, <1>3, <1>4, <1>5, <1>6

\* sctpAssocConnect starts with empty tables.
LEMMA SendInvConnect ==
  ASSUME SendInv, NEW p \in Peers, Connect(p)
  PROVE  SendInv'
<1> USE DEF SendInv
<1>1. /\ UNCHANGED <<nextTsn, nextSsn, outstanding, outstandingCount, flightSize,
                    t3RtxExpiry, onWire>>
      /\ UNCHANGED <<sendQueue, pendingQueue, dropped, written, busy>>
  BY DEF Connect, txVars, chunkVars, queueVars
<1>2. /\ session[p] = "none"
      /\ session' = [session EXCEPT ![p] = "active"]
      /\ state' = [state EXCEPT ![p] = "COOKIE_WAIT"]
  BY DEF Connect
<1>3. /\ state' \in [Peers -> AssocState] /\ SendTypes'
      /\ session' \in [Peers -> {"none", "active", "freed"}]
  BY <1>1, <1>2 DEF SendTypes, AssocState
<1>4. \A q \in Peers : TableInv(q)'
  BY <1>1 DEF TableInv
<1>5. \A q \in Peers \ {p} : session'[q] = session[q] /\ state'[q] = state[q]
  BY <1>2
<1>6. \A q \in Peers \ {p} : TimerInv(q)' /\ LoopInv(q)'
  BY <1>1, <1>5, LoopElsewhere DEF TimerInv
<1>7. session'[p] = "active" /\ busy'[p] = "idle" /\ outstanding'[p] = {} /\ ~t3RtxExpiry'[p]
  BY <1>1, <1>2 DEF TimerInv, LoopInv
<1>8. TimerInv(p)' /\ LoopInv(p)'
  BY <1>7 DEF TimerInv, LoopInv
<1> QED BY <1>3, <1>4, <1>6, <1>8

\* freeSctpSession empties the tables and stops the loops.
LEMMA SendInvFree ==
  ASSUME SendInv, NEW p \in Peers, FreeSession(p)
  PROVE  SendInv'
<1> USE DEF SendInv
<1>1. /\ session' = [session EXCEPT ![p] = "freed"]
      /\ state' = [state EXCEPT ![p] = IF @ = "ESTABLISHED" THEN "SHUTDOWN_SENT" ELSE @]
      /\ outstanding' = [outstanding EXCEPT ![p] = {}]
      /\ outstandingCount' = [outstandingCount EXCEPT ![p] = 0]
      /\ flightSize' = [flightSize EXCEPT ![p] = 0]
      /\ pendingQueue' = [pendingQueue EXCEPT ![p] = [s \in DOMAIN pendingQueue[p] |-> NoMsg]]
      /\ UNCHANGED <<nextTsn, nextSsn, t3RtxExpiry, onWire, sendQueue, dropped, written, busy>>
      /\ busy[p] = "idle"
  BY DEF FreeSession, Idle
<1>2. [s \in DOMAIN pendingQueue[p] |-> NoMsg]
        \in [1..SCTP_MAX_PENDING_SENDS -> Msgs \cup {NoMsg}]
  BY DEF SendTypes
<1>3. pendingQueue' \in [Peers -> [1..SCTP_MAX_PENDING_SENDS -> Msgs \cup {NoMsg}]]
  BY <1>1, <1>2 DEF SendTypes
<1>4. /\ outstanding' \in [Peers -> SUBSET Chunks]
      /\ outstandingCount' \in [Peers -> 0..SCTP_MAX_OUTSTANDING]
      /\ flightSize' \in [Peers -> Nat]
  BY <1>1, LimitsAssumption DEF SendTypes
<1>5. SendTypes'
  BY <1>1, <1>3, <1>4 DEF SendTypes
<1>6. /\ state' \in [Peers -> AssocState]
      /\ session' \in [Peers -> {"none", "active", "freed"}]
  BY <1>1 DEF AssocState
<1>7. \A q \in Peers \ {p} : /\ session'[q] = session[q] /\ state'[q] = state[q]
                            /\ outstanding'[q] = outstanding[q]
                            /\ outstandingCount'[q] = outstandingCount[q]
                            /\ flightSize'[q] = flightSize[q]
                            /\ pendingQueue'[q] = pendingQueue[q]
  BY <1>1 DEF SendTypes
<1>8. \A q \in Peers \ {p} : TableInv(q)' /\ TimerInv(q)' /\ LoopInv(q)'
  BY <1>1, <1>7, LoopElsewhere DEF TableInv, TimerInv
<1>9. /\ session'[p] = "freed" /\ busy'[p] = "idle" /\ outstanding'[p] = {}
      /\ outstandingCount'[p] = 0 /\ flightSize'[p] = 0
  BY <1>1 DEF SendTypes
<1>10. TableInv(p)' /\ TimerInv(p)' /\ LoopInv(p)'
  BY <1>9, FS_EmptySet DEF TableInv, TimerInv, LoopInv
<1> QED BY <1>5, <1>6, <1>8, <1>10

-----------------------------------------------------------------------------
(* The invariant                                                           *)

\* Nothing is kept and no timer is armed at first.
LEMMA SendInvInit == Init => SendInv
<1> SUFFICES ASSUME Init PROVE SendInv
  OBVIOUS
<1>1. /\ session \in [Peers -> {"none", "active", "freed"}]
      /\ state \in [Peers -> AssocState]
  BY DEF Init, AssocState
<1>2. SendTypes
  <2>1. \A S : <<>> \in Seq(S)
    OBVIOUS
  <2> QED BY <2>1, LimitsAssumption DEF Init, SendTypes
<1>3. \A p \in Peers : TableInv(p) /\ TimerInv(p) /\ LoopInv(p)
  BY FS_EmptySet DEF Init, TableInv, TimerInv, LoopInv
<1> QED BY <1>1, <1>2, <1>3 DEF SendInv

\* Every step keeps the send side consistent.
LEMMA SendInvNext == SendInv /\ [Next]_vars => SendInv'
<1> SUFFICES ASSUME SendInv, [Next]_vars PROVE SendInv'
  OBVIOUS
<1> DEFINE Still == UNCHANGED <<chunkVars, queueVars, written, busy, session>>
<1>0. ASSUME UNCHANGED vars PROVE SendInv'
  <2>1. Still /\ state' = state
    BY <1>0 DEF vars, txVars, hsVars
  <2> QED BY <2>1, QuietStep DEF SendInv
<1>1. ASSUME NEW m, Lose(m) PROVE SendInv'
  <2>1. Still /\ state' = state
    BY <1>1 DEF Lose, txVars, hsVars
  <2> QED BY <2>1, QuietStep DEF SendInv
<1>2. ASSUME NEW p \in Peers, Idle(p), Still,
             \E s \in AssocState : state' = [state EXCEPT ![p] = s]
      PROVE  SendInv'
  <2>1. PICK s \in AssocState : state' = [state EXCEPT ![p] = s]
    BY <1>2
  <2>2. busy[p] = "idle"
    BY <1>2 DEF Idle
  <2>3. \A q \in Peers : busy[q] = "flush" => state'[q] = state[q]
    BY <2>1, <2>2 DEF SendInv
  <2>4. state' \in [Peers -> AssocState]
    BY <2>1 DEF SendInv
  <2> QED BY <1>2, <2>3, <2>4, QuietStep
<1>3. ASSUME NEW p \in Peers, Still, state' = state
      PROVE  SendInv'
  BY <1>3, QuietStep DEF SendInv
<1>4. ASSUME NEW p \in Peers, T1Expire(p) PROVE SendInv'
  <2>1. Idle(p) /\ Still
    BY <1>4 DEF T1Expire, txVars
  <2>2. state' = state \/ state' = [state EXCEPT ![p] = "CLOSED"]
    BY <1>4 DEF T1Expire
  <2>3. "CLOSED" \in AssocState
    BY DEF AssocState
  <2> QED BY <2>1, <2>2, <2>3, <1>2, <1>3
<1>5. ASSUME NEW p \in Peers, NEW m, HandlePacket(p, m) PROVE SendInv'
  <2>1. ASSUME HandleInit(p, m) \/ HandleData(p, m) \/ HandleForwardTsn(p, m)
        PROVE  SendInv'
    <3>1. Still /\ state' = state
      BY <2>1 DEF HandleInit, HandleData, HandleForwardTsn, txVars, hsVars
    <3> QED BY <3>1, <1>3
  <2>2. ASSUME HandleInitAck(p, m) PROVE SendInv'
    <3>1. Idle(p) /\ Still
      BY <2>2 DEF HandleInitAck, Arrives, txVars
    <3>2. state' = state \/ state' = [state EXCEPT ![p] = "COOKIE_ECHOED"]
      BY <2>2 DEF HandleInitAck
    <3>3. "COOKIE_ECHOED" \in AssocState
      BY DEF AssocState
    <3> QED BY <3>1, <3>2, <3>3, <1>2, <1>3
  <2>3. ASSUME HandleCookieEcho(p, m) PROVE SendInv'
    <3>1. Idle(p) /\ Establish(p) /\ UNCHANGED <<chunkVars, queueVars, written, session>>
      BY <2>3 DEF HandleCookieEcho, Arrives
    <3> QED BY <3>1, SendInvEstablish
  <2>4. ASSUME HandleCookieAck(p, m) PROVE SendInv'
    <3>1. /\ Idle(p)
          /\ Establish(p) \/ UNCHANGED <<state, busy>>
          /\ UNCHANGED <<chunkVars, queueVars, written, session>>
      BY <2>4 DEF HandleCookieAck, Arrives
    <3>2. CASE Establish(p)
      BY <3>1, <3>2, SendInvEstablish
    <3>3. CASE UNCHANGED <<state, busy>>
      BY <3>1, <3>3, <1>3
    <3> QED BY <3>1, <3>2, <3>3
  <2>5. ASSUME \/ HandleShutdown(p, m) \/ HandleShutdownAck(p, m)
               \/ HandleShutdownComplete(p, m)
        PROVE  SendInv'
    <3>1. Idle(p) /\ Still
      BY <2>5 DEF HandleShutdown, HandleShutdownAck, HandleShutdownComplete,
                  Arrives, SetState, txVars
    <3>2. \E s \in AssocState : state' = [state EXCEPT ![p] = s]
      BY <2>5 DEF HandleShutdown, HandleShutdownAck, HandleShutdownComplete,
                  SetState, AssocState
    <3> QED BY <3>1, <3>2, <1>2
  <2> QED BY <1>5, <2>1, <2>2, <2>3, <2>4, <2>5, SendInvSack DEF HandlePacket
<1>6. ASSUME NEW p \in Peers, AssocShutdown(p) \/ HandleAbort(p) PROVE SendInv'
  <2>1. Idle(p) /\ Still
    BY <1>6 DEF AssocShutdown, HandleAbort, SetState, txVars
  <2>2. \E s \in AssocState : state' = [state EXCEPT ![p] = s]
    BY <1>6 DEF AssocShutdown, HandleAbort, SetState, AssocState
  <2> QED BY <2>1, <2>2, <1>2
<1>7. ASSUME NEW p \in Peers, T3Expire(p) PROVE SendInv'
  BY <1>7, SendInvT3 DEF T3Expire
<1>8. CASE Next
  BY <1>1, <1>4, <1>5, <1>6, <1>7, <1>8, SendInvConnect, SendInvWrite, SendInvFlush,
     SendInvDrain, SendInvFree DEF Next
<1> QED BY <1>0, <1>8

\* The counters kept beside outstanding[] are exact and T3-rtx is armed
\* exactly while a chunk is kept, for all limits, windows and messages
\* (sctpAssocSend, sctpHandleSack, sctpAssocCheckTimers, freeSctpSession).
THEOREM SendSideCorrect == Spec => [](Accounting /\ T3Armed)
<1>1. SendInv => Accounting /\ T3Armed
  BY DEF SendInv, TableInv, TimerInv, Accounting, T3Armed
<1> QED BY <1>1, SendInvInit, SendInvNext, PTL DEF Spec

-----------------------------------------------------------------------------
(* Types, table sizes and TSN bounds.  The handlers do not check what they *)
(* read from a packet, so the packets in flight are part of the invariant: *)
(* each names TSNs its sender has reached.  The bound on receivedTsns[] is *)
(* also what makes the search for the new cumulative TSN end.              *)

PacketBound(m) ==
  /\ m.type = "INIT" => m.tsn <= nextTsn[Other(m.to)]
  /\ m.type = "INIT_ACK" => /\ m.tsn <= nextTsn[Other(m.to)]
                            /\ m.cookie.peerInitialTsn <= nextTsn[m.to]
  /\ m.type = "COOKIE_ECHO" => m.cookie.peerInitialTsn <= nextTsn[Other(m.to)]
  /\ m.type \in {"DATA", "FORWARD_TSN"} => m.tsn < nextTsn[Other(m.to)]
  /\ m.type = "SACK" => m.cum < nextTsn[m.to]

NetInv ==
  /\ IsABag(net) /\ losses \in Nat
  /\ \A m \in BagToSet(net) : m \in Packets /\ PacketBound(m)

CookieBound == \A p \in Peers : cookieEchoData[p].peerInitialTsn <= nextTsn[p]

RestInv ==
  /\ HandshakeTypes /\ ReceiveTypes /\ AckTypes
  /\ CookieBound /\ NothingFromTheFuture

FullInv == SendInv /\ RestInv /\ NetInv

\* Every bounded set of TSNs has a greatest one.
LEMMA GreatestExists ==
  ASSUME NEW u \in Nat, NEW S \in SUBSET (0..u), S # {}
  PROVE  \E s \in S : \A t \in S : t <= s
<1> DEFINE D == {u - s + 1 : s \in S}
<1>0. u + 1 \in Nat
  OBVIOUS
<1>1. D \in SUBSET (1..(u + 1)) /\ D # {}
  <2>1. PICK s \in S : TRUE
    OBVIOUS
  <2>2. u - s + 1 \in D
    BY <2>1
  <2>3. \A t \in S : u - t + 1 \in 1..(u + 1)
    OBVIOUS
  <2> QED BY <2>2, <2>3
<1>2. PICK d \in D : \A e \in D : d <= e
  <2> HIDE DEF D
  <2> QED BY <1>0, <1>1, LowestExists
<1>3. PICK s \in S : d = u - s + 1
  BY <1>2
<1>4. \A t \in S : u - s + 1 <= u - t + 1
  BY <1>2, <1>3
<1> QED BY <1>3, <1>4

\* The search for the end of a run of received TSNs finds one.
LEMMA AdvancedFound ==
  ASSUME NEW c \in Nat, NEW recv \in SUBSET Nat, NEW u \in Nat,
         c < u, \A t \in recv : t < u
  PROVE  /\ Advanced(c, recv) \in {c} \cup recv /\ c <= Advanced(c, recv)
         /\ (c + 1) .. Advanced(c, recv) \subseteq recv
<1> DEFINE E == {n \in 0..u : c <= n /\ n + 1 \notin recv}
           F == {n + 1 : n \in E}
<1>0. u + 1 \in Nat
  OBVIOUS
<1>1. u \in E
  OBVIOUS
<1>2. F \in SUBSET (1..(u + 1)) /\ F # {}
  BY <1>1
<1>3. PICK f \in F : \A g \in F : f <= g
  <2> HIDE DEF F
  <2> QED BY <1>0, <1>2, LowestExists
<1>4. PICK n \in E : f = n + 1
  BY <1>3
<1>5. \A k \in E : n <= k
  <2> SUFFICES ASSUME NEW k \in E PROVE n <= k
    OBVIOUS
  <2>1. k + 1 \in F
    OBVIOUS
  <2> QED BY <1>3, <1>4, <2>1
<1>6. (c + 1) .. n \subseteq recv
  <2> SUFFICES ASSUME NEW t \in (c + 1) .. n, t \notin recv PROVE FALSE
    OBVIOUS
  <2>1. t - 1 \in E
    BY <1>4
  <2> QED BY <1>5, <2>1
<1>7. n \in {c} \cup recv /\ c <= n /\ n + 1 \notin recv
  BY <1>4, <1>6
<1> QED BY <1>6, <1>7 DEF Advanced

\* Receive tracking stays within what the peer has sent and within
\* receivedTsns[].
LEMMA TrackedTypes ==
  ASSUME NEW cum \in Int, NEW recv \in SUBSET Nat, NEW tsn \in Nat, NEW u \in Nat,
         cum < tsn, tsn < u, \A t \in recv : t < u, cum \in Nat \/ tsn = cum + 1,
         Cardinality(recv) <= SCTP_MAX_RECEIVED
  PROVE  LET t == Tracked(cum, recv, tsn)
         IN  /\ t.c \in Nat /\ t.c < u
             /\ t.r \in SUBSET Nat /\ \A n \in t.r : n < u
             /\ Cardinality(t.r) <= SCTP_MAX_RECEIVED
<1>1. IsFiniteSet(recv) /\ Cardinality(recv) \in Nat
  <2>1. IsFiniteSet(recv)
    BY FS_BoundedSetOfNaturals
  <2> QED BY <2>1, FS_CardinalityType
<1>2. CASE tsn = cum + 1
  <2> DEFINE c == Advanced(tsn, recv)
             r == recv \ ((tsn + 1) .. c)
  <2>1. c \in {tsn} \cup recv
    BY AdvancedFound
  <2> HIDE DEF c
  <2>2. r \in SUBSET recv
    OBVIOUS
  <2>3. Cardinality(r) \in Nat /\ Cardinality(r) <= Cardinality(recv)
    <3> HIDE DEF r
    <3> QED BY <1>1, <2>2, FS_Subset, FS_CardinalityType
  <2>4. Tracked(cum, recv, tsn).c = c /\ Tracked(cum, recv, tsn).r = r
    BY <1>2 DEF Tracked, c
  <2>5. Cardinality(r) <= SCTP_MAX_RECEIVED
    BY <1>1, <2>3, LimitsAssumption
  <2>6. c \in Nat /\ c < u
    BY <2>1
  <2> HIDE DEF r
  <2> QED BY <2>2, <2>4, <2>5, <2>6
<1>3. CASE tsn # cum + 1
  <2> DEFINE r == Noted(recv, tsn)
  <2>1. r = recv \/ (Cardinality(recv) < SCTP_MAX_RECEIVED /\ r = recv \cup {tsn})
    BY DEF Noted
  <2>2. Cardinality(recv) < SCTP_MAX_RECEIVED
          => Cardinality(recv \cup {tsn}) <= SCTP_MAX_RECEIVED
    <3>1. IsFiniteSet(recv \cup {tsn})
          /\ (Cardinality(recv \cup {tsn}) = Cardinality(recv)
              \/ Cardinality(recv \cup {tsn}) = Cardinality(recv) + 1)
      BY <1>1, FS_AddElement
    <3> QED BY <1>1, <3>1, LimitsAssumption
  <2>3. Tracked(cum, recv, tsn).c = cum /\ Tracked(cum, recv, tsn).r = r
    BY <1>3 DEF Tracked
  <2>4. cum \in Nat /\ cum < u
    BY <1>3
  <2> HIDE DEF r
  <2>5. r \in SUBSET Nat /\ \A n \in r : n < u
    BY <2>1
  <2>6. Cardinality(r) <= SCTP_MAX_RECEIVED
    BY <2>1, <2>2
  <2> QED BY <2>3, <2>4, <2>5, <2>6
<1> QED BY <1>2, <1>3

\* A handler that sends packets pkts leaves nothing else new in flight.
LEMMA SentSet ==
  ASSUME IsABag(net), NEW pkts
  PROVE  IsABag(Sent(pkts)) /\ BagToSet(Sent(pkts)) = BagToSet(net) \cup pkts
BY DEF Sent, IsABag, BagToSet, SetToBag, (+)

\* Taking a packet out of the network adds none.
LEMMA TakenSet ==
  ASSUME IsABag(net), NEW m
  PROVE  /\ IsABag(net (-) SetToBag({m}))
         /\ BagToSet(net (-) SetToBag({m})) \subseteq BagToSet(net)
BY DEF IsABag, BagToSet, SetToBag, (-)

\* A handler that takes m and answers pkts adds only pkts.
LEMMA RepliedSet ==
  ASSUME IsABag(net), NEW m, NEW pkts
  PROVE  /\ IsABag(Replied(m, pkts))
         /\ BagToSet(Replied(m, pkts)) \subseteq BagToSet(net) \cup pkts
<1> DEFINE b == net (-) SetToBag({m})
<1>1. IsABag(b) /\ BagToSet(b) \subseteq BagToSet(net)
  BY TakenSet
<1> HIDE DEF b
<1>2. IsABag(b (+) SetToBag(pkts)) /\ BagToSet(b (+) SetToBag(pkts)) = BagToSet(b) \cup pkts
  BY <1>1 DEF IsABag, BagToSet, SetToBag, (+)
<1> QED BY <1>1, <1>2 DEF Replied, b

\* There are two peers.
LEMMA OtherPeer ==
  \A p \in Peers : Other(p) \in Peers /\ Other(p) # p /\ Other(Other(p)) = p
BY PeersAssumption DEF Peers, Other

\* What a handler may rely on when it reads a packet.
LEMMA PacketFields ==
  ASSUME NEW m \in Packets
  PROVE  /\ m.to \in Peers
         /\ m.type = "INIT" => m.tag \in Peers /\ m.tsn \in Nat \ {0}
         /\ m.type = "INIT_ACK" => /\ m.tag \in Peers /\ m.tsn \in Nat \ {0}
                                   /\ m.cookie \in Cookies
         /\ m.type = "COOKIE_ECHO" => m.cookie \in Cookies
         /\ m.type = "DATA" => /\ m.tsn \in Nat /\ m.part \in Seq(Nat)
                               /\ m.begin \in BOOLEAN /\ m.end \in BOOLEAN
         /\ m.type = "SACK" => m.cum \in Nat
         /\ m.type = "FORWARD_TSN" => m.tsn \in Nat
BY DEF Packets

\* TSNs are only ever taken.
LEMMA NextTsnGrows ==
  ASSUME SendInv, [Next]_vars
  PROVE  \A q \in Peers : nextTsn'[q] \in Nat /\ nextTsn[q] \in Nat /\ nextTsn[q] <= nextTsn'[q]
<1>1. SendInv' /\ \A q \in Peers : nextTsn'[q] \in Nat /\ nextTsn[q] \in Nat
  BY SendInvNext DEF SendInv, SendTypes
<1>2. ASSUME NEW p \in Peers, NEW m \in Msgs, NEW sq, NEW pend, AssocSend(p, m, sq, pend)
      PROVE  \A q \in Peers : nextTsn[q] <= nextTsn'[q]
  <2>1. CASE nextTsn' = nextTsn
    BY <1>1, <2>1
  <2>2. CASE SendChunks(p, m, sq, pend)
    <3>1. Stored(p, m) \in Nat
      BY LimitsAssumption, FragsAssumption DEF Stored, SendInv, SendTypes, Msgs
    <3>2. nextTsn' = [nextTsn EXCEPT ![p] = @ + (IF Stored(p, m) = m.frags
                                                 THEN Stored(p, m) ELSE Stored(p, m) + 1)]
      BY <2>2 DEF SendChunks
    <3>3. DOMAIN nextTsn = Peers
      BY DEF SendInv, SendTypes
    <3> DEFINE n == IF Stored(p, m) = m.frags THEN Stored(p, m) ELSE Stored(p, m) + 1
    <3>4. n \in Nat
      BY <3>1
    <3>5. \A q \in Peers : nextTsn'[q] = IF q = p THEN nextTsn[q] + n ELSE nextTsn[q]
      BY <3>2, <3>3
    <3> HIDE DEF n
    <3> QED BY <1>1, <3>4, <3>5
  <2> QED BY <1>2, <2>1, <2>2 DEF AssocSend, SendQueued, SendPending, chunkVars
<1>3. ASSUME NEW p \in Peers, WriteMessage(p) PROVE \A q \in Peers : nextTsn[q] <= nextTsn'[q]
  <2>1. PICK k \in Kinds, n \in 1..MaxFrags :
          AssocSend(p, [id |-> Len(written[p]) + 1, kind |-> k, frags |-> n],
                    sendQueue[p], pendingQueue[p])
    BY <1>3 DEF WriteMessage
  <2>2. Len(written[p]) \in Nat
    BY DEF SendInv, SendTypes
  <2>3. [id |-> Len(written[p]) + 1, kind |-> k, frags |-> n] \in Msgs
    BY <2>2, InputsAssumption DEF Msgs
  <2> QED BY <1>2, <2>1, <2>3
<1>4. ASSUME NEW p \in Peers, FlushStep(p) PROVE \A q \in Peers : nextTsn[q] <= nextTsn'[q]
  <2>1. Head(sendQueue[p]) \in Msgs
    <3>1. sendQueue[p] \in Seq(Msgs) /\ sendQueue[p] # <<>>
      BY <1>4 DEF FlushStep, SendInv, LoopInv, SendTypes
    <3> QED BY <3>1
  <2> QED BY <1>2, <1>4, <2>1 DEF FlushStep
<1>5. ASSUME NEW p \in Peers, DrainStep(p) PROVE \A q \in Peers : nextTsn[q] <= nextTsn'[q]
  <2>1. PICK slot, rest : \/ nextTsn' = nextTsn
                         \/ /\ slot = Lowest(InUse(pendingQueue[p]))
                            /\ AssocSend(p, pendingQueue[p][slot], sendQueue[p], rest)
    BY <1>5 DEF DrainStep, chunkVars
  <2>2. CASE nextTsn' = nextTsn
    BY <1>1, <2>2
  <2>3. CASE /\ slot = Lowest(InUse(pendingQueue[p]))
             /\ AssocSend(p, pendingQueue[p][slot], sendQueue[p], rest)
    <3>1. InUse(pendingQueue[p]) # {}
      BY <1>5 DEF DrainStep, SendInv, LoopInv
    <3>2. pendingQueue[p][slot] \in Msgs
      BY <2>3, <3>1, LowestInUse
    <3> QED BY <1>2, <2>3, <3>2
  <2> QED BY <2>1, <2>2, <2>3
<1>6. CASE UNCHANGED vars
  BY <1>1, <1>6, SMTT(60) DEF vars, txVars, chunkVars
<1>7. ASSUME NEW p \in Peers,
             \/ Connect(p) \/ T1Expire(p) \/ T3Expire(p)
             \/ AssocShutdown(p) \/ HandleAbort(p) \/ FreeSession(p)
             \/ \E m \in BagToSet(net) : HandlePacket(p, m)
             \/ \E m \in BagToSet(net) : Lose(m)
      PROVE  nextTsn' = nextTsn
  BY <1>7 DEF Connect, T1Expire, T3Expire, T3ExpireAt, AssocShutdown, HandleAbort, FreeSession,
     HandlePacket, HandleInit, HandleInitAck, HandleCookieEcho, HandleCookieAck, HandleData,
     HandleSack, HandleForwardTsn, HandleShutdown, HandleShutdownAck, HandleShutdownComplete,
     Lose, txVars, chunkVars
<1>8. CASE nextTsn' = nextTsn
  BY <1>1, <1>8
<1>9. PICK p \in Peers : TRUE
  BY DEF Peers
<1> QED BY <1>1, <1>3, <1>4, <1>5, <1>6, <1>7, <1>8, <1>9 DEF Next

\* What is in flight stays within its bounds.
LEMMA PacketsStay ==
  ASSUME FullInv, [Next]_vars
  PROVE  \A m \in BagToSet(net) : m \in Packets /\ PacketBound(m)'
<1>1. \A q \in Peers : nextTsn'[q] \in Nat /\ nextTsn[q] \in Nat /\ nextTsn[q] <= nextTsn'[q]
  BY NextTsnGrows DEF FullInv
<1> SUFFICES ASSUME NEW m \in BagToSet(net) PROVE m \in Packets /\ PacketBound(m)'
  OBVIOUS
<1>2. m \in Packets /\ PacketBound(m) /\ m.to \in Peers /\ Other(m.to) \in Peers
  BY PacketFields, OtherPeer DEF FullInv, NetInv
<1>3. /\ m.type = "INIT_ACK" => m.cookie.peerInitialTsn \in Nat
      /\ m.type = "COOKIE_ECHO" => m.cookie.peerInitialTsn \in Nat
  BY <1>2, PacketFields DEF Cookies
<1>4. /\ m.type \in {"INIT", "INIT_ACK", "DATA", "FORWARD_TSN"} => m.tsn \in Nat
      /\ m.type = "SACK" => m.cum \in Nat
  BY <1>2, PacketFields
<1> QED BY <1>1, <1>2, <1>3, <1>4 DEF PacketBound

\* New packets with bounds that hold after the step keep the network within
\* its invariant.
LEMMA NetKeeps ==
  ASSUME FullInv, [Next]_vars, NEW pkts,
         IsABag(net'), BagToSet(net') \subseteq BagToSet(net) \cup pkts, losses' \in Nat,
         \A m \in pkts : m \in Packets /\ PacketBound(m)'
  PROVE  NetInv'
BY PacketsStay DEF NetInv

\* A step that only takes packets keeps the network within its invariant.
LEMMA NetShrinks ==
  ASSUME FullInv, [Next]_vars, losses' \in Nat,
         IsABag(net'), BagToSet(net') \subseteq BagToSet(net)
  PROVE  NetInv'
BY PacketsStay DEF NetInv

\* A reply of one packet, or of none.
LEMMA ReplyKeeps ==
  ASSUME FullInv, [Next]_vars, NEW m, NEW d, losses' = losses,
         \/ net' = Replied(m, {})
         \/ net' = Replied(m, {d}) /\ d \in Packets /\ PacketBound(d)'
  PROVE  NetInv'
<1>1. IsABag(net) /\ losses \in Nat
  BY DEF FullInv, NetInv
<1>2. CASE net' = Replied(m, {})
  <2>1. IsABag(net') /\ BagToSet(net') \subseteq BagToSet(net)
    BY <1>1, <1>2, RepliedSet
  <2> QED BY <1>1, <2>1, NetShrinks
<1>3. CASE net' = Replied(m, {d}) /\ d \in Packets /\ PacketBound(d)'
  <2>1. IsABag(net') /\ BagToSet(net') \subseteq BagToSet(net) \cup {d}
    BY <1>1, <1>3, RepliedSet
  <2> QED BY <1>1, <1>3, <2>1, NetKeeps
<1> QED BY <1>2, <1>3

\* The same for a packet that answers nothing.
LEMMA SendKeeps ==
  ASSUME FullInv, [Next]_vars, NEW d, losses' = losses,
         \/ net' = net
         \/ net' = Sent({})
         \/ net' = Sent({d}) /\ d \in Packets /\ PacketBound(d)'
  PROVE  NetInv'
<1>1. IsABag(net) /\ losses \in Nat
  BY DEF FullInv, NetInv
<1>2. CASE net' = net
  <2>1. IsABag(net') /\ BagToSet(net') \subseteq BagToSet(net)
    BY <1>1, <1>2
  <2> QED BY <1>1, <2>1, NetShrinks
<1>3. CASE net' = Sent({})
  <2>1. IsABag(net') /\ BagToSet(net') \subseteq BagToSet(net)
    BY <1>1, <1>3, SentSet
  <2> QED BY <1>1, <2>1, NetShrinks
<1>4. CASE net' = Sent({d}) /\ d \in Packets /\ PacketBound(d)'
  <2>1. IsABag(net') /\ BagToSet(net') \subseteq BagToSet(net) \cup {d}
    BY <1>1, <1>4, SentSet
  <2> QED BY <1>1, <1>4, <2>1, NetKeeps
<1> QED BY <1>2, <1>3, <1>4

\* A step that only takes TSNs or queues messages leaves the rest as it is.
LEMMA RestKeeps ==
  ASSUME FullInv, [Next]_vars, UNCHANGED <<rxVars, ackVars, cookieEchoData>>, HandshakeTypes'
  PROVE  RestInv'
<1>1. \A q \in Peers : nextTsn'[q] \in Nat /\ nextTsn[q] \in Nat /\ nextTsn[q] <= nextTsn'[q]
  BY NextTsnGrows DEF FullInv
<1>2. /\ UNCHANGED <<peerCumulativeTsn, peerCumulativeTsnValid, receivedTsns>>
      /\ UNCHANGED <<reassembly, got, delivered>>
      /\ UNCHANGED <<cwnd, ssthresh, cumulativeAckTsn, advancedPeerAckPoint, cookieEchoData>>
  BY DEF rxVars, trackVars, inVars, ackVars
<1>3. ReceiveTypes' /\ AckTypes'
  BY <1>2 DEF FullInv, RestInv, ReceiveTypes, AckTypes
<1>4. CookieBound'
  <2>1. \A p \in Peers : cookieEchoData[p].peerInitialTsn \in Nat
    BY DEF FullInv, RestInv, HandshakeTypes, Cookies, NoCookie
  <2> QED BY <1>1, <1>2, <2>1 DEF FullInv, RestInv, CookieBound
<1>5. NothingFromTheFuture'
  <2> SUFFICES ASSUME NEW p \in Peers
               PROVE  /\ peerCumulativeTsn[p] < nextTsn'[Other(p)]
                      /\ \A t \in receivedTsns[p] \cup got[p] : t < nextTsn'[Other(p)]
                      /\ cumulativeAckTsn[p] < nextTsn'[p]
                      /\ advancedPeerAckPoint[p] < nextTsn'[p]
    BY <1>2 DEF NothingFromTheFuture
  <2>1. /\ peerCumulativeTsn[p] \in Nat /\ receivedTsns[p] \cup got[p] \subseteq Nat
        /\ cumulativeAckTsn[p] \in Nat /\ advancedPeerAckPoint[p] \in Nat
    BY DEF FullInv, RestInv, ReceiveTypes, AckTypes
  <2>2. Other(p) \in Peers
    BY OtherPeer
  <2> QED BY <1>1, <2>1, <2>2 DEF FullInv, RestInv, NothingFromTheFuture
<1> QED BY <1>3, <1>4, <1>5 DEF RestInv

\* The packets one call of sctpAssocSend puts in flight.
LEMMA AssocSendNet ==
  ASSUME FullInv, [Next]_vars, NEW p \in Peers, NEW m \in Msgs, NEW sq, NEW pend,
         AssocSend(p, m, sq, pend), losses' = losses
  PROVE  NetInv'
<1>1. IsABag(net) /\ losses \in Nat
  BY DEF FullInv, NetInv
<1>2. CASE net' = net
  BY <1>2, SendKeeps
<1>3. CASE SendChunks(p, m, sq, pend)
  <2> DEFINE n == Stored(p, m)
             pkts == {DataPkt(p, Chunk(p, m, i), i = 1, i = m.frags) : i \in 1..n}
  <2>1. /\ net' = Sent(pkts)
        /\ nextTsn' = [nextTsn EXCEPT ![p] = @ + (IF n = m.frags THEN n ELSE n + 1)]
    BY <1>3 DEF SendChunks
  <2>2. n \in Nat /\ nextTsn[p] \in Nat \ {0} /\ DOMAIN nextTsn = Peers
    BY LimitsAssumption, FragsAssumption DEF FullInv, Stored, SendInv, SendTypes, Msgs
  <2> HIDE DEF n
  <2>3. nextTsn'[p] >= nextTsn[p] + n
    BY <2>1, <2>2
  <2>4. ASSUME NEW d \in pkts PROVE d \in Packets /\ PacketBound(d)'
    <3>1. PICK i \in 1..n : d = DataPkt(p, Chunk(p, m, i), i = 1, i = m.frags)
      BY <2>4
    <3>2. Chunk(p, m, i).tsn = nextTsn[p] + i - 1 /\ Chunk(p, m, i).part = <<m.id, i>>
      BY DEF Chunk
    <3>3. nextTsn[p] + i - 1 \in Nat /\ <<m.id, i>> \in Seq(Nat)
      <4>1. m.id \in Nat
        BY DEF Msgs
      <4> QED BY <2>2, <4>1
    <3>4. peerVerificationTag[p] \in Tags /\ Other(p) \in Peers /\ Other(Other(p)) = p
      BY OtherPeer DEF FullInv, RestInv, HandshakeTypes
    <3>5. d = [type |-> "DATA", to |-> Other(p), vtag |-> peerVerificationTag[p],
               tsn |-> nextTsn[p] + i - 1, part |-> <<m.id, i>>,
               begin |-> (i = 1), end |-> (i = m.frags)]
      BY <3>1, <3>2 DEF DataPkt
    <3>6. d \in Packets
      BY <3>3, <3>4, <3>5 DEF Packets
    <3>7. d.type = "DATA" /\ d.to = Other(p) /\ d.tsn = nextTsn[p] + i - 1
      BY <3>5
    <3>8. d.tsn < nextTsn'[p]
      <4>1. nextTsn'[p] \in Nat
        BY NextTsnGrows DEF FullInv
      <4> QED BY <2>2, <2>3, <3>7, <4>1
    <3>9. PacketBound(d)'
      BY <3>4, <3>7, <3>8 DEF PacketBound
    <3> QED BY <3>6, <3>9
  <2>5. \A d \in pkts : d \in Packets /\ PacketBound(d)'
    BY <2>4
  <2> HIDE DEF pkts
  <2> QED BY <1>1, <2>1, <2>5, SentSet, NetKeeps
<1> QED BY <1>2, <1>3 DEF AssocSend, SendQueued, SendPending

-----------------------------------------------------------------------------
(* FullInv, one lemma per kind of action (SendInv' is SendInvNext)         *)

\* sctpSessionWriteMessage.
LEMMA FullWrite ==
  ASSUME FullInv, NEW p \in Peers, WriteMessage(p), [Next]_vars
  PROVE  RestInv' /\ NetInv'
<1>1. PICK k \in Kinds, n \in 1..MaxFrags :
        AssocSend(p, [id |-> Len(written[p]) + 1, kind |-> k, frags |-> n],
                  sendQueue[p], pendingQueue[p])
  BY DEF WriteMessage
<1>2. Len(written[p]) \in Nat
  BY DEF FullInv, SendInv, SendTypes
<1>3. [id |-> Len(written[p]) + 1, kind |-> k, frags |-> n] \in Msgs
  BY <1>2, InputsAssumption DEF Msgs
<1>4. UNCHANGED <<hsVars, rxVars, ackVars, losses>>
  BY DEF WriteMessage
<1>5. HandshakeTypes' /\ UNCHANGED cookieEchoData
  BY <1>4 DEF FullInv, RestInv, HandshakeTypes, hsVars
<1>6. NetInv'
  BY <1>1, <1>3, <1>4, AssocSendNet
<1> QED BY <1>4, <1>5, <1>6, RestKeeps

\* One iteration of sctpFlushSendQueue.
LEMMA FullFlush ==
  ASSUME FullInv, NEW p \in Peers, FlushStep(p), [Next]_vars
  PROVE  RestInv' /\ NetInv'
<1>1. Head(sendQueue[p]) \in Msgs
  <2>1. sendQueue[p] \in Seq(Msgs) /\ sendQueue[p] # <<>>
    BY DEF FlushStep, FullInv, SendInv, LoopInv, SendTypes
  <2> QED BY <2>1
<1>2. UNCHANGED <<hsVars, rxVars, ackVars, losses>>
  BY DEF FlushStep
<1>3. HandshakeTypes' /\ UNCHANGED cookieEchoData
  BY <1>2 DEF FullInv, RestInv, HandshakeTypes, hsVars
<1>4. NetInv'
  BY <1>1, <1>2, AssocSendNet DEF FlushStep
<1> QED BY <1>2, <1>3, <1>4, RestKeeps

\* One iteration of sctpDrainPendingQueue.
LEMMA FullDrain ==
  ASSUME FullInv, NEW p \in Peers, DrainStep(p), [Next]_vars
  PROVE  RestInv' /\ NetInv'
<1>1. PICK rest : \/ net' = net
                 \/ AssocSend(p, pendingQueue[p][Lowest(InUse(pendingQueue[p]))],
                              sendQueue[p], rest)
  BY DEF DrainStep
<1>2. UNCHANGED <<hsVars, rxVars, ackVars, losses>>
  BY DEF DrainStep
<1>3. HandshakeTypes' /\ UNCHANGED cookieEchoData
  BY <1>2 DEF FullInv, RestInv, HandshakeTypes, hsVars
<1>4. pendingQueue[p][Lowest(InUse(pendingQueue[p]))] \in Msgs
  <2>1. InUse(pendingQueue[p]) # {}
    BY DEF DrainStep, FullInv, SendInv, LoopInv
  <2> QED BY <2>1, LowestInUse DEF FullInv
<1>5. NetInv'
  <2>1. CASE net' = net
    BY <1>2, <2>1, SendKeeps
  <2>2. CASE AssocSend(p, pendingQueue[p][Lowest(InUse(pendingQueue[p]))], sendQueue[p], rest)
    BY <1>2, <1>4, <2>2, AssocSendNet
  <2> QED BY <1>1, <2>1, <2>2
<1> QED BY <1>2, <1>3, <1>5, RestKeeps

\* Control packets carry no TSN.
LEMMA ControlOk ==
  ASSUME NEW d, NEW p \in Peers, NEW tag \in Tags,
         NEW type \in {"COOKIE_ACK", "SHUTDOWN", "SHUTDOWN_ACK", "SHUTDOWN_COMPLETE"},
         d = ControlPkt(type, p, tag)
  PROVE  d \in Packets /\ PacketBound(d)'
<1>1. d = [type |-> type, to |-> Other(p), vtag |-> tag]
  BY DEF ControlPkt
<1>2. d \in Packets
  BY <1>1, OtherPeer DEF Packets
<1>3. d.type = type
  BY <1>1
<1> QED BY <1>2, <1>3 DEF PacketBound

\* INIT carries the TSN its sender has reached.
LEMMA InitOk ==
  ASSUME FullInv, NEW d, NEW p \in Peers, d = InitPkt(p), nextTsn' = nextTsn
  PROVE  d \in Packets /\ PacketBound(d)'
<1>1. nextTsn[p] \in Nat \ {0} /\ Other(p) \in Peers /\ Other(Other(p)) = p
  BY OtherPeer DEF FullInv, SendInv, SendTypes
<1>2. d = [type |-> "INIT", to |-> Other(p), vtag |-> NoTag, tag |-> p, tsn |-> nextTsn[p]]
  BY DEF InitPkt
<1>3. d \in Packets
  BY <1>1, <1>2 DEF Packets
<1>4. d.type = "INIT" /\ d.to = Other(p) /\ d.tsn = nextTsn[p]
  BY <1>2
<1> QED BY <1>1, <1>3, <1>4 DEF PacketBound

\* COOKIE-ECHO carries back a TSN that its receiver has reached.
LEMMA CookieEchoOk ==
  ASSUME FullInv, NEW d, NEW p \in Peers, NEW tag \in Tags, NEW c \in Cookies,
         c.peerInitialTsn <= nextTsn[p], d = CookieEchoPkt(p, tag, c), nextTsn' = nextTsn
  PROVE  d \in Packets /\ PacketBound(d)'
<1>1. Other(p) \in Peers /\ Other(Other(p)) = p
  BY OtherPeer
<1>2. d = [type |-> "COOKIE_ECHO", to |-> Other(p), vtag |-> tag, cookie |-> c]
  BY DEF CookieEchoPkt
<1>3. d \in Packets
  BY <1>1, <1>2 DEF Packets
<1>4. d.type = "COOKIE_ECHO" /\ d.to = Other(p) /\ d.cookie = c
  BY <1>2
<1> QED BY <1>1, <1>3, <1>4 DEF PacketBound

\* A SACK acknowledges nothing its receiver has not sent, and its gap blocks
\* are offsets above the cumulative TSN.
LEMMA SackOk ==
  ASSUME FullInv, NEW d, NEW p \in Peers, NEW c \in Nat, NEW r \in SUBSET Nat,
         c < nextTsn[Other(p)], d = SackPkt(p, c, r), nextTsn' = nextTsn
  PROVE  d \in Packets /\ PacketBound(d)'
<1>1. Other(p) \in Peers /\ peerVerificationTag[p] \in Tags
  BY OtherPeer DEF FullInv, RestInv, HandshakeTypes
<1>2. GapBlocks(c, r) \in SUBSET (Nat \X Nat)
  <2>1. ASSUME NEW q \in GapRuns(c, r) PROVE q[1] - c \in Nat /\ q[2] - c \in Nat
    <3>1. q \in r \X r /\ c < q[1] /\ q[1] <= q[2]
      BY DEF GapRuns
    <3>2. q[1] \in Nat /\ q[2] \in Nat
      BY <3>1
    <3> QED BY <3>1, <3>2
  <2>2. \A g \in GapBlocks(c, r) : \E q \in GapRuns(c, r) : g = <<q[1] - c, q[2] - c>>
    BY DEF GapBlocks
  <2> QED BY <2>1, <2>2
<1>3. d = [type |-> "SACK", to |-> Other(p), vtag |-> peerVerificationTag[p],
           cum |-> c, gaps |-> GapBlocks(c, r)]
  BY DEF SackPkt
<1>4. d \in Packets
  BY <1>1, <1>2, <1>3 DEF Packets
<1>5. d.type = "SACK" /\ d.to = Other(p) /\ d.cum = c
  BY <1>3
<1> QED BY <1>4, <1>5 DEF PacketBound

\* The handshake handlers.
LEMMA FullHandshake ==
  ASSUME FullInv, NEW p \in Peers, NEW m \in BagToSet(net), [Next]_vars,
         \/ HandleInit(p, m) \/ HandleInitAck(p, m)
         \/ HandleCookieEcho(p, m) \/ HandleCookieAck(p, m)
  PROVE  RestInv' /\ NetInv'
<1> USE DEF FullInv, RestInv
<1>1. /\ m \in Packets /\ PacketBound(m) /\ Other(p) \in Peers /\ Other(Other(p)) = p
      /\ nextTsn[p] \in Nat \ {0} /\ nextTsn[Other(p)] \in Nat \ {0}
  BY OtherPeer DEF NetInv, SendInv, SendTypes
<1>2. losses' = losses /\ nextTsn' = nextTsn /\ m.to = p
  BY DEF HandleInit, HandleInitAck, HandleCookieEcho, HandleCookieAck, txVars, chunkVars, Arrives
<1>3. CASE HandleInit(p, m)
  <2>1. m.type = "INIT" /\ net' = Replied(m, {InitAckPkt(p, m)})
        /\ UNCHANGED <<hsVars, rxVars, txVars>>
    BY <1>3 DEF HandleInit, Arrives
  <2>2. m.tag \in Peers /\ m.tsn \in Nat \ {0} /\ m.tsn <= nextTsn[Other(p)]
    BY <1>1, <1>2, <2>1, PacketFields DEF PacketBound
  <2>3. ASSUME NEW d, d = InitAckPkt(p, m) PROVE d \in Packets /\ PacketBound(d)'
    <3>1. d = [type |-> "INIT_ACK", to |-> Other(p), vtag |-> m.tag, tag |-> p,
               tsn |-> nextTsn[p],
               cookie |-> [peerTag |-> m.tag, peerInitialTsn |-> m.tsn]]
      BY <2>3 DEF InitAckPkt, Cookie
    <3>2. [peerTag |-> m.tag, peerInitialTsn |-> m.tsn] \in Cookies
      BY <2>2 DEF Cookies
    <3>3. d \in Packets
      BY <1>1, <2>2, <3>1, <3>2 DEF Packets, Tags
    <3>4. /\ d.type = "INIT_ACK" /\ d.to = Other(p) /\ d.tsn = nextTsn[p]
          /\ d.cookie.peerInitialTsn = m.tsn
      BY <3>1
    <3> QED BY <1>1, <1>2, <2>2, <3>3, <3>4 DEF PacketBound
  <2>4. NetInv'
    <3>1. PICK d : d = InitAckPkt(p, m)
      OBVIOUS
    <3>2. d \in Packets /\ PacketBound(d)'
      BY <2>3, <3>1
    <3> QED BY <1>2, <2>1, <3>1, <3>2, ReplyKeeps
  <2>5. HandshakeTypes' /\ UNCHANGED <<rxVars, ackVars, cookieEchoData>>
    BY <2>1 DEF hsVars, txVars, HandshakeTypes
  <2>6. RestInv'
    BY <2>5, RestKeeps
  <2> QED BY <2>4, <2>6
<1>4. CASE HandleInitAck(p, m)
  <2>1. m.type = "INIT_ACK" /\ UNCHANGED <<session, initRetransmitCount, receivedTsns, inVars, txVars>>
    BY <1>4 DEF HandleInitAck, Arrives
  <2>2. /\ m.tag \in Peers /\ m.tsn \in Nat \ {0} /\ m.tsn <= nextTsn[Other(p)]
        /\ m.cookie \in Cookies /\ m.cookie.peerInitialTsn <= nextTsn[p]
    BY <1>1, <1>2, <2>1, PacketFields DEF PacketBound
  <2>3. CASE ~InitAckExpected(p)
    <3>1. /\ net' = Replied(m, {})
          /\ UNCHANGED <<peerVerificationTag, peerCumulativeTsn,
                         peerCumulativeTsnValid, cookieEchoData, state, t1InitExpiry>>
      BY <1>4, <2>3 DEF HandleInitAck
    <3>2. HandshakeTypes' /\ UNCHANGED <<rxVars, ackVars, cookieEchoData>>
      BY <2>1, <3>1 DEF txVars, HandshakeTypes, rxVars, trackVars
    <3> QED BY <1>2, <3>1, <3>2, RestKeeps, ReplyKeeps
  <2>4. CASE InitAckExpected(p)
    <3>1. /\ peerVerificationTag' = [peerVerificationTag EXCEPT ![p] = m.tag]
          /\ peerCumulativeTsn' = [peerCumulativeTsn EXCEPT ![p] = m.tsn - 1]
          /\ peerCumulativeTsnValid' = [peerCumulativeTsnValid EXCEPT ![p] = TRUE]
          /\ cookieEchoData' = [cookieEchoData EXCEPT ![p] = m.cookie]
          /\ state' = [state EXCEPT ![p] = "COOKIE_ECHOED"]
          /\ t1InitExpiry' = [t1InitExpiry EXCEPT ![p] = TRUE]
          /\ net' = Replied(m, {CookieEchoPkt(p, m.tag, m.cookie)})
      BY <1>4, <2>4 DEF HandleInitAck, T1Started
    <3>2. HandshakeTypes'
      BY <2>1, <2>2, <3>1 DEF HandshakeTypes, Tags, AssocState
    <3>3. /\ UNCHANGED <<receivedTsns, reassembly, got, delivered>>
          /\ UNCHANGED <<cwnd, ssthresh, cumulativeAckTsn, advancedPeerAckPoint>>
      BY <2>1 DEF inVars, txVars, ackVars
    <3>4. m.tsn - 1 \in Nat /\ m.tsn - 1 < nextTsn[Other(p)]
      BY <1>1, <2>2
    <3>5. ReceiveTypes' /\ AckTypes'
      BY <3>1, <3>3, <3>4 DEF ReceiveTypes, AckTypes
    <3>6. CookieBound'
      BY <1>2, <2>2, <3>1 DEF CookieBound, HandshakeTypes
    <3>7. NothingFromTheFuture'
      BY <1>2, <3>1, <3>3, <3>4 DEF NothingFromTheFuture, ReceiveTypes
    <3>8. NetInv'
      <4>1. PICK d : d = CookieEchoPkt(p, m.tag, m.cookie)
        OBVIOUS
      <4>2. d \in Packets /\ PacketBound(d)'
        BY <1>2, <2>2, <4>1, CookieEchoOk DEF Tags
      <4> QED BY <1>2, <3>1, <4>1, <4>2, ReplyKeeps
    <3> QED BY <3>2, <3>5, <3>6, <3>7, <3>8
  <2> QED BY <2>3, <2>4
<1>5. CASE HandleCookieEcho(p, m)
  <2>1. /\ m.type = "COOKIE_ECHO"
        /\ peerVerificationTag' = [peerVerificationTag EXCEPT ![p] = m.cookie.peerTag]
        /\ peerCumulativeTsn' = [peerCumulativeTsn EXCEPT ![p] = m.cookie.peerInitialTsn - 1]
        /\ peerCumulativeTsnValid' = [peerCumulativeTsnValid EXCEPT ![p] = TRUE]
        /\ net' = Replied(m, {ControlPkt("COOKIE_ACK", p, m.cookie.peerTag)})
        /\ state' = [state EXCEPT ![p] = "ESTABLISHED"]
        /\ t1InitExpiry' = [t1InitExpiry EXCEPT ![p] = FALSE]
        /\ UNCHANGED <<session, initRetransmitCount, cookieEchoData, receivedTsns, inVars, ackVars>>
    BY <1>5 DEF HandleCookieEcho, Arrives, Establish
  <2>2. /\ m.cookie.peerTag \in Peers /\ m.cookie.peerInitialTsn \in Nat \ {0}
        /\ m.cookie.peerInitialTsn <= nextTsn[Other(p)]
    BY <1>1, <1>2, <2>1, PacketFields DEF PacketBound, Cookies
  <2>3. HandshakeTypes'
    BY <2>1, <2>2 DEF HandshakeTypes, Tags, AssocState
  <2>4. /\ UNCHANGED <<receivedTsns, reassembly, got, delivered>>
        /\ UNCHANGED <<cwnd, ssthresh, cumulativeAckTsn, advancedPeerAckPoint>>
    BY <2>1 DEF inVars, ackVars
  <2>5. m.cookie.peerInitialTsn - 1 \in Nat /\ m.cookie.peerInitialTsn - 1 < nextTsn[Other(p)]
    BY <1>1, <2>2
  <2>6. ReceiveTypes' /\ AckTypes'
    BY <2>1, <2>4, <2>5 DEF ReceiveTypes, AckTypes
  <2>7. CookieBound'
    BY <1>2, <2>1 DEF CookieBound
  <2>8. NothingFromTheFuture'
    BY <1>2, <2>1, <2>4, <2>5 DEF NothingFromTheFuture, ReceiveTypes
  <2>9. NetInv'
    <3>1. PICK d : d = ControlPkt("COOKIE_ACK", p, m.cookie.peerTag)
      OBVIOUS
    <3>2. d \in Packets /\ PacketBound(d)'
      BY <2>2, <3>1, ControlOk DEF Tags
    <3> QED BY <1>2, <2>1, <3>1, <3>2, ReplyKeeps
  <2> QED BY <2>3, <2>6, <2>7, <2>8, <2>9
<1>6. CASE HandleCookieAck(p, m)
  <2>1. /\ net' = Replied(m, {})
        /\ state' = state \/ state' = [state EXCEPT ![p] = "ESTABLISHED"]
        /\ t1InitExpiry' = t1InitExpiry \/ t1InitExpiry' = [t1InitExpiry EXCEPT ![p] = FALSE]
        /\ UNCHANGED <<session, peerVerificationTag, initRetransmitCount, cookieEchoData>>
        /\ UNCHANGED <<rxVars, ackVars>>
    BY <1>6 DEF HandleCookieAck, Establish
  <2>2. HandshakeTypes'
    BY <2>1 DEF HandshakeTypes, AssocState
  <2> QED BY <1>2, <2>1, <2>2, RestKeeps, ReplyKeeps
<1> QED BY <1>3, <1>4, <1>5, <1>6

\* Receiving data: the search of Advanced ends below what the peer has sent.
LEMMA FullData ==
  ASSUME FullInv, NEW p \in Peers, NEW m \in BagToSet(net), [Next]_vars, HandleData(p, m)
  PROVE  RestInv' /\ NetInv'
<1> USE DEF FullInv, RestInv
<1> DEFINE cum == IF peerCumulativeTsnValid[p] THEN peerCumulativeTsn[p] ELSE m.tsn - 1
           t   == Tracked(cum, receivedTsns[p], m.tsn)
           u   == nextTsn[Other(p)]
<1>1. /\ m \in Packets /\ PacketBound(m) /\ Other(p) \in Peers /\ Other(Other(p)) = p
      /\ u \in Nat
  BY OtherPeer DEF NetInv, SendInv, SendTypes
<1>2. m.to = p /\ m.type = "DATA" /\ UNCHANGED <<hsVars, txVars, losses>>
  BY DEF HandleData, Arrives
<1>3. /\ m.tsn \in Nat /\ m.tsn < u /\ m.part \in Seq(Nat)
      /\ m.begin \in BOOLEAN /\ m.end \in BOOLEAN
  BY <1>1, <1>2, PacketFields DEF PacketBound
<1>4. /\ peerCumulativeTsn[p] \in Nat /\ peerCumulativeTsn[p] < u
      /\ receivedTsns[p] \in SUBSET Nat /\ \A n \in receivedTsns[p] : n < u
      /\ Cardinality(receivedTsns[p]) <= SCTP_MAX_RECEIVED
      /\ got[p] \in SUBSET Nat /\ \A n \in got[p] : n < u
      /\ reassembly[p] \in Seq(Seq(Nat)) /\ delivered[p] \in Seq(Seq(Seq(Nat)))
  BY DEF ReceiveTypes, NothingFromTheFuture
<1>5. HandshakeTypes' /\ UNCHANGED <<ackVars, cookieEchoData, nextTsn>>
  BY <1>2 DEF hsVars, txVars, chunkVars, HandshakeTypes
<1>6. CASE UNCHANGED rxVars /\ net' = Replied(m, {})
  BY <1>2, <1>5, <1>6, RestKeeps, ReplyKeeps
<1>7. CASE m.tsn <= cum /\ UNCHANGED rxVars /\ net' = Replied(m, {SackPkt(p, cum, receivedTsns[p])})
  <2>1. cum = peerCumulativeTsn[p]
    BY <1>3, <1>7
  <2>2. PICK d : d = SackPkt(p, cum, receivedTsns[p])
    OBVIOUS
  <2>3. d \in Packets /\ PacketBound(d)'
    BY <1>4, <1>5, <2>1, <2>2, SackOk
  <2> QED BY <1>2, <1>5, <1>7, <2>2, <2>3, RestKeeps, ReplyKeeps
<1>8. CASE /\ m.tsn > cum
           /\ peerCumulativeTsn' = [peerCumulativeTsn EXCEPT ![p] = t.c]
           /\ peerCumulativeTsnValid' = [peerCumulativeTsnValid EXCEPT ![p] = TRUE]
           /\ receivedTsns' = [receivedTsns EXCEPT ![p] = t.r]
           /\ Deliver(p, m)
           /\ net' = Replied(m, {SackPkt(p, t.c, t.r)})
  <2>1. /\ t.c \in Nat /\ t.c < u
        /\ t.r \in SUBSET Nat /\ \A n \in t.r : n < u
        /\ Cardinality(t.r) <= SCTP_MAX_RECEIVED
    <3>1. cum \in Int /\ cum < m.tsn /\ (cum \in Nat \/ m.tsn = cum + 1)
      BY <1>3, <1>4, <1>8
    <3> HIDE DEF cum, u
    <3> QED BY <1>1, <1>3, <1>4, <3>1, TrackedTypes DEF u
  <2> HIDE DEF t, cum
  <2>2. /\ peerCumulativeTsn' \in [Peers -> Nat]
        /\ peerCumulativeTsnValid' \in [Peers -> BOOLEAN]
        /\ receivedTsns' \in [Peers -> SUBSET Nat]
        /\ \A q \in Peers : Cardinality(receivedTsns'[q]) <= SCTP_MAX_RECEIVED
    BY <1>8, <2>1 DEF ReceiveTypes
  <2>3. got' = [got EXCEPT ![p] = @ \cup {m.tsn}]
    BY <1>8 DEF Deliver
  <2>4. got' \in [Peers -> SUBSET Nat]
    BY <1>3, <1>4, <2>3 DEF ReceiveTypes
  <2>5. Gathered(p, m) \in Seq(Seq(Nat))
    <3>1. <<m.part>> \in Seq(Seq(Nat)) /\ Append(reassembly[p], m.part) \in Seq(Seq(Nat))
      BY <1>3, <1>4
    <3>2. Gathered(p, m) \in {<<m.part>>, Append(reassembly[p], m.part), reassembly[p]}
      BY <1>3 DEF Gathered
    <3> QED BY <1>4, <3>1, <3>2
  <2>6. delivered' \in [Peers -> Seq(Seq(Seq(Nat)))]
    <3>1. Append(delivered[p], Gathered(p, m)) \in Seq(Seq(Seq(Nat)))
      BY <1>4, <2>5
    <3>2. delivered' = delivered
          \/ delivered' = [delivered EXCEPT ![p] = Append(@, Gathered(p, m))]
      BY <1>8 DEF Deliver
    <3> QED BY <3>1, <3>2 DEF ReceiveTypes
  <2>7. reassembly' \in [Peers -> Seq(Seq(Nat))]
    <3>1. PICK b : /\ b \in {reassembly[p], <<>>, Gathered(p, m)}
                   /\ reassembly' = [reassembly EXCEPT ![p] = b]
      BY <1>8 DEF Deliver
    <3>2. <<>> \in Seq(Seq(Nat))
      OBVIOUS
    <3>3. b \in Seq(Seq(Nat))
      <4>1. b = reassembly[p] \/ b = <<>> \/ b = Gathered(p, m)
        BY <3>1
      <4> HIDE <3>1
      <4> QED BY <1>4, <2>5, <3>2, <4>1, Zenon
    <3> QED BY <3>1, <3>3 DEF ReceiveTypes
  <2>8. ReceiveTypes'
    BY <2>2, <2>4, <2>6, <2>7 DEF ReceiveTypes
  <2>9. AckTypes' /\ CookieBound'
    BY <1>5 DEF AckTypes, ackVars, CookieBound
  <2>10. NothingFromTheFuture'
    <3> SUFFICES ASSUME NEW q \in Peers
                 PROVE  /\ peerCumulativeTsn'[q] < nextTsn[Other(q)]
                        /\ \A n \in receivedTsns'[q] \cup got'[q] : n < nextTsn[Other(q)]
                        /\ cumulativeAckTsn[q] < nextTsn[q]
                        /\ advancedPeerAckPoint[q] < nextTsn[q]
      BY <1>5 DEF NothingFromTheFuture, ackVars
    <3>1. CASE q # p
      BY <1>8, <2>3, <3>1 DEF NothingFromTheFuture, ReceiveTypes
    <3>2. CASE q = p
      <4>1. peerCumulativeTsn'[p] = t.c /\ receivedTsns'[p] = t.r /\ got'[p] = got[p] \cup {m.tsn}
        BY <1>8, <2>3 DEF ReceiveTypes
      <4> QED BY <1>3, <1>4, <2>1, <3>2, <4>1 DEF NothingFromTheFuture
    <3> QED BY <3>1, <3>2
  <2>11. NetInv'
    <3>1. PICK d : d = SackPkt(p, t.c, t.r)
      OBVIOUS
    <3>2. d \in Packets /\ PacketBound(d)'
      BY <1>5, <2>1, <3>1, SackOk
    <3> QED BY <1>2, <1>8, <3>1, <3>2, ReplyKeeps
  <2> QED BY <1>5, <2>8, <2>9, <2>10, <2>11
<1> QED BY <1>6, <1>7, <1>8 DEF HandleData

\* sctpHandleForwardTsn: what it skips was sent, and tracking stays above it.
LEMMA FullForward ==
  ASSUME FullInv, NEW p \in Peers, NEW m \in BagToSet(net), [Next]_vars, HandleForwardTsn(p, m)
  PROVE  RestInv' /\ NetInv'
<1> USE DEF FullInv, RestInv
<1> DEFINE u == nextTsn[Other(p)]
           kept == {n \in receivedTsns[p] : n > m.tsn}
           skip == m.tsn > peerCumulativeTsn[p]
           c == IF skip THEN Advanced(m.tsn, kept) ELSE peerCumulativeTsn[p]
           r == IF skip THEN {n \in kept : n > c} ELSE receivedTsns[p]
<1>1. /\ m \in Packets /\ PacketBound(m) /\ Other(p) \in Peers /\ Other(Other(p)) = p
      /\ u \in Nat
  BY OtherPeer DEF NetInv, SendInv, SendTypes
<1>2. /\ m.to = p /\ m.type = "FORWARD_TSN"
      /\ UNCHANGED <<hsVars, peerCumulativeTsnValid, inVars, txVars, losses>>
      /\ peerCumulativeTsn' = [peerCumulativeTsn EXCEPT ![p] = c]
      /\ receivedTsns' = [receivedTsns EXCEPT ![p] = r]
      /\ net' = Replied(m, IF peerCumulativeTsnValid[p] THEN {SackPkt(p, c, r)} ELSE {})
  BY DEF HandleForwardTsn, Arrives
<1>3. m.tsn \in Nat /\ m.tsn < u
  BY <1>1, <1>2, PacketFields DEF PacketBound
<1>4. /\ peerCumulativeTsn[p] \in Nat /\ peerCumulativeTsn[p] < u
      /\ receivedTsns[p] \in SUBSET Nat /\ \A n \in receivedTsns[p] : n < u
      /\ Cardinality(receivedTsns[p]) <= SCTP_MAX_RECEIVED
  BY DEF ReceiveTypes, NothingFromTheFuture
<1>5. Advanced(m.tsn, kept) \in {m.tsn} \cup kept
  <2>1. kept \in SUBSET Nat /\ \A n \in kept : n < u
    BY <1>4
  <2> HIDE DEF kept
  <2> QED BY <1>1, <1>3, <2>1, AdvancedFound
<1>6. c \in Nat /\ c < u
  BY <1>3, <1>4, <1>5
<1>7. r \in SUBSET receivedTsns[p]
  OBVIOUS
<1> HIDE DEF c, r
<1>8. r \in SUBSET Nat /\ \A n \in r : n < u
  BY <1>4, <1>7
<1>9. Cardinality(r) <= SCTP_MAX_RECEIVED
  <2>1. IsFiniteSet(receivedTsns[p])
    BY <1>1, <1>4, FS_BoundedSetOfNaturals
  <2>2. IsFiniteSet(r) /\ Cardinality(r) <= Cardinality(receivedTsns[p])
    BY <1>7, <2>1, FS_Subset
  <2>3. Cardinality(r) \in Nat /\ Cardinality(receivedTsns[p]) \in Nat
    BY <2>1, <2>2, FS_CardinalityType
  <2> QED BY <1>4, <2>2, <2>3, LimitsAssumption
<1>10. /\ HandshakeTypes' /\ UNCHANGED <<ackVars, cookieEchoData, nextTsn>>
       /\ UNCHANGED <<peerCumulativeTsnValid, reassembly, got, delivered>>
  BY <1>2 DEF hsVars, txVars, chunkVars, inVars, HandshakeTypes
<1>11. ReceiveTypes'
  BY <1>2, <1>6, <1>8, <1>9, <1>10 DEF ReceiveTypes
<1>12. AckTypes' /\ CookieBound'
  BY <1>10 DEF AckTypes, ackVars, CookieBound
<1>13. NothingFromTheFuture'
  <2>1. \A q \in Peers : /\ peerCumulativeTsn'[q] = IF q = p THEN c ELSE peerCumulativeTsn[q]
                         /\ receivedTsns'[q] = IF q = p THEN r ELSE receivedTsns[q]
    BY <1>2 DEF ReceiveTypes
  <2> QED BY <1>6, <1>8, <1>10, <2>1 DEF NothingFromTheFuture, ackVars
<1>14. NetInv'
  <2>1. PICK d : d = SackPkt(p, c, r)
    OBVIOUS
  <2>2. d \in Packets /\ PacketBound(d)'
    BY <1>6, <1>8, <1>10, <2>1, SackOk
  <2> QED BY <1>2, <2>1, <2>2, ReplyKeeps
<1> QED BY <1>10, <1>11, <1>12, <1>13, <1>14

\* sctpHandleSack: the acknowledged TSN and the ack point stay below nextTsn.
LEMMA FullSack ==
  ASSUME FullInv, NEW p \in Peers, NEW m \in BagToSet(net), [Next]_vars, HandleSack(p, m)
  PROVE  RestInv' /\ NetInv'
<1> USE DEF FullInv, RestInv
<1> DEFINE acked == {c \in outstanding[p] : SackCovers(m, c.tsn)}
           n == Cardinality(acked)
<1>1. m \in Packets /\ PacketBound(m) /\ m.to = p /\ m.type = "SACK"
  BY DEF HandleSack, Arrives, NetInv
<1>2. m.cum \in Nat /\ m.cum < nextTsn[p]
  BY <1>1, PacketFields DEF PacketBound
<1>3. /\ net' = Replied(m, {})
      /\ cumulativeAckTsn' = [cumulativeAckTsn EXCEPT ![p] = IF m.cum > @ THEN m.cum ELSE @]
      /\ cwnd' = cwnd \/ cwnd' = [cwnd EXCEPT ![p] = GrownCwnd(p, n)]
      /\ UNCHANGED <<hsVars, rxVars, nextTsn, advancedPeerAckPoint, ssthresh, losses>>
  BY DEF HandleSack
<1>4. n \in Nat
  <2>1. IsFiniteSet(outstanding[p]) /\ acked \in SUBSET outstanding[p]
    BY DEF SendInv, TableInv
  <2> QED BY <2>1, ReleasedCount
<1> HIDE DEF n
<1>5. GrownCwnd(p, n) \in Nat \ {0}
  BY <1>4, LimitsAssumption DEF GrownCwnd, AckTypes
<1>6. AckTypes'
  <2>1. cwnd' \in [Peers -> Nat \ {0}]
    BY <1>3, <1>5 DEF AckTypes
  <2>2. cumulativeAckTsn' \in [Peers -> Nat]
    BY <1>2, <1>3 DEF AckTypes
  <2> QED BY <1>3, <2>1, <2>2 DEF AckTypes
<1>7. HandshakeTypes' /\ UNCHANGED cookieEchoData
  BY <1>3 DEF hsVars, HandshakeTypes
<1>8. UNCHANGED <<peerCumulativeTsn, peerCumulativeTsnValid, receivedTsns, reassembly,
                  got, delivered>>
  BY <1>3 DEF rxVars, trackVars, inVars
<1>9. ReceiveTypes' /\ CookieBound'
  BY <1>3, <1>7, <1>8 DEF ReceiveTypes, CookieBound
<1>10. NothingFromTheFuture'
  <2>1. \A q \in Peers : cumulativeAckTsn'[q] \in {cumulativeAckTsn[q]} \cup
                           (IF q = p THEN {m.cum} ELSE {})
    BY <1>3 DEF AckTypes
  <2> QED BY <1>2, <1>3, <1>8, <2>1 DEF NothingFromTheFuture
<1>11. NetInv'
  BY <1>3, ReplyKeeps
<1> QED BY <1>6, <1>7, <1>9, <1>10, <1>11

\* T3-rtx: the ack point moves over abandoned chunks only, all of them sent.
LEMMA FullT3 ==
  ASSUME FullInv, NEW p \in Peers, NEW cut, [Next]_vars, T3ExpireAt(p, cut)
  PROVE  RestInv' /\ NetInv'
<1> USE DEF FullInv, RestInv
<1> DEFINE gone == {c \in outstanding[p] : ShouldAbandon(c, cut)}
           kept == {Retransmitted(c) : c \in outstanding[p] \ gone}
           tsns == {c.tsn : c \in gone} \cup {advancedPeerAckPoint[p]}
           point == CHOOSE t \in tsns : \A v \in tsns : v <= t
           rexmt == {DataPkt(p, c, TRUE, TRUE) : c \in kept}
           fwd == IF point > cumulativeAckTsn[p] THEN {ForwardTsnPkt(p, point)} ELSE {}
<1>1. /\ ssthresh' = [ssthresh EXCEPT ![p] =
                        IF cwnd[p] \div 2 > 2 * mtu THEN cwnd[p] \div 2 ELSE 2 * mtu]
      /\ cwnd' = [cwnd EXCEPT ![p] = mtu]
      /\ advancedPeerAckPoint' = [advancedPeerAckPoint EXCEPT ![p] = point]
      /\ net' = Sent(rexmt \cup fwd)
      /\ UNCHANGED <<hsVars, rxVars, nextTsn, cumulativeAckTsn, losses>>
  BY DEF T3ExpireAt
<1>2. /\ nextTsn[p] \in Nat \ {0} /\ outstanding[p] \subseteq Chunks
      /\ \A c \in outstanding[p] : c.tsn < nextTsn[p]
      /\ advancedPeerAckPoint[p] \in Nat /\ advancedPeerAckPoint[p] < nextTsn[p]
      /\ Other(p) \in Peers /\ Other(Other(p)) = p /\ peerVerificationTag[p] \in Tags
  BY OtherPeer DEF SendInv, SendTypes, TableInv, AckTypes, NothingFromTheFuture, HandshakeTypes
<1>3. point \in Nat /\ point < nextTsn[p]
  <2>1. tsns \in SUBSET (0..(nextTsn[p] - 1)) /\ tsns # {}
    BY <1>2 DEF Chunks
  <2>2. nextTsn[p] - 1 \in Nat
    BY <1>2
  <2> HIDE DEF tsns
  <2>3. \E t \in tsns : \A v \in tsns : v <= t
    BY <2>1, <2>2, GreatestExists
  <2>4. point \in tsns
    BY <2>3
  <2> HIDE DEF point
  <2> QED BY <1>2, <2>1, <2>4
<1> HIDE DEF point, tsns
<1>4. \A c \in kept : c.tsn \in Nat /\ c.part \in Seq(Nat) /\ c.tsn < nextTsn[p]
  <2>1. \A c \in Chunks : Retransmitted(c) \in Chunks /\ Retransmitted(c).tsn = c.tsn
    BY DEF Retransmitted, Chunks
  <2>2. \A c \in kept : c \in Chunks /\ c.tsn < nextTsn[p]
    BY <1>2, <2>1
  <2> HIDE DEF kept
  <2> QED BY <2>2 DEF Chunks
<1> HIDE DEF kept, gone
<1>5. ASSUME NEW d \in rexmt PROVE d \in Packets /\ PacketBound(d)'
  <2>1. PICK c \in kept : d = [type |-> "DATA", to |-> Other(p), vtag |-> peerVerificationTag[p],
                              tsn |-> c.tsn, part |-> c.part, begin |-> TRUE, end |-> TRUE]
    BY <1>5 DEF DataPkt
  <2>2. d \in Packets
    BY <1>2, <1>4, <2>1 DEF Packets
  <2>3. d.type = "DATA" /\ d.to = Other(p) /\ d.tsn < nextTsn[p]
    BY <1>4, <2>1
  <2> QED BY <1>1, <1>2, <2>2, <2>3 DEF PacketBound
<1>6. ASSUME NEW d \in fwd PROVE d \in Packets /\ PacketBound(d)'
  <2>1. d = [type |-> "FORWARD_TSN", to |-> Other(p), vtag |-> peerVerificationTag[p],
             tsn |-> point]
    BY <1>6 DEF ForwardTsnPkt
  <2>2. d \in Packets
    BY <1>2, <1>3, <2>1 DEF Packets
  <2>3. d.type = "FORWARD_TSN" /\ d.to = Other(p) /\ d.tsn < nextTsn[p]
    BY <1>3, <2>1
  <2> QED BY <1>1, <1>2, <2>2, <2>3 DEF PacketBound
<1>7. NetInv'
  <2> DEFINE pkts == rexmt \cup fwd
  <2>1. \A d \in pkts : d \in Packets /\ PacketBound(d)'
    BY <1>5, <1>6
  <2>2. net' = Sent(pkts)
    BY <1>1
  <2> HIDE DEF pkts
  <2>3. IsABag(net) /\ losses' \in Nat
    BY <1>1 DEF NetInv
  <2>4. IsABag(net') /\ BagToSet(net') \subseteq BagToSet(net) \cup pkts
    BY <2>2, <2>3, SentSet
  <2> QED BY <2>1, <2>3, <2>4, NetKeeps
<1>8. AckTypes'
  <2>1. cwnd[p] \div 2 \in Nat /\ 2 * mtu \in Nat /\ mtu \in Nat \ {0}
    BY LimitsAssumption DEF AckTypes
  <2> QED BY <1>1, <1>3, <2>1 DEF AckTypes
<1>9. HandshakeTypes' /\ UNCHANGED cookieEchoData
  BY <1>1 DEF hsVars, HandshakeTypes
<1>10. UNCHANGED <<peerCumulativeTsn, peerCumulativeTsnValid, receivedTsns, reassembly,
                  got, delivered>>
  BY <1>1 DEF rxVars, trackVars, inVars
<1>11. ReceiveTypes' /\ CookieBound'
  BY <1>1, <1>9, <1>10 DEF ReceiveTypes, CookieBound
<1>12. NothingFromTheFuture'
  <2>1. \A q \in Peers : advancedPeerAckPoint'[q] = IF q = p THEN point
                                                    ELSE advancedPeerAckPoint[q]
    BY <1>1 DEF AckTypes
  <2> QED BY <1>1, <1>3, <1>10, <2>1 DEF NothingFromTheFuture
<1> QED BY <1>7, <1>8, <1>9, <1>11, <1>12

\* sctpAssocConnect and the T1 timer.
LEMMA FullTimers ==
  ASSUME FullInv, NEW p \in Peers, [Next]_vars, Connect(p) \/ T1Expire(p)
  PROVE  RestInv' /\ NetInv'
<1> USE DEF FullInv, RestInv
<1>1. UNCHANGED <<rxVars, txVars, cookieEchoData, losses>>
  BY DEF Connect, T1Expire
<1>2. nextTsn' = nextTsn /\ UNCHANGED ackVars
  BY <1>1 DEF txVars, chunkVars
<1>3. HandshakeTypes'
  <2>1. initRetransmitCount[p] + 1 \in Nat
    BY DEF HandshakeTypes
  <2>2. CASE Connect(p)
    BY <2>2 DEF Connect, T1Started, HandshakeTypes, AssocState
  <2>3. CASE T1Expire(p)
    <3>1. /\ initRetransmitCount' = [initRetransmitCount EXCEPT ![p] = @ + 1]
          /\ state' = state \/ state' = [state EXCEPT ![p] = "CLOSED"]
          /\ t1InitExpiry' = t1InitExpiry \/ t1InitExpiry' = [t1InitExpiry EXCEPT ![p] = FALSE]
          /\ UNCHANGED <<session, peerVerificationTag, cookieEchoData>>
      BY <2>3 DEF T1Expire
    <3> QED BY <2>1, <3>1 DEF HandshakeTypes, AssocState
  <2> QED BY <2>2, <2>3
<1>4. RestInv'
  BY <1>1, <1>2, <1>3, RestKeeps
<1>5. CASE net' = Sent({InitPkt(p)})
  <2>1. PICK d : d = InitPkt(p)
    OBVIOUS
  <2>2. d \in Packets /\ PacketBound(d)'
    BY <1>2, <2>1, InitOk
  <2> QED BY <1>1, <1>4, <1>5, <2>1, <2>2, SendKeeps
<1>6. CASE /\ cookieEchoData[p] # NoCookie
           /\ net' = Sent({CookieEchoPkt(p, peerVerificationTag[p], cookieEchoData[p])})
  <2>1. PICK d : d = CookieEchoPkt(p, peerVerificationTag[p], cookieEchoData[p])
    OBVIOUS
  <2>2. /\ peerVerificationTag[p] \in Tags /\ cookieEchoData[p] \in Cookies
        /\ cookieEchoData[p].peerInitialTsn <= nextTsn[p]
    BY <1>6 DEF HandshakeTypes, CookieBound
  <2>3. d \in Packets /\ PacketBound(d)'
    BY <1>2, <2>1, <2>2, CookieEchoOk
  <2> QED BY <1>1, <1>4, <1>6, <2>1, <2>3, SendKeeps
<1>7. CASE net' = net \/ net' = Sent({})
  BY <1>1, <1>4, <1>7, SendKeeps
<1> QED BY <1>5, <1>6, <1>7 DEF Connect, T1Expire

\* sctpAssocShutdown, ABORT and the handlers of the closing handshake.
LEMMA FullClosing ==
  ASSUME FullInv, NEW p \in Peers, [Next]_vars,
         \/ AssocShutdown(p) \/ HandleAbort(p)
         \/ \E m \in BagToSet(net) : \/ HandleShutdown(p, m) \/ HandleShutdownAck(p, m)
                                     \/ HandleShutdownComplete(p, m)
  PROVE  RestInv' /\ NetInv'
<1> USE DEF FullInv, RestInv
<1>1. /\ UNCHANGED <<rxVars, txVars, losses>>
      /\ UNCHANGED <<session, peerVerificationTag, t1InitExpiry, initRetransmitCount,
                     cookieEchoData>>
      /\ \E s \in AssocState : state' = [state EXCEPT ![p] = s]
  BY DEF AssocShutdown, HandleAbort, HandleShutdown, HandleShutdownAck, HandleShutdownComplete,
         SetState, AssocState
<1>2. HandshakeTypes'
  BY <1>1 DEF HandshakeTypes
<1>3. RestInv'
  BY <1>1, <1>2, RestKeeps DEF txVars
<1>4. PICK type, m :
        /\ type \in {"SHUTDOWN", "SHUTDOWN_ACK", "SHUTDOWN_COMPLETE"}
        /\ \/ net' = net \/ net' = Replied(m, {})
           \/ net' = Sent({ControlPkt(type, p, peerVerificationTag[p])})
           \/ net' = Replied(m, {ControlPkt(type, p, peerVerificationTag[p])})
  BY DEF AssocShutdown, HandleAbort, HandleShutdown, HandleShutdownAck, HandleShutdownComplete,
         ShutdownReply
<1>5. PICK d : d = ControlPkt(type, p, peerVerificationTag[p])
  OBVIOUS
<1>6. d \in Packets /\ PacketBound(d)'
  <2>1. peerVerificationTag[p] \in Tags
    BY DEF HandshakeTypes
  <2> QED BY <1>4, <1>5, <2>1, ControlOk
<1> QED BY <1>1, <1>3, <1>4, <1>5, <1>6, SendKeeps, ReplyKeeps

\* freeSctpSession.
LEMMA FullFree ==
  ASSUME FullInv, NEW p \in Peers, [Next]_vars, FreeSession(p)
  PROVE  RestInv' /\ NetInv'
<1> USE DEF FullInv, RestInv
<1>1. /\ UNCHANGED <<peerVerificationTag, t1InitExpiry, initRetransmitCount, cookieEchoData>>
      /\ UNCHANGED <<peerCumulativeTsn, peerCumulativeTsnValid, receivedTsns, got, delivered>>
      /\ UNCHANGED <<cwnd, ssthresh, cumulativeAckTsn, advancedPeerAckPoint, nextTsn>>
      /\ UNCHANGED <<net, losses>>
      /\ session' = [session EXCEPT ![p] = "freed"]
      /\ state' = [state EXCEPT ![p] = IF @ = "ESTABLISHED" THEN "SHUTDOWN_SENT" ELSE @]
      /\ reassembly' = [reassembly EXCEPT ![p] = <<>>]
  BY DEF FreeSession, trackVars, ackVars
<1>2. HandshakeTypes' /\ AckTypes' /\ CookieBound'
  BY <1>1 DEF HandshakeTypes, AckTypes, CookieBound, AssocState
<1>3. ReceiveTypes'
  <2>1. <<>> \in Seq(Seq(Nat))
    OBVIOUS
  <2>2. reassembly' \in [Peers -> Seq(Seq(Nat))]
    BY <1>1, <2>1 DEF ReceiveTypes
  <2> QED BY <1>1, <2>2 DEF ReceiveTypes
<1>4. NothingFromTheFuture'
  BY <1>1 DEF NothingFromTheFuture
<1>5. NetInv'
  BY <1>1, SendKeeps
<1> QED BY <1>2, <1>3, <1>4, <1>5

\* No TSN has been used at first.
LEMMA FullInvInit == Init => FullInv
<1> SUFFICES ASSUME Init PROVE FullInv
  OBVIOUS
<1>1. SendInv
  BY SendInvInit
<1>2. \A S : <<>> \in Seq(S)
  OBVIOUS
<1>3. HandshakeTypes
  BY DEF Init, HandshakeTypes, AssocState, Tags
<1>4. ReceiveTypes
  BY <1>2, FS_EmptySet, LimitsAssumption DEF Init, ReceiveTypes
<1>5. AckTypes
  <2>1. SCTP_INITIAL_CWND_MTUS * mtu \in Nat \ {0} /\ InitialTsn - 1 \in Nat
    BY LimitsAssumption
  <2> QED BY <2>1, LimitsAssumption DEF Init, AckTypes
<1>6. CookieBound /\ NothingFromTheFuture
  BY OtherPeer, LimitsAssumption DEF Init, CookieBound, NothingFromTheFuture, NoCookie
<1>7. NetInv
  BY DEF Init, NetInv, IsABag, BagToSet, EmptyBag, SetToBag
<1> QED BY <1>1, <1>3, <1>4, <1>5, <1>6, <1>7 DEF FullInv, RestInv

\* Every step keeps all parts of the invariant.
LEMMA FullInvNext == FullInv /\ [Next]_vars => FullInv'
<1> SUFFICES ASSUME FullInv, [Next]_vars PROVE RestInv' /\ NetInv'
  BY SendInvNext DEF FullInv
<1>1. CASE UNCHANGED vars
  <2>1. UNCHANGED <<rxVars, ackVars, cookieEchoData, net, losses>> /\ HandshakeTypes'
    BY <1>1 DEF vars, txVars, hsVars, FullInv, RestInv, HandshakeTypes
  <2> QED BY <2>1, RestKeeps, SendKeeps
<1>2. ASSUME NEW m, Lose(m) PROVE RestInv' /\ NetInv'
  <2>1. /\ UNCHANGED <<rxVars, ackVars, cookieEchoData>> /\ HandshakeTypes'
        /\ losses' = losses + 1 /\ net' = net (-) SetToBag({m})
    BY <1>2 DEF Lose, txVars, hsVars, FullInv, RestInv, HandshakeTypes
  <2>2. losses' \in Nat /\ IsABag(net)
    BY <2>1 DEF FullInv, NetInv
  <2>3. IsABag(net') /\ BagToSet(net') \subseteq BagToSet(net)
    BY <2>1, <2>2, TakenSet
  <2> QED BY <2>1, <2>2, <2>3, RestKeeps, NetShrinks
<1>3. ASSUME NEW p \in Peers, NEW m \in BagToSet(net), HandlePacket(p, m)
      PROVE  RestInv' /\ NetInv'
  BY <1>3, FullHandshake, FullData, FullSack, FullForward, FullClosing DEF HandlePacket
<1>4. ASSUME NEW p \in Peers, T3Expire(p) PROVE RestInv' /\ NetInv'
  BY <1>4, FullT3 DEF T3Expire
<1>5. CASE Next
  BY <1>2, <1>3, <1>4, <1>5, FullWrite, FullFlush, FullDrain, FullTimers, FullClosing,
     FullFree DEF Next
<1> QED BY <1>1, <1>5

\* The variables keep their types and the tables of the association stay
\* within their declared sizes, for all limits (SctpInt.h).
THEOREM TypeCorrect == Spec => []TypeOK
<1>1. FullInv => TypeOK
  BY DEF FullInv, RestInv, SendInv, NetInv, NetTypes, TypeOK
<1> QED BY <1>1, FullInvInit, FullInvNext, PTL DEF Spec

\* Nothing is acknowledged, tracked or skipped that was never sent, whatever
\* is lost, reordered, retransmitted or abandoned, through any number of
\* crossing handshakes (sctpHandleData, sctpHandleForwardTsn, sctpHandleSack).
THEOREM TsnBounds == Spec => []NothingFromTheFuture
<1>1. FullInv => NothingFromTheFuture
  BY DEF FullInv, RestInv
<1> QED BY <1>1, FullInvInit, FullInvNext, PTL DEF Spec

-----------------------------------------------------------------------------
(* Reliable messages: whatever waits is served.  T3 abandons nothing then, *)
(* so the table empties through a SACK only, and that one drains the       *)
(* pending queue.  (An abandonment that empties the table drains nothing.) *)

ReliableOnly == Kinds \subseteq {"reliable"}

KindMsgs == {m \in Msgs : m.kind \in Kinds}

KindInv(p) ==
  /\ \A c \in outstanding[p] : c.kind \in Kinds
  /\ sendQueue[p] \in Seq(KindMsgs)
  /\ pendingQueue[p] \in [1..SCTP_MAX_PENDING_SENDS -> KindMsgs \cup {NoMsg}]

\* A message is held back only by chunks in the table, unless the loop that
\* sends it is running.
WaitInv(p) ==
  InUse(pendingQueue[p]) # {} => outstanding[p] # {} \/ busy[p] = "drain"

WaitingInv == \A p \in Peers : KindInv(p) /\ WaitInv(p)

\* A closed window and a full table both mean that a chunk is kept.
LEMMA CongestedKeeps ==
  ASSUME SendInv, AckTypes, NEW p \in Peers,
         Congested(p) \/ outstandingCount[p] >= SCTP_MAX_OUTSTANDING
  PROVE  outstanding[p] # {}
<1> SUFFICES ASSUME outstanding[p] = {} PROVE FALSE
  OBVIOUS
<1>1. flightSize[p] = 0 /\ outstandingCount[p] = 0
  BY FS_EmptySet DEF SendInv, TableInv
<1>2. cwnd[p] \in Nat \ {0}
  BY DEF AckTypes
<1> QED BY <1>1, <1>2, LimitsAssumption DEF Congested

\* One call of sctpAssocSend: a message that is held back is held back by a
\* chunk, and only kinds that are written go anywhere.
LEMMA AssocSendWaits ==
  ASSUME SendInv, AckTypes, WaitingInv, NEW p \in Peers, NEW m \in KindMsgs,
         NEW sq \in Seq(KindMsgs),
         NEW pend \in [1..SCTP_MAX_PENDING_SENDS -> KindMsgs \cup {NoMsg}],
         AssocSend(p, m, sq, pend)
  PROVE  /\ KindInv(p)'
         /\ \/ outstanding'[p] # {}
            \/ outstanding'[p] = outstanding[p] /\ pendingQueue'[p] = pend
         /\ \A q \in Peers \ {p} : /\ outstanding'[q] = outstanding[q]
                                  /\ sendQueue'[q] = sendQueue[q]
                                  /\ pendingQueue'[q] = pendingQueue[q]
<1>1. /\ DOMAIN outstanding = Peers /\ DOMAIN sendQueue = Peers /\ DOMAIN pendingQueue = Peers
  BY DEF SendInv, SendTypes
<1>2. /\ sendQueue[p] \in Seq(KindMsgs)
      /\ \A c \in outstanding[p] : c.kind \in Kinds
  BY DEF WaitingInv, KindInv
<1>3. CASE SendQueued(p, m, pend)
  <2>1. outstanding' = outstanding /\ pendingQueue' = [pendingQueue EXCEPT ![p] = pend]
    BY <1>3 DEF SendQueued, chunkVars
  <2>2. Append(sendQueue[p], m) \in Seq(KindMsgs)
    BY <1>2
  <2>3. sendQueue' = sendQueue \/ sendQueue' = [sendQueue EXCEPT ![p] = Append(sendQueue[p], m)]
    BY <1>3 DEF SendQueued
  <2>4. sendQueue'[p] \in Seq(KindMsgs) /\ \A q \in Peers \ {p} : sendQueue'[q] = sendQueue[q]
    BY <1>1, <1>2, <2>2, <2>3
  <2> QED BY <1>1, <1>2, <2>1, <2>4 DEF KindInv
<1>4. CASE SendPending(p, m, sq, pend)
  <2>1. /\ outstanding' = outstanding /\ sendQueue' = [sendQueue EXCEPT ![p] = sq]
        /\ pendingQueue' = [pendingQueue EXCEPT ![p] = PendingPut(pend, m)]
        /\ Congested(p) \/ outstandingCount[p] >= SCTP_MAX_OUTSTANDING
    BY <1>4 DEF SendPending, chunkVars
  <2>2. outstanding[p] # {}
    BY <2>1, CongestedKeeps
  <2>3. PendingPut(pend, m) \in [1..SCTP_MAX_PENDING_SENDS -> KindMsgs \cup {NoMsg}]
    BY DEF PendingPut
  <2> QED BY <1>1, <1>2, <2>1, <2>2, <2>3 DEF KindInv
<1>5. CASE SendChunks(p, m, sq, pend)
  <2> DEFINE n == Stored(p, m)
             new == {Chunk(p, m, i) : i \in 1..n}
  <2>1. /\ outstanding' = [outstanding EXCEPT ![p] = @ \cup new]
        /\ sendQueue' = [sendQueue EXCEPT ![p] = sq]
        /\ pendingQueue' = [pendingQueue EXCEPT ![p] = pend]
        /\ ~Congested(p)
        /\ m.frags > 1 \/ outstandingCount[p] < SCTP_MAX_OUTSTANDING
    BY <1>5 DEF SendChunks
  <2>2. \A c \in new : c.kind \in Kinds
    BY DEF Chunk, KindMsgs
  <2>3. outstanding[p] # {} \/ new # {}
    <3>1. CASE outstandingCount[p] >= SCTP_MAX_OUTSTANDING
      BY <3>1, CongestedKeeps
    <3>2. CASE ~(outstandingCount[p] >= SCTP_MAX_OUTSTANDING)
      <4>1. m.frags \in Nat \ {0} /\ outstandingCount[p] \in Nat
        BY FragsAssumption, LimitsAssumption DEF KindMsgs, Msgs, SendInv, SendTypes
      <4>2. n \in Nat \ {0}
        BY <3>2, <4>1, LimitsAssumption DEF Stored
      <4> HIDE DEF n
      <4>3. Chunk(p, m, 1) \in new
        BY <4>2
      <4> QED BY <4>3
    <3> QED BY <3>1, <3>2
  <2> HIDE DEF new
  <2>4. outstanding'[p] = outstanding[p] \cup new
    BY <1>1, <2>1
  <2> QED BY <1>1, <1>2, <2>1, <2>2, <2>3, <2>4 DEF KindInv
<1> QED BY <1>3, <1>4, <1>5 DEF AssocSend

\* A peer whose tables, queues and loop are left alone waits as before.
LEMMA WaitElsewhere ==
  ASSUME NEW q, KindInv(q), WaitInv(q),
         outstanding'[q] = outstanding[q], sendQueue'[q] = sendQueue[q],
         pendingQueue'[q] = pendingQueue[q],
         busy'[q] = busy[q] \/ busy[q] # "drain"
  PROVE  KindInv(q)' /\ WaitInv(q)'
BY DEF KindInv, WaitInv, InUse

\* The three callers of sctpAssocSend.
LEMMA WaitingSend ==
  ASSUME SendInv, AckTypes, WaitingInv, NEW p \in Peers,
         WriteMessage(p) \/ FlushStep(p) \/ DrainStep(p)
  PROVE  WaitingInv'
<1>1. /\ sendQueue[p] \in Seq(KindMsgs)
      /\ pendingQueue[p] \in [1..SCTP_MAX_PENDING_SENDS -> KindMsgs \cup {NoMsg}]
      /\ DOMAIN busy = Peers /\ busy[p] \in {"idle", "flush", "drain"}
      /\ KindInv(p) /\ WaitInv(p)
  BY DEF WaitingInv, KindInv, SendInv, SendTypes
<1>2. ASSUME NEW m \in KindMsgs, NEW sq \in Seq(KindMsgs),
             NEW pend \in [1..SCTP_MAX_PENDING_SENDS -> KindMsgs \cup {NoMsg}],
             AssocSend(p, m, sq, pend),
             \A q \in Peers \ {p} : busy'[q] = busy[q],
             \/ pend = pendingQueue[p] /\ busy[p] # "drain"
             \/ InUse(pend) # {} => busy'[p] = "drain"
      PROVE  WaitingInv'
  <2>1. /\ KindInv(p)'
        /\ \/ outstanding'[p] # {}
           \/ outstanding'[p] = outstanding[p] /\ pendingQueue'[p] = pend
        /\ \A q \in Peers \ {p} : /\ outstanding'[q] = outstanding[q]
                                 /\ sendQueue'[q] = sendQueue[q]
                                 /\ pendingQueue'[q] = pendingQueue[q]
    BY <1>2, AssocSendWaits
  <2>2. WaitInv(p)'
    <3>1. CASE outstanding'[p] # {}
      BY <3>1 DEF WaitInv
    <3>2. CASE outstanding'[p] = outstanding[p] /\ pendingQueue'[p] = pend
      BY <1>1, <1>2, <3>2 DEF WaitInv, InUse
    <3> QED BY <2>1, <3>1, <3>2
  <2>3. \A q \in Peers \ {p} : KindInv(q)' /\ WaitInv(q)'
    BY <1>2, <2>1, WaitElsewhere DEF WaitingInv
  <2> QED BY <2>1, <2>2, <2>3 DEF WaitingInv
<1>3. CASE WriteMessage(p)
  <2>1. PICK k \in Kinds, n \in 1..MaxFrags :
          AssocSend(p, [id |-> Len(written[p]) + 1, kind |-> k, frags |-> n],
                    sendQueue[p], pendingQueue[p])
    BY <1>3 DEF WriteMessage
  <2>2. Len(written[p]) \in Nat
    BY DEF SendInv, SendTypes
  <2>3. [id |-> Len(written[p]) + 1, kind |-> k, frags |-> n] \in KindMsgs
    BY <2>2, InputsAssumption DEF Msgs, KindMsgs
  <2>4. busy' = busy /\ busy[p] = "idle"
    BY <1>3 DEF WriteMessage, Idle
  <2> QED BY <1>1, <1>2, <2>1, <2>3, <2>4
<1>4. CASE FlushStep(p)
  <2>1. sendQueue[p] # <<>> /\ busy[p] = "flush"
    BY <1>4 DEF FlushStep, SendInv, LoopInv
  <2>2. Head(sendQueue[p]) \in KindMsgs /\ Tail(sendQueue[p]) \in Seq(KindMsgs)
    BY <1>1, <2>1
  <2>3. /\ AssocSend(p, Head(sendQueue[p]), Tail(sendQueue[p]), pendingQueue[p])
        /\ \A q \in Peers \ {p} : busy'[q] = busy[q]
    BY <1>1, <1>4 DEF FlushStep
  <2> QED BY <1>1, <1>2, <2>1, <2>2, <2>3
<1>5. CASE DrainStep(p)
  <2> DEFINE slot == Lowest(InUse(pendingQueue[p]))
             rest == [pendingQueue[p] EXCEPT ![slot] = NoMsg]
             full == Congested(p) \/ outstandingCount[p] >= SCTP_MAX_OUTSTANDING
  <2>1. /\ busy[p] = "drain"
        /\ \/ full /\ busy' = [busy EXCEPT ![p] = "idle"] /\ UNCHANGED <<chunkVars, queueVars>>
           \/ /\ AssocSend(p, pendingQueue[p][slot], sendQueue[p], rest)
              /\ busy' = [busy EXCEPT ![p] = IF InUse(rest) = {} THEN "idle" ELSE @]
    BY <1>5 DEF DrainStep
  <2>2. CASE full /\ busy' = [busy EXCEPT ![p] = "idle"] /\ UNCHANGED <<chunkVars, queueVars>>
    <3>1. UNCHANGED <<outstanding, sendQueue, pendingQueue>> /\ outstanding[p] # {}
      BY <2>2, CongestedKeeps DEF chunkVars, queueVars
    <3>2. \A q \in Peers \ {p} : busy'[q] = busy[q]
      BY <1>1, <2>2
    <3>3. KindInv(p)' /\ WaitInv(p)'
      BY <1>1, <3>1 DEF KindInv, WaitInv
    <3>4. \A q \in Peers \ {p} : KindInv(q)' /\ WaitInv(q)'
      BY <3>1, <3>2, WaitElsewhere DEF WaitingInv
    <3> QED BY <3>3, <3>4 DEF WaitingInv
  <2>3. CASE /\ AssocSend(p, pendingQueue[p][slot], sendQueue[p], rest)
             /\ busy' = [busy EXCEPT ![p] = IF InUse(rest) = {} THEN "idle" ELSE @]
    <3>1. slot \in InUse(pendingQueue[p]) /\ slot \in 1..SCTP_MAX_PENDING_SENDS
      BY <2>1, LowestInUse DEF SendInv, LoopInv
    <3>2. /\ pendingQueue[p][slot] \in KindMsgs
          /\ rest \in [1..SCTP_MAX_PENDING_SENDS -> KindMsgs \cup {NoMsg}]
      BY <1>1, <3>1 DEF InUse
    <3> HIDE DEF slot, rest
    <3>3. /\ \A q \in Peers \ {p} : busy'[q] = busy[q]
          /\ InUse(rest) # {} => busy'[p] = "drain"
      BY <1>1, <2>1, <2>3
    <3> QED BY <1>1, <1>2, <2>3, <3>2, <3>3
  <2> QED BY <2>1, <2>2, <2>3
<1> QED BY <1>3, <1>4, <1>5

\* A SACK that empties the table drains the pending queue, and T3 keeps every
\* reliable chunk.
LEMMA WaitingRelease ==
  ASSUME ReliableOnly, SendInv, WaitingInv, NEW p \in Peers, NEW m, NEW cut,
         HandleSack(p, m) \/ T3ExpireAt(p, cut)
  PROVE  WaitingInv'
<1>1. /\ DOMAIN outstanding = Peers /\ DOMAIN busy = Peers
      /\ \A c \in outstanding[p] : c.kind \in Kinds
      /\ KindInv(p) /\ WaitInv(p)
  BY DEF WaitingInv, KindInv, SendInv, SendTypes
<1>2. ASSUME NEW kept, outstanding' = [outstanding EXCEPT ![p] = kept],
             \A c \in kept : c.kind \in Kinds,
             UNCHANGED <<sendQueue, pendingQueue>>,
             \A q \in Peers \ {p} : busy'[q] = busy[q],
             WaitInv(p)'
      PROVE  WaitingInv'
  <2>1. outstanding'[p] = kept /\ \A q \in Peers \ {p} : outstanding'[q] = outstanding[q]
    BY <1>1, <1>2
  <2>2. KindInv(p)'
    BY <1>1, <1>2, <2>1 DEF KindInv
  <2>3. \A q \in Peers \ {p} : KindInv(q)' /\ WaitInv(q)'
    BY <1>2, <2>1, WaitElsewhere DEF WaitingInv
  <2> QED BY <1>2, <2>2, <2>3 DEF WaitingInv
<1>3. CASE HandleSack(p, m)
  <2> DEFINE acked == {c \in outstanding[p] : SackCovers(m, c.tsn)}
             kept == outstanding[p] \ acked
  <2>1. /\ outstanding' = [outstanding EXCEPT ![p] = kept]
        /\ IF acked # {} THEN busy' = [busy EXCEPT ![p] = AfterSack(p)] ELSE busy' = busy
        /\ UNCHANGED <<sendQueue, pendingQueue>>
    BY <1>3 DEF HandleSack, ReleaseChunks, queueVars
  <2>2. \A c \in kept : c.kind \in Kinds
    BY <1>1
  <2>3. acked = {} => kept = outstanding[p]
    OBVIOUS
  <2> HIDE DEF acked, kept
  <2>4. \A q \in Peers \ {p} : busy'[q] = busy[q]
    BY <1>1, <2>1
  <2>5. WaitInv(p)'
    <3>1. CASE acked = {}
      BY <1>1, <2>1, <2>3, <3>1 DEF WaitInv, InUse
    <3>2. CASE acked # {}
      <4>1. busy'[p] = AfterSack(p)
        BY <1>1, <2>1, <3>2
      <4> QED BY <2>1, <4>1 DEF WaitInv, AfterSack, InUse
    <3> QED BY <3>1, <3>2
  <2> QED BY <1>2, <2>1, <2>2, <2>4, <2>5
<1>4. CASE T3ExpireAt(p, cut)
  <2> DEFINE gone == {c \in outstanding[p] : ShouldAbandon(c, cut)}
             kept == {Retransmitted(c) : c \in outstanding[p] \ gone}
  <2>1. /\ outstanding' = [outstanding EXCEPT ![p] = kept]
        /\ UNCHANGED <<sendQueue, pendingQueue, busy>>
    BY <1>4 DEF T3ExpireAt, ReleaseChunks, queueVars
  <2>2. \A c \in outstanding[p] : c.kind = "reliable"
    BY <1>1 DEF ReliableOnly
  <2>3. gone = {}
    BY <2>2 DEF ShouldAbandon
  <2>4. kept = {Retransmitted(c) : c \in outstanding[p]}
    BY <2>3
  <2>5. \A c \in Chunks : Retransmitted(c).kind = c.kind
    BY DEF Retransmitted, Chunks
  <2>6. outstanding[p] \subseteq Chunks
    BY DEF SendInv, SendTypes
  <2>7. /\ \A c \in kept : c.kind \in Kinds
        /\ outstanding[p] # {} => kept # {}
    BY <1>1, <2>4, <2>5, <2>6
  <2> HIDE DEF gone, kept
  <2>8. WaitInv(p)'
    BY <1>1, <2>1, <2>7 DEF WaitInv, InUse
  <2> QED BY <1>2, <2>1, <2>7, <2>8
<1> QED BY <1>3, <1>4

\* freeSctpSession empties the pending queue.
LEMMA WaitingFree ==
  ASSUME SendInv, WaitingInv, NEW p \in Peers, FreeSession(p)
  PROVE  WaitingInv'
<1>1. /\ outstanding' = [outstanding EXCEPT ![p] = {}]
      /\ pendingQueue' = [pendingQueue EXCEPT ![p] = [s \in DOMAIN pendingQueue[p] |-> NoMsg]]
      /\ UNCHANGED <<sendQueue, busy>>
  BY DEF FreeSession
<1>2. DOMAIN outstanding = Peers /\ DOMAIN pendingQueue = Peers
      /\ DOMAIN pendingQueue[p] = 1..SCTP_MAX_PENDING_SENDS
  BY DEF SendInv, SendTypes
<1>3. /\ outstanding'[p] = {}
      /\ pendingQueue'[p] = [s \in 1..SCTP_MAX_PENDING_SENDS |-> NoMsg]
      /\ \A q \in Peers \ {p} : outstanding'[q] = outstanding[q] /\ pendingQueue'[q] = pendingQueue[q]
  BY <1>1, <1>2
<1>4. KindInv(p)' /\ WaitInv(p)'
  <2>1. InUse(pendingQueue'[p]) = {}
    BY <1>3 DEF InUse
  <2>2. KindInv(p)'
    BY <1>1, <1>3 DEF KindInv, WaitingInv
  <2> QED BY <2>1, <2>2 DEF WaitInv
<1>5. \A q \in Peers \ {p} : KindInv(q)' /\ WaitInv(q)'
  BY <1>1, <1>3, WaitElsewhere DEF WaitingInv
<1> QED BY <1>4, <1>5 DEF WaitingInv

\* Nothing waits at first.
LEMMA WaitingInvInit == Init => WaitingInv
<1> SUFFICES ASSUME Init, NEW p \in Peers PROVE KindInv(p) /\ WaitInv(p)
  BY DEF WaitingInv
<1>1. <<>> \in Seq(KindMsgs)
  OBVIOUS
<1> QED BY <1>1, LimitsAssumption DEF Init, KindInv, WaitInv, InUse

\* Every step leaves what waits with something that serves it.
LEMMA WaitingInvNext ==
  ASSUME ReliableOnly, SendInv, AckTypes, WaitingInv, [Next]_vars
  PROVE  WaitingInv'
<1>1. ASSUME UNCHANGED <<outstanding, sendQueue, pendingQueue>>,
             \A q \in Peers : busy'[q] = busy[q] \/ busy[q] # "drain"
      PROVE  WaitingInv'
  BY <1>1, WaitElsewhere DEF WaitingInv
<1>2. ASSUME UNCHANGED <<outstanding, sendQueue, pendingQueue, busy>>
      PROVE  WaitingInv'
  BY <1>1, <1>2
<1>3. CASE UNCHANGED vars
  BY <1>2, <1>3 DEF vars, txVars, chunkVars, queueVars
<1>4. ASSUME NEW m, Lose(m) PROVE WaitingInv'
  BY <1>2, <1>4 DEF Lose, txVars, chunkVars, queueVars
<1>5. ASSUME NEW p \in Peers,
             Connect(p) \/ T1Expire(p) \/ AssocShutdown(p) \/ HandleAbort(p)
      PROVE  WaitingInv'
  BY <1>2, <1>5 DEF Connect, T1Expire, AssocShutdown, HandleAbort, txVars, chunkVars, queueVars
<1>6. ASSUME NEW p \in Peers, NEW m,
             \/ HandleInit(p, m) \/ HandleInitAck(p, m) \/ HandleData(p, m)
             \/ HandleForwardTsn(p, m) \/ HandleShutdown(p, m) \/ HandleShutdownAck(p, m)
             \/ HandleShutdownComplete(p, m)
      PROVE  WaitingInv'
  BY <1>2, <1>6 DEF HandleInit, HandleInitAck, HandleData, HandleForwardTsn, HandleShutdown,
     HandleShutdownAck, HandleShutdownComplete, txVars, chunkVars, queueVars
<1>7. ASSUME NEW p \in Peers, NEW m, HandleCookieEcho(p, m) \/ HandleCookieAck(p, m)
      PROVE  WaitingInv'
  <2>1. /\ UNCHANGED <<outstanding, sendQueue, pendingQueue>>
        /\ busy[p] = "idle"
        /\ busy' = busy \/ busy' = [busy EXCEPT ![p] = IF sendQueue[p] = <<>> THEN @ ELSE "flush"]
    BY <1>7 DEF HandleCookieEcho, HandleCookieAck, Arrives, Idle, Establish, chunkVars, queueVars
  <2>2. \A q \in Peers : busy'[q] = busy[q] \/ busy[q] # "drain"
    BY <2>1 DEF SendInv, SendTypes
  <2> QED BY <1>1, <2>1, <2>2
<1>8. ASSUME NEW p \in Peers, NEW m, HandlePacket(p, m) PROVE WaitingInv'
  <2>1. CASE HandleSack(p, m)
    BY <2>1, WaitingRelease
  <2> QED BY <1>6, <1>7, <1>8, <2>1 DEF HandlePacket
<1>9. ASSUME NEW p \in Peers, T3Expire(p) PROVE WaitingInv'
  BY <1>9, WaitingRelease DEF T3Expire
<1>10. CASE Next
  BY <1>4, <1>5, <1>8, <1>9, <1>10, WaitingSend, WaitingFree DEF Next
<1> QED BY <1>3, <1>10

\* With reliable messages whatever waits is served, for all limits, windows,
\* messages, losses and closings: a kept chunk by T3, a message in the pending
\* queue by the SACK of a chunk that T3 keeps alive (sctpAssocSend,
\* sctpDrainPendingQueue, sctpHandleSack, sctpAssocCheckTimers).
THEOREM WaitingServed ==
  ASSUME ReliableOnly
  PROVE  Spec => []WaitingIsServed
<1>1. Init => FullInv /\ WaitingInv
  BY FullInvInit, WaitingInvInit
<1>2. FullInv /\ WaitingInv /\ [Next]_vars => FullInv' /\ WaitingInv'
  BY ReliableOnly, FullInvNext, WaitingInvNext DEF FullInv, RestInv
<1>3. FullInv /\ WaitingInv => WaitingIsServed
  BY DEF FullInv, SendInv, TimerInv, WaitingInv, WaitInv, WaitingIsServed, T3Armed,
         PendingHasTrigger, Idle
<1> QED BY <1>1, <1>2, <1>3, PTL DEF Spec

-----------------------------------------------------------------------------
(* Acknowledged means delivered, for unfragmented reliable messages        *)
(* between peers of which none shuts down.  (With fragments a TSN is taken *)
(* and not stored when the table fills; in a CLOSED association a late     *)
(* INIT-ACK moves the cumulative TSN.)  A chunk leaves the table because a *)
(* SACK covers it, so the SACKs in flight must cover only what their       *)
(* sender has accepted.  That in turn rests on the handshake, which sets   *)
(* the cumulative TSN from a packet: it may do so only before the peer     *)
(* has sent anything, or back to where the TSNs begin.                     *)

PlainTransfer == ReliableOnly /\ MaxFrags = 1 /\ Closers = {} /\ Aborted = {}

\* T1 of p has not run out.
Trusted(p) == initRetransmitCount[p] <= SCTP_MAX_INIT_RETRANS

\* p takes an INIT-ACK, and no cookie has passed from it.
Fresh(p) == state[p] \in {"CLOSED", "COOKIE_WAIT"} /\ Trusted(p)

\* What p holds for received has been accepted.
TrackInv(p) ==
  Trusted(p) => /\ \A t \in InitialTsn .. peerCumulativeTsn[p] : t \in got[p]
                /\ receivedTsns[p] \subseteq got[p]

OpeningInv(p) ==
  /\ session[p] = "none" => state[p] = "CLOSED" /\ initRetransmitCount[p] = 0
  /\ session[p] = "none" \/ state[p] = "COOKIE_WAIT" => nextTsn[p] = InitialTsn
  /\ state[p] \in {"COOKIE_ECHOED", "ESTABLISHED"} => peerCumulativeTsnValid[p]
  /\ Fresh(p) => state[Other(p)] # "ESTABLISHED" /\ nextTsn[Other(p)] = InitialTsn
  /\ cookieEchoData[p].peerInitialTsn <= InitialTsn

\* Nothing is ever skipped.
PointInv(p) ==
  advancedPeerAckPoint[p] = InitialTsn - 1 /\ cumulativeAckTsn[p] >= InitialTsn - 1

AckedInv(p) ==
  session[p] = "active" /\ Trusted(Other(p)) =>
    \A t \in InitialTsn .. (nextTsn[p] - 1) : t \in OutstandingTsns(p) \cup got[Other(p)]

\* A packet in flight: its cookie is that of a first INIT and shows that the
\* handshake has begun, and a SACK covers what its sender has accepted.
PacketInv(m) ==
  /\ m.type \notin {"FORWARD_TSN", "SHUTDOWN", "SHUTDOWN_ACK", "SHUTDOWN_COMPLETE"}
  /\ m.type = "INIT" => m.tsn <= InitialTsn
  /\ m.type \in {"INIT_ACK", "COOKIE_ECHO"} => m.cookie.peerInitialTsn <= InitialTsn
  /\ m.type \in {"COOKIE_ECHO", "COOKIE_ACK"} => ~Fresh(Other(m.to))
  /\ m.type = "SACK" /\ Trusted(Other(m.to)) =>
       \A t \in Nat : t >= InitialTsn /\ SackCovers(m, t) => t \in got[Other(m.to)]

DeliveryInv ==
  /\ FullInv /\ WaitingInv
  /\ \A p \in Peers : TrackInv(p) /\ OpeningInv(p) /\ PointInv(p) /\ AckedInv(p)
  /\ \A m \in BagToSet(net) : PacketInv(m)

\* The steps that are left when no peer shuts down or abandons anything.
PlainStep ==
  \/ UNCHANGED vars
  \/ \E p \in Peers :
       \/ Connect(p) \/ T1Expire(p) \/ T3Expire(p) \/ FreeSession(p)
       \/ WriteMessage(p) \/ FlushStep(p) \/ DrainStep(p)
       \/ \E m \in BagToSet(net) :
            \/ HandleInit(p, m) \/ HandleInitAck(p, m) \/ HandleCookieEcho(p, m)
            \/ HandleCookieAck(p, m) \/ HandleData(p, m) \/ HandleSack(p, m)
  \/ \E m \in BagToSet(net) : Lose(m)

\* Nothing else can happen.
LEMMA PlainNext ==
  ASSUME PlainTransfer, DeliveryInv, [Next]_vars
  PROVE  PlainStep
<1>1. ASSUME NEW p \in Peers, NEW m \in BagToSet(net), HandlePacket(p, m)
      PROVE  \/ HandleInit(p, m) \/ HandleInitAck(p, m) \/ HandleCookieEcho(p, m)
             \/ HandleCookieAck(p, m) \/ HandleData(p, m) \/ HandleSack(p, m)
  <2>1. m.type \notin {"FORWARD_TSN", "SHUTDOWN", "SHUTDOWN_ACK", "SHUTDOWN_COMPLETE"}
    BY DEF DeliveryInv, PacketInv
  <2> QED BY <1>1, <2>1 DEF HandlePacket, HandleForwardTsn, HandleShutdown, HandleShutdownAck,
                            HandleShutdownComplete, Arrives
<1>2. ASSUME NEW p \in Peers PROVE ~AssocShutdown(p) /\ ~HandleAbort(p)
  BY DEF PlainTransfer, AssocShutdown, HandleAbort
<1> QED BY <1>1, <1>2 DEF PlainStep, Next

\* The types and domains that the cases below need.
LEMMA DeliveryTypes ==
  ASSUME DeliveryInv
  PROVE  /\ DOMAIN state = Peers /\ DOMAIN session = Peers
         /\ DOMAIN initRetransmitCount = Peers /\ DOMAIN got = Peers
         /\ DOMAIN nextTsn = Peers /\ DOMAIN outstanding = Peers
         /\ DOMAIN peerCumulativeTsn = Peers /\ DOMAIN peerCumulativeTsnValid = Peers
         /\ DOMAIN receivedTsns = Peers /\ DOMAIN cookieEchoData = Peers
         /\ DOMAIN cumulativeAckTsn = Peers /\ DOMAIN advancedPeerAckPoint = Peers
         /\ \A q \in Peers : /\ initRetransmitCount[q] \in Nat /\ nextTsn[q] \in Nat \ {0}
                             /\ peerCumulativeTsn[q] \in Nat /\ receivedTsns[q] \subseteq Nat
                             /\ got[q] \subseteq Nat /\ outstanding[q] \subseteq Chunks
                             /\ cumulativeAckTsn[q] \in Nat /\ peerCumulativeTsnValid[q] \in BOOLEAN
         /\ InitialTsn \in Nat \ {0} /\ SCTP_MAX_INIT_RETRANS \in Nat
BY LimitsAssumption DEF DeliveryInv, FullInv, RestInv, SendInv, HandshakeTypes, ReceiveTypes,
                        SendTypes, AckTypes

\* T1 expiries and accepted TSNs only ever grow, and a peer that has left the
\* start of the handshake never returns to it.
LEMMA DeliveryGrows ==
  ASSUME DeliveryInv, PlainStep
  PROVE  \A q \in Peers : /\ Trusted(q)' => Trusted(q)
                          /\ got[q] \subseteq got'[q]
                          /\ Fresh(q)' => Fresh(q)
<1> USE DeliveryTypes
<1>1. ASSUME UNCHANGED <<initRetransmitCount, got, state>>
      PROVE  \A q \in Peers : /\ Trusted(q)' => Trusted(q)
                              /\ got[q] \subseteq got'[q]
                              /\ Fresh(q)' => Fresh(q)
  BY <1>1 DEF Trusted, Fresh
<1>2. ASSUME NEW p \in Peers, UNCHANGED <<initRetransmitCount, got>>,
             \E s \in {"COOKIE_ECHOED", "ESTABLISHED", "SHUTDOWN_SENT"} :
               state' = [state EXCEPT ![p] = s]
      PROVE  \A q \in Peers : /\ Trusted(q)' => Trusted(q)
                              /\ got[q] \subseteq got'[q]
                              /\ Fresh(q)' => Fresh(q)
  BY <1>2 DEF Trusted, Fresh
<1>3. ASSUME NEW p \in Peers, Connect(p)
      PROVE  \A q \in Peers : /\ Trusted(q)' => Trusted(q)
                              /\ got[q] \subseteq got'[q]
                              /\ Fresh(q)' => Fresh(q)
  <2>1. /\ state[p] = "CLOSED" /\ initRetransmitCount[p] = 0
        /\ initRetransmitCount' = [initRetransmitCount EXCEPT ![p] = 0]
        /\ got' = got /\ state' = [state EXCEPT ![p] = "COOKIE_WAIT"]
    BY <1>3 DEF Connect, DeliveryInv, OpeningInv, rxVars, inVars
  <2> QED BY <2>1 DEF Trusted, Fresh
<1>4. ASSUME NEW p \in Peers, T1Expire(p)
      PROVE  \A q \in Peers : /\ Trusted(q)' => Trusted(q)
                              /\ got[q] \subseteq got'[q]
                              /\ Fresh(q)' => Fresh(q)
  <2>1. /\ initRetransmitCount' = [initRetransmitCount EXCEPT ![p] = @ + 1] /\ got' = got
        /\ \/ state' = state
           \/ /\ initRetransmitCount[p] + 1 > SCTP_MAX_INIT_RETRANS
              /\ state' = [state EXCEPT ![p] = "CLOSED"]
    BY <1>4 DEF T1Expire, rxVars, inVars
  <2>2. /\ \A q \in Peers \ {p} : /\ initRetransmitCount'[q] = initRetransmitCount[q]
                                 /\ state'[q] = state[q]
        /\ initRetransmitCount'[p] = initRetransmitCount[p] + 1
        /\ state'[p] = state[p] \/ initRetransmitCount[p] + 1 > SCTP_MAX_INIT_RETRANS
    BY <2>1
  <2> QED BY <2>1, <2>2 DEF Trusted, Fresh
<1>5. ASSUME NEW p \in Peers, NEW m, HandleData(p, m)
      PROVE  \A q \in Peers : /\ Trusted(q)' => Trusted(q)
                              /\ got[q] \subseteq got'[q]
                              /\ Fresh(q)' => Fresh(q)
  <2>1. /\ UNCHANGED <<initRetransmitCount, state>>
        /\ got' = got \/ got' = [got EXCEPT ![p] = @ \cup {m.tsn}]
    BY <1>5 DEF HandleData, Deliver, hsVars, rxVars, inVars
  <2> QED BY <2>1 DEF Trusted, Fresh
<1>6. ASSUME NEW p \in Peers, NEW m,
             \/ HandleInitAck(p, m) \/ HandleCookieEcho(p, m) \/ HandleCookieAck(p, m)
             \/ FreeSession(p)
      PROVE  \A q \in Peers : /\ Trusted(q)' => Trusted(q)
                              /\ got[q] \subseteq got'[q]
                              /\ Fresh(q)' => Fresh(q)
  <2>1. /\ UNCHANGED <<initRetransmitCount, got>>
        /\ \/ state' = state
           \/ \E s \in {"COOKIE_ECHOED", "ESTABLISHED", "SHUTDOWN_SENT"} :
                state' = [state EXCEPT ![p] = s]
    <3>1. CASE HandleInitAck(p, m) \/ HandleCookieEcho(p, m) \/ HandleCookieAck(p, m)
      BY <3>1 DEF HandleInitAck, HandleCookieEcho, HandleCookieAck, Establish, rxVars, inVars
    <3>2. CASE FreeSession(p)
      <4>1. /\ UNCHANGED <<initRetransmitCount, got>>
            /\ state' = [state EXCEPT ![p] = IF @ = "ESTABLISHED" THEN "SHUTDOWN_SENT" ELSE @]
        BY <3>2 DEF FreeSession
      <4>2. CASE state[p] = "ESTABLISHED"
        BY <4>1, <4>2
      <4>3. CASE state[p] # "ESTABLISHED"
        <5>1. state' = state
          BY <4>1, <4>3 DEF DeliveryInv, FullInv, SendInv
        <5> QED BY <4>1, <5>1
      <4> QED BY <4>2, <4>3
    <3> QED BY <1>6, <3>1, <3>2
  <2> QED BY <1>1, <1>2, <2>1
<1>7. ASSUME NEW p \in Peers, NEW m,
             \/ UNCHANGED vars
             \/ T3Expire(p) \/ WriteMessage(p) \/ FlushStep(p) \/ DrainStep(p)
             \/ HandleInit(p, m) \/ HandleSack(p, m) \/ Lose(m)
      PROVE  UNCHANGED <<initRetransmitCount, got, state>>
  BY <1>7 DEF vars, T3Expire, T3ExpireAt, WriteMessage, FlushStep, DrainStep, HandleInit,
              HandleSack, Lose, hsVars, rxVars, inVars
<1>8. PICK p \in Peers : TRUE
  BY DEF Peers
<1> QED BY <1>1, <1>3, <1>4, <1>5, <1>6, <1>7, <1>8 DEF PlainStep

\* Tracking a TSN records it and what had been accepted before it.
LEMMA TrackedAccepted ==
  ASSUME NEW cum \in Nat, NEW recv \in SUBSET Nat, NEW tsn \in Nat, NEW u \in Nat,
         cum < tsn, tsn < u, \A t \in recv : t < u,
         NEW ok, \A t \in InitialTsn .. cum : t \in ok, recv \subseteq ok
  PROVE  /\ \A t \in InitialTsn .. Tracked(cum, recv, tsn).c : t \in ok \cup {tsn}
         /\ Tracked(cum, recv, tsn).r \subseteq ok \cup {tsn}
<1>0. InitialTsn \in Nat
  BY LimitsAssumption
<1>1. CASE tsn = cum + 1
  <2> DEFINE c == Advanced(tsn, recv)
  <2>1. c \in {tsn} \cup recv /\ (tsn + 1) .. c \subseteq recv
    BY AdvancedFound
  <2>2. Tracked(cum, recv, tsn).c = c /\ Tracked(cum, recv, tsn).r = recv \ ((tsn + 1) .. c)
    BY <1>1 DEF Tracked
  <2> HIDE DEF c
  <2>3. ASSUME NEW t \in InitialTsn .. c PROVE t \in ok \cup {tsn}
    <3>1. c \in Nat
      BY <2>1
    <3>2. t \in InitialTsn .. cum \/ t = tsn \/ t \in (tsn + 1) .. c
      BY <1>0, <1>1, <3>1
    <3> QED BY <2>1, <3>2
  <2> QED BY <2>2, <2>3
<1>2. CASE tsn # cum + 1
  <2>1. Tracked(cum, recv, tsn).c = cum /\ Tracked(cum, recv, tsn).r = Noted(recv, tsn)
    BY <1>2 DEF Tracked
  <2>2. Noted(recv, tsn) \subseteq recv \cup {tsn}
    BY DEF Noted
  <2> QED BY <2>1, <2>2
<1> QED BY <1>1, <1>2

\* A SACK covers the cumulative TSN and what is tracked beyond it, no more.
LEMMA SackCoversOwn ==
  ASSUME NEW p, NEW cum \in Nat, NEW recv \in SUBSET Nat, NEW t \in Nat,
         SackCovers(SackPkt(p, cum, recv), t)
  PROVE  t <= cum \/ t \in recv
<1>1. SackPkt(p, cum, recv).cum = cum /\ SackPkt(p, cum, recv).gaps = GapBlocks(cum, recv)
  BY DEF SackPkt
<1> SUFFICES ASSUME NEW g \in GapBlocks(cum, recv), t \in (cum + g[1]) .. (cum + g[2])
             PROVE  t \in recv
  BY <1>1 DEF SackCovers
<1>2. PICK r \in GapRuns(cum, recv) : g = <<r[1] - cum, r[2] - cum>>
  BY DEF GapBlocks
<1>3. r \in recv \X recv /\ r[1] .. r[2] \subseteq recv
  BY DEF GapRuns
<1>4. r[1] \in Nat /\ r[2] \in Nat
  BY <1>3
<1>5. cum + g[1] = r[1] /\ cum + g[2] = r[2]
  BY <1>2, <1>4
<1> QED BY <1>3, <1>5

\* What a DATA chunk leaves in the tracking variables has been accepted.
LEMMA DataAccepted ==
  ASSUME DeliveryInv, NEW p \in Peers, NEW m \in BagToSet(net), HandleData(p, m),
         state[p] = "ESTABLISHED", Trusted(p)
  PROVE  \E c \in Nat, r \in SUBSET Nat :
           /\ peerCumulativeTsn'[p] = c /\ receivedTsns'[p] = r
           /\ net' = Replied(m, {SackPkt(p, c, r)})
           /\ \A t \in InitialTsn .. c : t \in got'[p]
           /\ r \subseteq got'[p]
<1> USE DeliveryTypes
<1>1. m.type = "DATA" /\ m.to = p /\ m \in Packets /\ PacketBound(m) /\ Other(p) \in Peers
  BY OtherPeer DEF HandleData, Arrives, DeliveryInv, FullInv, NetInv
<1>2. m.tsn \in Nat /\ m.tsn < nextTsn[Other(p)]
  BY <1>1, PacketFields DEF PacketBound
<1>3. /\ peerCumulativeTsnValid[p]
      /\ \A t \in InitialTsn .. peerCumulativeTsn[p] : t \in got[p]
      /\ receivedTsns[p] \subseteq got[p]
  BY DEF DeliveryInv, OpeningInv, TrackInv
<1>4. /\ \A t \in receivedTsns[p] : t < nextTsn[Other(p)]
      /\ Cardinality(receivedTsns[p]) <= SCTP_MAX_RECEIVED
  BY DEF DeliveryInv, FullInv, RestInv, NothingFromTheFuture, ReceiveTypes
<1> DEFINE cum == peerCumulativeTsn[p]
           recv == receivedTsns[p]
           t == Tracked(cum, recv, m.tsn)
<1>5. \/ /\ m.tsn <= cum /\ UNCHANGED rxVars
         /\ net' = Replied(m, {SackPkt(p, cum, recv)})
      \/ /\ m.tsn > cum
         /\ peerCumulativeTsn' = [peerCumulativeTsn EXCEPT ![p] = t.c]
         /\ receivedTsns' = [receivedTsns EXCEPT ![p] = t.r]
         /\ got' = [got EXCEPT ![p] = @ \cup {m.tsn}]
         /\ net' = Replied(m, {SackPkt(p, t.c, t.r)})
  BY <1>3 DEF HandleData, Deliver
<1>6. CASE /\ m.tsn <= cum /\ UNCHANGED rxVars
           /\ net' = Replied(m, {SackPkt(p, cum, recv)})
  <2>1. UNCHANGED <<peerCumulativeTsn, receivedTsns, got>>
    BY <1>6 DEF rxVars, trackVars, inVars
  <2>2. cum \in Nat /\ recv \in SUBSET Nat
    OBVIOUS
  <2> QED BY <1>3, <1>6, <2>1, <2>2
<1>7. CASE /\ m.tsn > cum
           /\ peerCumulativeTsn' = [peerCumulativeTsn EXCEPT ![p] = t.c]
           /\ receivedTsns' = [receivedTsns EXCEPT ![p] = t.r]
           /\ got' = [got EXCEPT ![p] = @ \cup {m.tsn}]
           /\ net' = Replied(m, {SackPkt(p, t.c, t.r)})
  <2>1. cum \in Nat /\ recv \in SUBSET Nat /\ nextTsn[Other(p)] \in Nat /\ cum < m.tsn
    BY <1>1, <1>2, <1>7
  <2>2. t.c \in Nat /\ t.r \in SUBSET Nat
    BY <1>2, <1>4, <2>1, TrackedTypes
  <2>3. /\ \A k \in InitialTsn .. t.c : k \in got[p] \cup {m.tsn}
        /\ t.r \subseteq got[p] \cup {m.tsn}
    <3> DEFINE ok == got[p]
    <3>1. (\A k \in InitialTsn .. cum : k \in ok) /\ recv \subseteq ok
      BY <1>3
    <3>2. \A k \in recv : k < nextTsn[Other(p)]
      BY <1>4
    <3> HIDE DEF ok, cum, recv
    <3>3. /\ \A k \in InitialTsn .. Tracked(cum, recv, m.tsn).c : k \in ok \cup {m.tsn}
          /\ Tracked(cum, recv, m.tsn).r \subseteq ok \cup {m.tsn}
      BY ONLY <1>2, <2>1, <3>1, <3>2, TrackedAccepted
    <3> QED BY <3>3 DEF ok
  <2> HIDE DEF t
  <2>4. /\ peerCumulativeTsn'[p] = t.c /\ receivedTsns'[p] = t.r
        /\ got'[p] = got[p] \cup {m.tsn}
    BY <1>7
  <2>5. /\ \A k \in InitialTsn .. t.c : k \in got'[p]
        /\ t.r \subseteq got'[p]
    BY <2>3, <2>4
  <2> QED BY <1>7, <2>2, <2>4, <2>5
<1> QED BY <1>5, <1>6, <1>7

\* What a peer holds for received has been accepted after every step.
LEMMA DeliveryTrack ==
  ASSUME DeliveryInv, PlainStep
  PROVE  \A q \in Peers : TrackInv(q)'
<1> USE DeliveryTypes
<1>0. \A q \in Peers : TrackInv(q) /\ (Trusted(q)' => Trusted(q)) /\ got[q] \subseteq got'[q]
  BY DeliveryGrows DEF DeliveryInv
<1>1. ASSUME UNCHANGED <<peerCumulativeTsn, receivedTsns>>
      PROVE  \A q \in Peers : TrackInv(q)'
  BY <1>0, <1>1 DEF TrackInv
<1>2. ASSUME NEW p \in Peers, receivedTsns' = receivedTsns, NEW c \in Nat,
             peerCumulativeTsn' = [peerCumulativeTsn EXCEPT ![p] = c],
             Trusted(p) => c < InitialTsn
      PROVE  \A q \in Peers : TrackInv(q)'
  <2>1. peerCumulativeTsn'[p] = c
        /\ \A q \in Peers \ {p} : peerCumulativeTsn'[q] = peerCumulativeTsn[q]
    BY <1>2
  <2>2. TrackInv(p)'
    BY <1>0, <1>2, <2>1 DEF TrackInv
  <2>3. \A q \in Peers \ {p} : TrackInv(q)'
    BY <1>0, <1>2, <2>1 DEF TrackInv
  <2> QED BY <2>2, <2>3
<1>3. ASSUME NEW p \in Peers, NEW m \in BagToSet(net), HandleInitAck(p, m)
      PROVE  \A q \in Peers : TrackInv(q)'
  <2>1. m.type = "INIT_ACK" /\ m.to = p /\ m \in Packets /\ PacketBound(m) /\ Other(p) \in Peers
    BY <1>3, OtherPeer DEF HandleInitAck, Arrives, DeliveryInv, FullInv, NetInv
  <2>2. m.tsn \in Nat \ {0} /\ m.tsn <= nextTsn[Other(p)]
    BY <2>1, PacketFields DEF PacketBound
  <2>3. CASE InitAckExpected(p)
    <3>1. /\ receivedTsns' = receivedTsns
          /\ peerCumulativeTsn' = [peerCumulativeTsn EXCEPT ![p] = m.tsn - 1]
      BY <1>3, <2>3 DEF HandleInitAck
    <3>2. Trusted(p) => nextTsn[Other(p)] = InitialTsn
      BY <2>3 DEF InitAckExpected, Fresh, DeliveryInv, OpeningInv
    <3>3. m.tsn - 1 \in Nat /\ (Trusted(p) => m.tsn - 1 < InitialTsn)
      BY <2>2, <3>2
    <3> QED BY <1>2, <3>1, <3>3
  <2>4. CASE ~InitAckExpected(p)
    BY <1>1, <1>3, <2>4 DEF HandleInitAck
  <2> QED BY <2>3, <2>4
<1>4. ASSUME NEW p \in Peers, NEW m \in BagToSet(net), HandleCookieEcho(p, m)
      PROVE  \A q \in Peers : TrackInv(q)'
  <2>1. m.type = "COOKIE_ECHO" /\ m \in Packets /\ PacketInv(m)
    BY <1>4 DEF HandleCookieEcho, Arrives, DeliveryInv, FullInv, NetInv
  <2>2. m.cookie.peerInitialTsn \in Nat \ {0} /\ m.cookie.peerInitialTsn <= InitialTsn
    BY <2>1, PacketFields DEF PacketInv, Cookies
  <2>3. /\ receivedTsns' = receivedTsns
        /\ peerCumulativeTsn' = [peerCumulativeTsn EXCEPT ![p] = m.cookie.peerInitialTsn - 1]
    BY <1>4 DEF HandleCookieEcho
  <2>4. m.cookie.peerInitialTsn - 1 \in Nat /\ m.cookie.peerInitialTsn - 1 < InitialTsn
    BY <2>2
  <2> QED BY <1>2, <2>3, <2>4
<1>5. ASSUME NEW p \in Peers, NEW m \in BagToSet(net), HandleData(p, m)
      PROVE  \A q \in Peers : TrackInv(q)'
  <2>1. CASE state[p] # "ESTABLISHED"
    BY <1>1, <1>5, <2>1 DEF HandleData, rxVars, trackVars
  <2>2. CASE state[p] = "ESTABLISHED"
    <3>1. TrackInv(p)'
      <4>1. CASE Trusted(p)
        BY <1>5, <2>2, <4>1, DataAccepted DEF TrackInv
      <4> QED BY <1>0, <4>1 DEF TrackInv
    <3>2. \A q \in Peers \ {p} : /\ peerCumulativeTsn'[q] = peerCumulativeTsn[q]
                                /\ receivedTsns'[q] = receivedTsns[q]
      BY <1>5 DEF HandleData, rxVars, trackVars
    <3>3. \A q \in Peers \ {p} : TrackInv(q)'
      BY <1>0, <3>2 DEF TrackInv
    <3> QED BY <3>1, <3>3
  <2> QED BY <2>1, <2>2
<1>6. ASSUME NEW p \in Peers, NEW m,
             \/ UNCHANGED vars \/ Connect(p) \/ T1Expire(p) \/ T3Expire(p) \/ FreeSession(p)
             \/ WriteMessage(p) \/ FlushStep(p) \/ DrainStep(p)
             \/ HandleInit(p, m) \/ HandleCookieAck(p, m) \/ HandleSack(p, m) \/ Lose(m)
      PROVE  UNCHANGED <<peerCumulativeTsn, receivedTsns>>
  BY <1>6 DEF vars, Connect, T1Expire, T3Expire, T3ExpireAt, FreeSession, WriteMessage,
              FlushStep, DrainStep, HandleInit, HandleCookieAck, HandleSack, Lose,
              rxVars, trackVars
<1>7. PICK p \in Peers : TRUE
  BY DEF Peers
<1> QED BY <1>1, <1>3, <1>4, <1>5, <1>6, <1>7 DEF PlainStep

\* The TSN of a peer moves only once it is ESTABLISHED, one chunk at a time.
LEMMA PlainSend ==
  ASSUME PlainTransfer, DeliveryInv, NEW p \in Peers, NEW m \in Msgs, NEW sq, NEW pend,
         AssocSend(p, m, sq, pend)
  PROVE  \/ UNCHANGED <<nextTsn, outstanding, net>>
         \/ /\ state[p] = "ESTABLISHED"
            /\ nextTsn' = [nextTsn EXCEPT ![p] = @ + 1]
            /\ outstanding' = [outstanding EXCEPT ![p] = @ \cup {Chunk(p, m, 1)}]
            /\ net' = Sent({DataPkt(p, Chunk(p, m, 1), TRUE, TRUE)})
<1>1. CASE SendQueued(p, m, pend) \/ SendPending(p, m, sq, pend)
  BY <1>1 DEF SendQueued, SendPending, chunkVars
<1>2. CASE SendChunks(p, m, sq, pend)
  <2>1. m.frags = 1
    BY DEF PlainTransfer, Msgs
  <2>2. outstandingCount[p] \in Nat /\ outstandingCount[p] < SCTP_MAX_OUTSTANDING
    BY <1>2, <2>1, LimitsAssumption DEF SendChunks, DeliveryInv, FullInv, SendInv, SendTypes
  <2>3. Stored(p, m) = 1
    BY <2>1, <2>2, LimitsAssumption DEF Stored
  <2>4. /\ {Chunk(p, m, i) : i \in 1..1} = {Chunk(p, m, 1)}
        /\ {DataPkt(p, Chunk(p, m, i), i = 1, i = 1) : i \in 1..1}
             = {DataPkt(p, Chunk(p, m, 1), TRUE, TRUE)}
    <3>1. 1..1 = {1}
      OBVIOUS
    <3>2. (1 = 1) = TRUE
      OBVIOUS
    <3> HIDE DEF Chunk, DataPkt
    <3> QED BY <3>1, <3>2
  <2>5. /\ state[p] = "ESTABLISHED"
        /\ nextTsn' = [nextTsn EXCEPT ![p] = @ + 1]
        /\ outstanding' = [outstanding EXCEPT ![p] = @ \cup {Chunk(p, m, i) : i \in 1..1}]
        /\ net' = Sent({DataPkt(p, Chunk(p, m, i), i = 1, i = 1) : i \in 1..1})
    BY <1>2, <2>1, <2>3 DEF SendChunks
  <2> QED BY <2>4, <2>5
<1> QED BY <1>1, <1>2 DEF AssocSend

\* The same for the three callers of sctpAssocSend.
LEMMA PlainSends ==
  ASSUME PlainTransfer, DeliveryInv, NEW p \in Peers,
         WriteMessage(p) \/ FlushStep(p) \/ DrainStep(p)
  PROVE  /\ UNCHANGED <<hsVars, rxVars, ackVars>>
         /\ \/ UNCHANGED <<nextTsn, outstanding, net>>
            \/ \E m \in Msgs :
                 /\ state[p] = "ESTABLISHED"
                 /\ nextTsn' = [nextTsn EXCEPT ![p] = @ + 1]
                 /\ outstanding' = [outstanding EXCEPT ![p] = @ \cup {Chunk(p, m, 1)}]
                 /\ net' = Sent({DataPkt(p, Chunk(p, m, 1), TRUE, TRUE)})
<1>0. SendInv
  BY DEF DeliveryInv, FullInv
<1>1. UNCHANGED <<hsVars, rxVars, ackVars>>
  BY DEF WriteMessage, FlushStep, DrainStep
<1>2. \/ UNCHANGED <<nextTsn, outstanding, net>>
      \/ \E m \in Msgs : \E sq, pend : AssocSend(p, m, sq, pend)
  <2>1. CASE WriteMessage(p)
    <3>1. PICK k \in Kinds, n \in 1..MaxFrags :
            AssocSend(p, [id |-> Len(written[p]) + 1, kind |-> k, frags |-> n],
                      sendQueue[p], pendingQueue[p])
      BY <2>1 DEF WriteMessage
    <3>2. Len(written[p]) \in Nat
      BY <1>0 DEF SendInv, SendTypes
    <3>3. [id |-> Len(written[p]) + 1, kind |-> k, frags |-> n] \in Msgs
      BY <3>2, InputsAssumption DEF Msgs
    <3> QED BY <3>1, <3>3
  <2>2. CASE FlushStep(p)
    <3>1. sendQueue[p] \in Seq(Msgs) /\ sendQueue[p] # <<>>
      BY <1>0, <2>2 DEF FlushStep, SendInv, LoopInv, SendTypes
    <3>2. Head(sendQueue[p]) \in Msgs
      BY <3>1
    <3> QED BY <2>2, <3>2 DEF FlushStep
  <2>3. CASE DrainStep(p)
    <3>1. InUse(pendingQueue[p]) # {}
      BY <1>0, <2>3 DEF DrainStep, SendInv, LoopInv
    <3>2. pendingQueue[p][Lowest(InUse(pendingQueue[p]))] \in Msgs
      BY <1>0, <3>1, LowestInUse
    <3> QED BY <2>3, <3>2 DEF DrainStep, chunkVars
  <2> QED BY <2>1, <2>2, <2>3
<1> QED BY <1>1, <1>2, PlainSend

\* T3 keeps every chunk of a reliable message and skips no TSN.
LEMMA PlainT3 ==
  ASSUME PlainTransfer, DeliveryInv, NEW p \in Peers, T3Expire(p)
  PROVE  /\ UNCHANGED <<hsVars, rxVars, nextTsn, advancedPeerAckPoint, cumulativeAckTsn>>
         /\ OutstandingTsns(p)' = OutstandingTsns(p)
         /\ \A q \in Peers \ {p} : outstanding'[q] = outstanding[q]
         /\ \E S : net' = Sent({DataPkt(p, c, TRUE, TRUE) : c \in S})
<1> USE DeliveryTypes
<1>1. PICK cut : T3ExpireAt(p, cut)
  BY DEF T3Expire
<1> DEFINE gone == {c \in outstanding[p] : ShouldAbandon(c, cut)}
           kept == {Retransmitted(c) : c \in outstanding[p] \ gone}
           tsns == {c.tsn : c \in gone} \cup {advancedPeerAckPoint[p]}
           point == CHOOSE t \in tsns : \A u \in tsns : u <= t
           rexmt == {DataPkt(p, c, TRUE, TRUE) : c \in kept}
<1>2. /\ outstanding' = [outstanding EXCEPT ![p] = kept]
      /\ advancedPeerAckPoint' = [advancedPeerAckPoint EXCEPT ![p] = point]
      /\ net' = Sent(rexmt \cup (IF point > cumulativeAckTsn[p]
                                 THEN {ForwardTsnPkt(p, point)} ELSE {}))
      /\ UNCHANGED <<hsVars, rxVars, nextTsn, cumulativeAckTsn>>
  BY <1>1 DEF T3ExpireAt, ReleaseChunks
<1>3. \A c \in outstanding[p] : c.kind = "reliable"
  BY DEF DeliveryInv, WaitingInv, KindInv, PlainTransfer, ReliableOnly
<1>4. gone = {}
  BY <1>3 DEF ShouldAbandon
<1>5. kept = {Retransmitted(c) : c \in outstanding[p]} /\ tsns = {advancedPeerAckPoint[p]}
  BY <1>4
<1>6. PointInv(p) /\ advancedPeerAckPoint \in [Peers -> Nat]
  BY DEF DeliveryInv, FullInv, RestInv, AckTypes
<1>7. point = advancedPeerAckPoint[p]
  <2>1. advancedPeerAckPoint[p] \in Nat
    BY <1>6
  <2> HIDE DEF tsns
  <2> QED BY <1>5, <2>1
<1>8. advancedPeerAckPoint' = advancedPeerAckPoint
  BY <1>2, <1>6, <1>7
<1>9. net' = Sent(rexmt)
  <2> HIDE DEF point, rexmt
  <2>1. ~(point > cumulativeAckTsn[p])
    <3>1. cumulativeAckTsn[p] \in Nat /\ InitialTsn \in Nat
      OBVIOUS
    <3> QED BY ONLY <1>6, <1>7, <3>1 DEF PointInv
  <2> QED BY <1>2, <2>1
<1>10. \A c \in outstanding[p] : Retransmitted(c).tsn = c.tsn
  BY DEF Retransmitted, Chunks
<1>11. outstanding'[p] = {Retransmitted(c) : c \in outstanding[p]}
  BY <1>2, <1>5
<1>12. OutstandingTsns(p)' = OutstandingTsns(p)
  BY <1>10, <1>11 DEF OutstandingTsns
<1>13. \A q \in Peers \ {p} : outstanding'[q] = outstanding[q]
  BY <1>2
<1> QED BY <1>2, <1>8, <1>9, <1>12, <1>13

\* Nothing is skipped after any step.
LEMMA DeliveryPoint ==
  ASSUME PlainTransfer, DeliveryInv, PlainStep
  PROVE  \A q \in Peers : PointInv(q)'
<1> USE DeliveryTypes
<1>1. \A q \in Peers : PointInv(q)
  BY DEF DeliveryInv
<1>2. ASSUME UNCHANGED <<advancedPeerAckPoint, cumulativeAckTsn>>
      PROVE  \A q \in Peers : PointInv(q)'
  BY <1>1, <1>2 DEF PointInv
<1>3. ASSUME NEW p \in Peers, T3Expire(p) PROVE \A q \in Peers : PointInv(q)'
  BY <1>2, <1>3, PlainT3
<1>4. ASSUME NEW p \in Peers, NEW m \in BagToSet(net), HandleSack(p, m)
      PROVE  \A q \in Peers : PointInv(q)'
  <2>1. m \in Packets /\ m.type = "SACK"
    BY <1>4 DEF HandleSack, Arrives, DeliveryInv, FullInv, NetInv
  <2>2. m.cum \in Nat
    BY <2>1, PacketFields
  <2>3. /\ advancedPeerAckPoint' = advancedPeerAckPoint
        /\ cumulativeAckTsn' = [cumulativeAckTsn EXCEPT ![p] = IF m.cum > @ THEN m.cum ELSE @]
    BY <1>4 DEF HandleSack
  <2>4. \A q \in Peers : cumulativeAckTsn'[q] >= cumulativeAckTsn[q] /\ cumulativeAckTsn'[q] \in Nat
    BY <2>2, <2>3
  <2> QED BY <1>1, <2>3, <2>4 DEF PointInv
<1>5. ASSUME NEW p \in Peers, NEW m,
             \/ UNCHANGED vars \/ Connect(p) \/ T1Expire(p) \/ FreeSession(p)
             \/ WriteMessage(p) \/ FlushStep(p) \/ DrainStep(p)
             \/ HandleInit(p, m) \/ HandleInitAck(p, m) \/ HandleCookieEcho(p, m)
             \/ HandleCookieAck(p, m) \/ HandleData(p, m) \/ Lose(m)
      PROVE  UNCHANGED <<advancedPeerAckPoint, cumulativeAckTsn>>
  BY <1>5 DEF vars, Connect, T1Expire, FreeSession, WriteMessage, FlushStep, DrainStep,
              HandleInit, HandleInitAck, HandleCookieEcho, HandleCookieAck, HandleData, Lose,
              txVars, ackVars
<1>6. PICK p \in Peers : TRUE
  BY DEF Peers
<1> QED BY <1>2, <1>3, <1>4, <1>5, <1>6 DEF PlainStep

\* What has left the table has been accepted after every step.
LEMMA DeliveryAcked ==
  ASSUME PlainTransfer, DeliveryInv, PlainStep
  PROVE  \A q \in Peers : AckedInv(q)'
<1> USE DeliveryTypes
<1>0. \A q \in Peers : /\ AckedInv(q) /\ Other(q) \in Peers
                       /\ Trusted(Other(q))' => Trusted(Other(q))
                       /\ got[Other(q)] \subseteq got'[Other(q)]
  BY DeliveryGrows, OtherPeer DEF DeliveryInv
<1>1. ASSUME NEW q \in Peers, session'[q] = "active" => session[q] = "active",
             nextTsn'[q] = nextTsn[q], OutstandingTsns(q)' = OutstandingTsns(q)
      PROVE  AckedInv(q)'
  BY <1>0, <1>1 DEF AckedInv
<1>2. ASSUME UNCHANGED <<session, nextTsn, outstanding>>
      PROVE  \A q \in Peers : AckedInv(q)'
  BY <1>1, <1>2 DEF OutstandingTsns
<1>3. ASSUME NEW p \in Peers, Connect(p) PROVE \A q \in Peers : AckedInv(q)'
  <2>1. /\ session[p] = "none" /\ session' = [session EXCEPT ![p] = "active"]
        /\ UNCHANGED <<nextTsn, outstanding>>
    BY <1>3 DEF Connect, txVars, chunkVars
  <2>2. nextTsn'[p] = InitialTsn
    BY <2>1 DEF DeliveryInv, OpeningInv
  <2>3. AckedInv(p)'
    BY <2>2 DEF AckedInv
  <2>4. \A q \in Peers \ {p} : AckedInv(q)'
    BY <1>1, <2>1 DEF OutstandingTsns
  <2> QED BY <2>3, <2>4
<1>4. ASSUME NEW p \in Peers, FreeSession(p) PROVE \A q \in Peers : AckedInv(q)'
  <2>1. /\ session' = [session EXCEPT ![p] = "freed"] /\ nextTsn' = nextTsn
        /\ outstanding' = [outstanding EXCEPT ![p] = {}]
    BY <1>4 DEF FreeSession
  <2>2. AckedInv(p)'
    BY <2>1 DEF AckedInv
  <2>3. \A q \in Peers \ {p} : AckedInv(q)'
    BY <1>1, <2>1 DEF OutstandingTsns
  <2> QED BY <2>2, <2>3
<1>5. ASSUME NEW p \in Peers, T3Expire(p) PROVE \A q \in Peers : AckedInv(q)'
  <2>1. /\ UNCHANGED <<session, nextTsn>>
        /\ OutstandingTsns(p)' = OutstandingTsns(p)
        /\ \A q \in Peers \ {p} : outstanding'[q] = outstanding[q]
    BY <1>5, PlainT3 DEF hsVars
  <2>2. AckedInv(p)'
    BY <1>1, <2>1
  <2>3. \A q \in Peers \ {p} : AckedInv(q)'
    BY <1>1, <2>1 DEF OutstandingTsns
  <2> QED BY <2>2, <2>3
<1>6. ASSUME NEW p \in Peers, WriteMessage(p) \/ FlushStep(p) \/ DrainStep(p)
      PROVE  \A q \in Peers : AckedInv(q)'
  <2>1. session' = session
    BY <1>6, PlainSends DEF hsVars
  <2>2. CASE UNCHANGED <<nextTsn, outstanding>>
    BY <1>2, <2>1, <2>2
  <2>3. ASSUME NEW m \in Msgs, nextTsn' = [nextTsn EXCEPT ![p] = @ + 1],
               outstanding' = [outstanding EXCEPT ![p] = @ \cup {Chunk(p, m, 1)}]
        PROVE  \A q \in Peers : AckedInv(q)'
    <3>1. nextTsn'[p] = nextTsn[p] + 1 /\ outstanding'[p] = outstanding[p] \cup {Chunk(p, m, 1)}
      BY <2>3
    <3>2. Chunk(p, m, 1).tsn = nextTsn[p]
      BY DEF Chunk
    <3>3. OutstandingTsns(p)' = OutstandingTsns(p) \cup {nextTsn[p]}
      <4> DEFINE new == Chunk(p, m, 1)
      <4>1. new.tsn = nextTsn[p] /\ outstanding'[p] = outstanding[p] \cup {new}
        BY <3>1, <3>2
      <4> HIDE DEF new
      <4> QED BY <4>1 DEF OutstandingTsns
    <3>4. AckedInv(p)'
      <4> SUFFICES ASSUME session'[p] = "active", Trusted(Other(p))',
                          NEW t \in InitialTsn .. (nextTsn'[p] - 1)
                   PROVE  t \in OutstandingTsns(p)' \cup got'[Other(p)]
        BY DEF AckedInv
      <4>1. t = nextTsn[p] \/ t \in InitialTsn .. (nextTsn[p] - 1)
        BY <3>1
      <4> QED BY <1>0, <2>1, <3>3, <4>1 DEF AckedInv
    <3>5. \A q \in Peers \ {p} : AckedInv(q)'
      BY <1>1, <2>1, <2>3 DEF OutstandingTsns
    <3> QED BY <3>4, <3>5
  <2> QED BY <1>6, <2>2, <2>3, PlainSends
<1>7. ASSUME NEW p \in Peers, NEW m \in BagToSet(net), HandleSack(p, m)
      PROVE  \A q \in Peers : AckedInv(q)'
  <2> DEFINE acked == {c \in outstanding[p] : SackCovers(m, c.tsn)}
  <2>1. /\ outstanding' = [outstanding EXCEPT ![p] = @ \ acked]
        /\ UNCHANGED <<session, nextTsn>>
        /\ m.type = "SACK" /\ m.to = p
    BY <1>7 DEF HandleSack, ReleaseChunks, hsVars, Arrives
  <2>2. PacketInv(m)
    BY DEF DeliveryInv
  <2>3. outstanding'[p] = outstanding[p] \ acked
    BY <2>1
  <2>4. \A c \in acked : SackCovers(m, c.tsn)
    OBVIOUS
  <2> HIDE DEF acked
  <2>5. AckedInv(p)'
    <3> SUFFICES ASSUME session'[p] = "active", Trusted(Other(p))',
                        NEW t \in InitialTsn .. (nextTsn'[p] - 1)
                 PROVE  t \in OutstandingTsns(p)' \cup got'[Other(p)]
      BY DEF AckedInv
    <3>1. t \in InitialTsn .. (nextTsn[p] - 1) /\ t \in Nat /\ t >= InitialTsn
      BY <2>1
    <3>2. Trusted(Other(p)) /\ session[p] = "active"
      BY <1>0, <2>1
    <3>3. t \in OutstandingTsns(p) \cup got[Other(p)]
      BY <1>0, <3>1, <3>2 DEF AckedInv
    <3>4. ASSUME NEW c \in outstanding[p], c.tsn = t PROVE t \in OutstandingTsns(p)' \cup got'[Other(p)]
      <4>1. CASE c \in acked
        <5>1. SackCovers(m, t)
          BY <2>4, <3>4, <4>1
        <5>2. t \in got[Other(p)]
          BY <2>1, <2>2, <3>1, <3>2, <5>1 DEF PacketInv
        <5> QED BY <1>0, <5>2
      <4>2. CASE c \notin acked
        BY <2>3, <3>4, <4>2 DEF OutstandingTsns
      <4> QED BY <4>1, <4>2
    <3> QED BY <1>0, <3>3, <3>4 DEF OutstandingTsns
  <2>6. \A q \in Peers \ {p} : AckedInv(q)'
    BY <1>1, <2>1 DEF OutstandingTsns
  <2> QED BY <2>5, <2>6
<1>8. ASSUME NEW p \in Peers, NEW m,
             \/ UNCHANGED vars \/ T1Expire(p)
             \/ HandleInit(p, m) \/ HandleInitAck(p, m) \/ HandleCookieEcho(p, m)
             \/ HandleCookieAck(p, m) \/ HandleData(p, m) \/ Lose(m)
      PROVE  UNCHANGED <<session, nextTsn, outstanding>>
  BY <1>8 DEF vars, T1Expire, HandleInit, HandleInitAck, HandleCookieEcho, HandleCookieAck,
              HandleData, Lose, hsVars, txVars, chunkVars
<1>9. PICK p \in Peers : TRUE
  BY DEF Peers
<1> QED BY <1>2, <1>3, <1>4, <1>5, <1>6, <1>7, <1>8, <1>9 DEF PlainStep

\* The handshake of a peer stays ahead of the data after every step.
LEMMA DeliveryOpening ==
  ASSUME PlainTransfer, DeliveryInv, PlainStep
  PROVE  \A q \in Peers : OpeningInv(q)'
<1> USE DeliveryTypes
<1> DEFINE Conc == \A q \in Peers : OpeningInv(q)'
<1>0. \A q \in Peers : /\ OpeningInv(q) /\ Other(q) \in Peers /\ Other(q) # q
                       /\ Other(Other(q)) = q
                       /\ Fresh(q)' => Fresh(q)
  BY DeliveryGrows, OtherPeer DEF DeliveryInv
<1>1. ASSUME UNCHANGED <<session, state, initRetransmitCount, nextTsn,
                         peerCumulativeTsnValid, cookieEchoData>>
      PROVE  Conc
  BY <1>0, <1>1 DEF OpeningInv, Fresh, Trusted
<1>2. ASSUME NEW p \in Peers, Connect(p) PROVE Conc
  <2>1. /\ session[p] = "none" /\ session' = [session EXCEPT ![p] = "active"]
        /\ state' = [state EXCEPT ![p] = "COOKIE_WAIT"]
        /\ initRetransmitCount' = [initRetransmitCount EXCEPT ![p] = 0]
        /\ UNCHANGED <<nextTsn, peerCumulativeTsnValid, cookieEchoData>>
    BY <1>2 DEF Connect, rxVars, trackVars, txVars, chunkVars
  <2> QED BY <1>0, <2>1 DEF OpeningInv
<1>3. ASSUME NEW p \in Peers, T1Expire(p) PROVE Conc
  <2>1. /\ session[p] = "active"
        /\ initRetransmitCount' = [initRetransmitCount EXCEPT ![p] = @ + 1]
        /\ state' = state \/ state' = [state EXCEPT ![p] = "CLOSED"]
        /\ UNCHANGED <<session, nextTsn, peerCumulativeTsnValid, cookieEchoData>>
    BY <1>3 DEF T1Expire, Idle, rxVars, trackVars, txVars, chunkVars
  <2> QED BY <1>0, <2>1 DEF OpeningInv
<1>4. ASSUME NEW p \in Peers, FreeSession(p) PROVE Conc
  <2>1. /\ session' = [session EXCEPT ![p] = "freed"]
        /\ state' = [state EXCEPT ![p] = IF @ = "ESTABLISHED" THEN "SHUTDOWN_SENT" ELSE @]
        /\ session[p] = "active"
        /\ UNCHANGED <<initRetransmitCount, nextTsn, peerCumulativeTsnValid, cookieEchoData>>
    BY <1>4 DEF FreeSession, Idle, trackVars
  <2> QED BY <1>0, <2>1 DEF OpeningInv
<1>5. ASSUME NEW p \in Peers, WriteMessage(p) \/ FlushStep(p) \/ DrainStep(p) PROVE Conc
  <2>1. UNCHANGED <<session, state, initRetransmitCount, peerCumulativeTsnValid, cookieEchoData>>
    BY <1>5, PlainSends DEF hsVars, rxVars, trackVars
  <2>2. CASE nextTsn' = nextTsn
    BY <1>1, <2>1, <2>2
  <2>3. CASE state[p] = "ESTABLISHED" /\ nextTsn' = [nextTsn EXCEPT ![p] = @ + 1]
    <3>1. session[p] # "none" /\ ~Fresh(Other(p))
      BY <1>0, <2>3 DEF OpeningInv
    <3> QED BY <1>0, <2>1, <2>3, <3>1 DEF OpeningInv
  <2> QED BY <1>5, <2>2, <2>3, PlainSends
<1>6. ASSUME NEW p \in Peers, NEW m \in BagToSet(net), HandleInitAck(p, m) PROVE Conc
  <2>1. m.type = "INIT_ACK" /\ PacketInv(m) /\ session[p] = "active"
    BY <1>6 DEF HandleInitAck, Arrives, Idle, DeliveryInv
  <2>2. m.cookie.peerInitialTsn <= InitialTsn
    BY <2>1 DEF PacketInv
  <2>3. UNCHANGED <<session, initRetransmitCount, nextTsn>>
    BY <1>6 DEF HandleInitAck, txVars, chunkVars
  <2>4. CASE InitAckExpected(p)
    <3>1. /\ peerCumulativeTsnValid' = [peerCumulativeTsnValid EXCEPT ![p] = TRUE]
          /\ cookieEchoData' = [cookieEchoData EXCEPT ![p] = m.cookie]
          /\ state' = [state EXCEPT ![p] = "COOKIE_ECHOED"]
      BY <1>6, <2>4 DEF HandleInitAck
    <3> QED BY <1>0, <2>1, <2>2, <2>3, <3>1 DEF OpeningInv
  <2>5. CASE ~InitAckExpected(p)
    BY <1>1, <1>6, <2>3, <2>5 DEF HandleInitAck
  <2> QED BY <2>4, <2>5
<1>7. ASSUME NEW p \in Peers, NEW m \in BagToSet(net), HandleCookieEcho(p, m) PROVE Conc
  <2>1. m.type = "COOKIE_ECHO" /\ m.to = p /\ PacketInv(m) /\ session[p] = "active"
    BY <1>7 DEF HandleCookieEcho, Arrives, Idle, DeliveryInv
  <2>2. ~Fresh(Other(p))
    BY <2>1 DEF PacketInv
  <2>3. /\ UNCHANGED <<session, initRetransmitCount, nextTsn, cookieEchoData>>
        /\ peerCumulativeTsnValid' = [peerCumulativeTsnValid EXCEPT ![p] = TRUE]
        /\ state' = [state EXCEPT ![p] = "ESTABLISHED"]
    BY <1>7 DEF HandleCookieEcho, Establish, chunkVars
  <2> QED BY <1>0, <2>1, <2>2, <2>3 DEF OpeningInv
<1>8. ASSUME NEW p \in Peers, NEW m \in BagToSet(net), HandleCookieAck(p, m) PROVE Conc
  <2>1. m.type = "COOKIE_ACK" /\ m.to = p /\ PacketInv(m) /\ session[p] = "active"
    BY <1>8 DEF HandleCookieAck, Arrives, Idle, DeliveryInv
  <2>2. ~Fresh(Other(p))
    BY <2>1 DEF PacketInv
  <2>3. /\ UNCHANGED <<session, initRetransmitCount, nextTsn, cookieEchoData, peerCumulativeTsnValid>>
        /\ \/ state' = state
           \/ state[p] = "COOKIE_ECHOED" /\ state' = [state EXCEPT ![p] = "ESTABLISHED"]
    BY <1>8 DEF HandleCookieAck, Establish, chunkVars, rxVars, trackVars
  <2> QED BY <1>0, <2>1, <2>2, <2>3 DEF OpeningInv
<1>9. ASSUME NEW p \in Peers, NEW m \in BagToSet(net), HandleData(p, m) PROVE Conc
  <2>1. /\ UNCHANGED <<session, state, initRetransmitCount, nextTsn, cookieEchoData>>
        /\ \/ peerCumulativeTsnValid' = peerCumulativeTsnValid
           \/ peerCumulativeTsnValid' = [peerCumulativeTsnValid EXCEPT ![p] = TRUE]
    BY <1>9 DEF HandleData, hsVars, txVars, chunkVars, rxVars, trackVars
  <2> QED BY <1>0, <2>1 DEF OpeningInv
<1>10. ASSUME NEW p \in Peers, NEW m,
              \/ UNCHANGED vars \/ T3Expire(p)
              \/ HandleInit(p, m) \/ HandleSack(p, m) \/ Lose(m)
       PROVE  UNCHANGED <<session, state, initRetransmitCount, nextTsn,
                          peerCumulativeTsnValid, cookieEchoData>>
  BY <1>10 DEF vars, T3Expire, T3ExpireAt, HandleInit, HandleSack, Lose, hsVars, rxVars,
               trackVars, txVars, chunkVars
<1>11. PICK p \in Peers : TRUE
  BY DEF Peers
<1> HIDE DEF Conc
<1>12. Conc
  BY <1>1, <1>2, <1>3, <1>4, <1>5, <1>6, <1>7, <1>8, <1>9, <1>10, <1>11 DEF PlainStep
<1> QED BY <1>12 DEF Conc

\* What is in flight stays true, and so does the network when each packet that
\* a step adds is.
LEMMA DeliveryNet ==
  ASSUME DeliveryInv, PlainStep, NEW pkts,
         BagToSet(net') \subseteq BagToSet(net) \cup pkts,
         \A d \in pkts : PacketInv(d)'
  PROVE  \A m \in BagToSet(net') : PacketInv(m)'
<1> SUFFICES ASSUME NEW m \in BagToSet(net) PROVE PacketInv(m)'
  OBVIOUS
<1>1. PacketInv(m) /\ m \in Packets
  BY DEF DeliveryInv, FullInv, NetInv
<1>2. Other(m.to) \in Peers
  BY <1>1, PacketFields, OtherPeer
<1> DEFINE q == Other(m.to)
<1>3. (Trusted(q)' => Trusted(q)) /\ got[q] \subseteq got'[q] /\ (Fresh(q)' => Fresh(q))
  BY <1>2, DeliveryGrows
<1> QED BY <1>1, <1>3 DEF PacketInv, SackCovers

\* The packets of a handler that sends at most one, in answer to m or not.
LEMMA DeliveryOnePacket ==
  ASSUME DeliveryInv, PlainStep, NEW m, NEW d,
         \/ net' = net \/ net' = net (-) SetToBag({m})
         \/ net' = Sent({}) \/ net' = Replied(m, {})
         \/ (net' = Sent({d}) \/ net' = Replied(m, {d})) /\ PacketInv(d)'
  PROVE  \A k \in BagToSet(net') : PacketInv(k)'
<1>1. IsABag(net)
  BY DEF DeliveryInv, FullInv, NetInv
<1>2. \E pkts : BagToSet(net') \subseteq BagToSet(net) \cup pkts /\ \A k \in pkts : PacketInv(k)'
  <2>1. CASE net' = net \/ net' = net (-) SetToBag({m})
    <3>1. BagToSet(net') \subseteq BagToSet(net) \cup {}
      BY <1>1, <2>1, TakenSet
    <3> QED BY <3>1
  <2>3. CASE net' = Sent({}) \/ net' = Replied(m, {})
    BY <1>1, <2>3, SentSet, RepliedSet
  <2>4. CASE (net' = Sent({d}) \/ net' = Replied(m, {d})) /\ PacketInv(d)'
    <3>1. BagToSet(net') \subseteq BagToSet(net) \cup {d}
      BY <1>1, <2>4, SentSet, RepliedSet
    <3> QED BY <2>4, <3>1
  <2> QED BY <2>1, <2>3, <2>4
<1> QED BY <1>2, DeliveryNet

\* Every packet that is sent is true, and stays so while it is in flight.
LEMMA DeliveryPackets ==
  ASSUME PlainTransfer, DeliveryInv, PlainStep
  PROVE  \A k \in BagToSet(net') : PacketInv(k)'
<1> USE DeliveryTypes
<1> DEFINE Conc == \A k \in BagToSet(net') : PacketInv(k)'
<1>0. /\ IsABag(net)
      /\ \A q \in Peers : Other(q) \in Peers /\ Other(Other(q)) = q /\ OpeningInv(q)
  BY OtherPeer DEF DeliveryInv, FullInv, NetInv
<1>1. ASSUME NEW p \in Peers, NEW d, nextTsn[p] = InitialTsn, d = InitPkt(p)
      PROVE  PacketInv(d)'
  <2>1. d.type = "INIT" /\ d.tsn = InitialTsn
    BY <1>1 DEF InitPkt
  <2> QED BY <2>1 DEF PacketInv
<1>2. ASSUME NEW p \in Peers, NEW d, NEW tag, NEW c,
             d = CookieEchoPkt(p, tag, c), c.peerInitialTsn <= InitialTsn,
             state'[p] = "COOKIE_ECHOED"
      PROVE  PacketInv(d)'
  <2>1. d.type = "COOKIE_ECHO" /\ d.to = Other(p) /\ d.cookie = c
    BY <1>2 DEF CookieEchoPkt
  <2>2. ~Fresh(p)'
    BY <1>2 DEF Fresh
  <2> QED BY <1>0, <1>2, <2>1, <2>2 DEF PacketInv
<1>3. ASSUME NEW p \in Peers, NEW d, NEW c, d = DataPkt(p, c, TRUE, TRUE)
      PROVE  PacketInv(d)'
  <2>1. d.type = "DATA"
    BY <1>3 DEF DataPkt
  <2> QED BY <2>1 DEF PacketInv
<1>4. ASSUME NEW p \in Peers, Connect(p) PROVE Conc
  <2>1. PICK d : d = InitPkt(p)
    OBVIOUS
  <2>2. net' = Sent({d}) /\ nextTsn[p] = InitialTsn
    BY <1>0, <1>4, <2>1 DEF Connect, OpeningInv
  <2>3. PacketInv(d)'
    BY <1>1, <2>1, <2>2
  <2> QED BY <2>2, <2>3, DeliveryOnePacket
<1>5. ASSUME NEW p \in Peers, T1Expire(p) PROVE Conc
  <2>1. CASE net' = net
    BY <2>1, DeliveryOnePacket
  <2>2. CASE /\ state' = state
             /\ net' = Sent(CASE state[p] = "COOKIE_WAIT" -> {InitPkt(p)}
                              [] /\ state[p] = "COOKIE_ECHOED"
                                 /\ cookieEchoData[p] # NoCookie ->
                                   {CookieEchoPkt(p, peerVerificationTag[p], cookieEchoData[p])}
                              [] OTHER -> {})
    <3>1. CASE state[p] = "COOKIE_WAIT"
      <4>1. PICK d : d = InitPkt(p)
        OBVIOUS
      <4>2. net' = Sent({d}) /\ nextTsn[p] = InitialTsn
        BY <1>0, <2>2, <3>1, <4>1 DEF OpeningInv
      <4>3. PacketInv(d)'
        BY <1>1, <4>1, <4>2
      <4> QED BY <4>2, <4>3, DeliveryOnePacket
    <3>2. CASE state[p] = "COOKIE_ECHOED" /\ cookieEchoData[p] # NoCookie
      <4>1. PICK d : d = CookieEchoPkt(p, peerVerificationTag[p], cookieEchoData[p])
        OBVIOUS
      <4>2. net' = Sent({d}) /\ state'[p] = "COOKIE_ECHOED"
            /\ cookieEchoData[p].peerInitialTsn <= InitialTsn
        BY <1>0, <2>2, <3>2, <4>1 DEF OpeningInv
      <4>3. PICK tag, c : /\ d = CookieEchoPkt(p, tag, c)
                          /\ c.peerInitialTsn <= InitialTsn
        BY <4>1, <4>2
      <4>4. PacketInv(d)'
        BY <1>2, <4>2, <4>3
      <4> QED BY <4>2, <4>4, DeliveryOnePacket
    <3>3. CASE /\ state[p] # "COOKIE_WAIT"
               /\ ~(state[p] = "COOKIE_ECHOED" /\ cookieEchoData[p] # NoCookie)
      <4>1. net' = Sent({})
        BY <2>2, <3>3
      <4> QED BY <4>1, DeliveryOnePacket
    <3> QED BY <3>1, <3>2, <3>3
  <2> QED BY <1>5, <2>1, <2>2 DEF T1Expire
<1>6. ASSUME NEW p \in Peers, T3Expire(p) PROVE Conc
  <2>1. PICK pkts : /\ net' = Sent(pkts)
                    /\ \E S : pkts = {DataPkt(p, c, TRUE, TRUE) : c \in S}
    BY <1>6, PlainT3
  <2>2. \A d \in pkts : PacketInv(d)'
    <3> SUFFICES ASSUME NEW d \in pkts PROVE PacketInv(d)'
      OBVIOUS
    <3>1. PICK c : d = DataPkt(p, c, TRUE, TRUE)
      BY <2>1
    <3> QED BY <1>3, <3>1
  <2>3. BagToSet(net') \subseteq BagToSet(net) \cup pkts
    BY <1>0, <2>1, SentSet
  <2> QED BY <2>2, <2>3, DeliveryNet
<1>7. ASSUME NEW p \in Peers, WriteMessage(p) \/ FlushStep(p) \/ DrainStep(p) PROVE Conc
  <2>1. CASE net' = net
    BY <2>1, DeliveryOnePacket
  <2>2. ASSUME NEW m \in Msgs, net' = Sent({DataPkt(p, Chunk(p, m, 1), TRUE, TRUE)})
        PROVE  Conc
    <3>1. PICK d, c : d = DataPkt(p, c, TRUE, TRUE) /\ c = Chunk(p, m, 1)
      OBVIOUS
    <3>2. net' = Sent({d}) /\ PacketInv(d)'
      BY <1>3, <2>2, <3>1
    <3> QED BY <3>2, DeliveryOnePacket
  <2> QED BY <1>7, <2>1, <2>2, PlainSends
<1>8. ASSUME NEW p \in Peers, NEW m \in BagToSet(net), HandleInit(p, m) PROVE Conc
  <2>1. m.type = "INIT" /\ PacketInv(m) /\ net' = Replied(m, {InitAckPkt(p, m)})
    BY <1>8 DEF HandleInit, Arrives, DeliveryInv
  <2>2. m.tsn <= InitialTsn
    BY <2>1 DEF PacketInv
  <2>3. PICK d : d = InitAckPkt(p, m)
    OBVIOUS
  <2>4. d.type = "INIT_ACK" /\ d.cookie.peerInitialTsn = m.tsn
    BY <2>3 DEF InitAckPkt, Cookie
  <2>5. PacketInv(d)'
    BY <2>2, <2>4 DEF PacketInv
  <2> QED BY <2>1, <2>3, <2>5, DeliveryOnePacket
<1>9. ASSUME NEW p \in Peers, NEW m \in BagToSet(net), HandleInitAck(p, m) PROVE Conc
  <2>1. m.type = "INIT_ACK" /\ PacketInv(m)
    BY <1>9 DEF HandleInitAck, Arrives, DeliveryInv
  <2>2. CASE ~InitAckExpected(p)
    BY <1>9, <2>2, DeliveryOnePacket DEF HandleInitAck
  <2>3. CASE InitAckExpected(p)
    <3>1. PICK d : d = CookieEchoPkt(p, m.tag, m.cookie)
      OBVIOUS
    <3>2. net' = Replied(m, {d}) /\ state' = [state EXCEPT ![p] = "COOKIE_ECHOED"]
      BY <1>9, <2>3, <3>1 DEF HandleInitAck
    <3>3. state'[p] = "COOKIE_ECHOED" /\ m.cookie.peerInitialTsn <= InitialTsn
      BY <2>1, <3>2 DEF PacketInv
    <3>4. PacketInv(d)'
      BY <1>2, <3>1, <3>3
    <3> QED BY <3>2, <3>4, DeliveryOnePacket
  <2> QED BY <2>2, <2>3
<1>10. ASSUME NEW p \in Peers, NEW m \in BagToSet(net), HandleCookieEcho(p, m) PROVE Conc
  <2>1. PICK d : d = ControlPkt("COOKIE_ACK", p, m.cookie.peerTag)
    OBVIOUS
  <2>2. net' = Replied(m, {d}) /\ state' = [state EXCEPT ![p] = "ESTABLISHED"]
    BY <1>10, <2>1 DEF HandleCookieEcho, Establish
  <2>3. d.type = "COOKIE_ACK" /\ d.to = Other(p)
    BY <2>1 DEF ControlPkt
  <2>4. ~Fresh(p)'
    BY <2>2 DEF Fresh
  <2>5. PacketInv(d)'
    BY <1>0, <2>3, <2>4 DEF PacketInv
  <2> QED BY <2>2, <2>5, DeliveryOnePacket
<1>11. ASSUME NEW p \in Peers, NEW m \in BagToSet(net), HandleData(p, m) PROVE Conc
  <2>1. CASE state[p] # "ESTABLISHED"
    BY <1>11, <2>1, DeliveryOnePacket DEF HandleData
  <2>2. ASSUME state[p] = "ESTABLISHED", ~Trusted(p) PROVE Conc
    <3>1. ~Trusted(p)'
      BY DeliveryGrows, <2>2
    <3>2. PICK d : /\ \E c, r : d = SackPkt(p, c, r)
                   /\ net' = Replied(m, {d})
      BY <1>11, <2>2 DEF HandleData
    <3>3. d.type = "SACK" /\ d.to = Other(p)
      BY <3>2 DEF SackPkt
    <3>4. PacketInv(d)'
      BY <1>0, <3>1, <3>3 DEF PacketInv
    <3> QED BY <3>2, <3>4, DeliveryOnePacket
  <2>3. ASSUME state[p] = "ESTABLISHED", Trusted(p) PROVE Conc
    <3>1. PICK c \in Nat, r \in SUBSET Nat :
            /\ net' = Replied(m, {SackPkt(p, c, r)})
            /\ \A t \in InitialTsn .. c : t \in got'[p]
            /\ r \subseteq got'[p]
      BY <1>11, <2>3, DataAccepted
    <3>2. PICK d : d = SackPkt(p, c, r)
      OBVIOUS
    <3>3. d.type = "SACK" /\ d.to = Other(p)
      BY <3>2 DEF SackPkt
    <3>4. ASSUME NEW t \in Nat, t >= InitialTsn, SackCovers(d, t) PROVE t \in got'[p]
      <4>1. t <= c \/ t \in r
        BY <3>2, <3>4, SackCoversOwn
      <4>2. t <= c => t \in InitialTsn .. c
        BY <3>4
      <4> QED BY <3>1, <4>1, <4>2
    <3>5. PacketInv(d)'
      BY <1>0, <3>3, <3>4 DEF PacketInv, SackCovers
    <3> QED BY <3>1, <3>2, <3>5, DeliveryOnePacket
  <2> QED BY <2>1, <2>2, <2>3
<1>12. ASSUME NEW p \in Peers, NEW m,
              \/ UNCHANGED vars \/ FreeSession(p) \/ HandleCookieAck(p, m)
              \/ HandleSack(p, m) \/ Lose(m)
       PROVE  Conc
  <2>1. net' = net \/ net' = net (-) SetToBag({m}) \/ net' = Replied(m, {})
    BY <1>12 DEF vars, FreeSession, HandleCookieAck, HandleSack, Lose
  <2> QED BY <2>1, DeliveryOnePacket
<1>13. PICK p \in Peers : TRUE
  BY DEF Peers
<1> HIDE DEF Conc
<1>14. Conc
  BY <1>4, <1>5, <1>6, <1>7, <1>8, <1>9, <1>10, <1>11, <1>12, <1>13 DEF PlainStep
<1> QED BY <1>14 DEF Conc

\* Nothing has been sent, acknowledged or accepted at first.
LEMMA DeliveryInvInit == Init => DeliveryInv
<1> SUFFICES ASSUME Init PROVE DeliveryInv
  OBVIOUS
<1>1. FullInv /\ WaitingInv
  BY FullInvInit, WaitingInvInit
<1>2. InitialTsn \in Nat \ {0} /\ \A q \in Peers : Other(q) \in Peers
  BY LimitsAssumption, OtherPeer
<1>3. \A p \in Peers : TrackInv(p) /\ PointInv(p) /\ AckedInv(p)
  BY <1>2 DEF Init, TrackInv, PointInv, AckedInv
<1>4. \A p \in Peers : OpeningInv(p)
  BY <1>2 DEF Init, OpeningInv, NoCookie
<1>5. BagToSet(net) = {}
  BY DEF Init, EmptyBag, BagToSet, SetToBag
<1> QED BY <1>1, <1>3, <1>4, <1>5 DEF DeliveryInv

\* Acknowledged means delivered, for all limits, windows and messages, every
\* loss and reordering, crossing handshakes, and peers that free their session
\* at any time: unfragmented reliable messages, no shutdown (sctpHandleData,
\* sctpHandleSack, sctpHandleInitAck, sctpHandleCookieEcho, sctpAssocSend,
\* sctpAssocCheckTimers).
THEOREM AckedDelivered ==
  ASSUME PlainTransfer
  PROVE  Spec => []AckedMeansDelivered
<1>1. DeliveryInv /\ [Next]_vars => DeliveryInv'
  <2> SUFFICES ASSUME DeliveryInv, [Next]_vars PROVE DeliveryInv'
    OBVIOUS
  <2>1. PlainStep
    BY PlainTransfer, PlainNext
  <2>2. FullInv' /\ WaitingInv'
    BY PlainTransfer, FullInvNext, WaitingInvNext DEF DeliveryInv, FullInv, RestInv, PlainTransfer
  <2>3. \A q \in Peers : TrackInv(q)' /\ OpeningInv(q)' /\ PointInv(q)' /\ AckedInv(q)'
    BY <2>1, PlainTransfer, DeliveryTrack, DeliveryOpening, DeliveryPoint, DeliveryAcked
  <2>4. \A k \in BagToSet(net') : PacketInv(k)'
    BY <2>1, PlainTransfer, DeliveryPackets
  <2> QED BY <2>2, <2>3, <2>4 DEF DeliveryInv
<1>2. DeliveryInv => AckedMeansDelivered
  BY DEF DeliveryInv, AckedInv, Trusted, AckedMeansDelivered
<1> QED BY <1>1, <1>2, DeliveryInvInit, PTL DEF Spec
=============================================================================
