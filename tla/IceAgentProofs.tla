--------------------------- MODULE IceAgentProofs ---------------------------
(***************************************************************************)
(* Proofs about IceAgent for any candidates, restarts, triggered checks    *)
(* and closed sockets.                                                     *)
(*                                                                         *)
(* The invariants of the module speak of the lists of the agent; why they  *)
(* hold lies in the generation of a candidate.  Every listed candidate     *)
(* belongs to the present session (ListInv), and a pair kept from before a *)
(* restart to an earlier one (DataInv), so that what the deferred clean-up *)
(* frees is in no list.  MachineInv ties the state machine to the state    *)
(* the agent tells, and TimerInv a restart and a shutdown to the timers.   *)
(***************************************************************************)
EXTENDS IceAgent, FiniteSetTheorems, WellFoundedInduction, TLAPS

\* The session a candidate or a pair belongs to.
Gen(l) == l[1]
GenOf(p) == Gen(LocalOf(p))

\* A TURN connection that is being shut down.
Leaving == {"stopping", "complete"}

\* The state machine stands in the state the agent has, which the application
\* has been told.
MachineInv(a) ==
  /\ ~a.rejected /\ a.sm = a.iceAgentState
  /\ a.detectedDisconnection => a.iceAgentState \in {"READY", "FAILED"}
  /\ a.iceAgentState # "NEW" =>
       a.notified = IF a.iceAgentState = "READY" /\ a.detectedDisconnection
                    THEN "DISCONNECTED" ELSE a.iceAgentState

\* What is listed is of the present session and alive; a relayed candidate on
\* its way out is invalid and in no pair.
ListInv(a, g, over) ==
  /\ \A l \in a.localCandidates : Gen(l) = g /\ a.cand[l] # "FREED"
  /\ \A p \in a.iceCandidatePairs : LocalOf(p) \in a.localCandidates
  /\ ~over => \A l \in a.localCandidates : a.turn[l] \in Leaving => a.cand[l] = "INVALID"
  /\ ~over => \A p \in a.iceCandidatePairs : a.turn[LocalOf(p)] \notin Leaving
  /\ \A l \in Locals : a.turn[l] \in Leaving => Kind(l) = "relay"

\* The checks that wait are of listed pairs until the agent has settled.
QueueInv(a) ==
  a.iceAgentState \in Checking \cup {"NEW"} =>
    \A i \in DOMAIN a.triggeredCheckQueue : a.triggeredCheckQueue[i] \in a.iceCandidatePairs

\* The selected pair is of the present session or was kept from an earlier
\* one; the pair put aside is of an earlier one.
DataInv(a, g) ==
  /\ a.data # NoPair => GenOf(a.data) <= g
  /\ a.data # NoPair /\ a.iceAgentState \in {"NEW", "CHECK_CONNECTION"} => GenOf(a.data) < g
  /\ a.deferred # NoPair => GenOf(a.deferred) < g /\ a.data # a.deferred

\* A restart has emptied the agent and waits for no one; a shutdown has taken
\* the handles, and only a step that was under way adds one.
TimerInv ==
  /\ shutdownPhase # "cancelling" => captured = {}
  /\ shutdownPhase # "none" => ag.handles \subseteq {"keepAlive"}
  /\ shutdownPhase = "done" => pc = "idle"
  /\ pc = "cleanup" => ag.deferred # NoPair
  /\ restartPhase = "sleeping" =>
       /\ pc = "idle" /\ shutdownPhase = "none" /\ ag.handles = {}
       /\ ag.localCandidates = {}
       /\ ag.data # NoPair => GenOf(ag.data) < generation

IceInv ==
  /\ TypeOK /\ TimerInv /\ MachineInv(ag)
  /\ ListInv(ag, generation, shutdownPhase = "done")
  /\ restartPhase = "none" => QueueInv(ag)
  /\ DataInv(ag, generation)

-----------------------------------------------------------------------------
(* The operators on the agent                                              *)

PairStates == {"NONE", "FROZEN", "WAITING", "IN_PROGRESS", "SUCCEEDED", "FAILED", "FREED"}
CandStates == {"NONE", "NEW", "VALID", "INVALID", "FREED"}

\* The fields of the state machine, and the lists, are the same in a and b.
SameMachine(a, b) ==
  /\ b.sm = a.sm /\ b.iceAgentState = a.iceAgentState /\ b.rejected = a.rejected
  /\ b.notified = a.notified /\ b.detectedDisconnection = a.detectedDisconnection

SameLists(a, b) ==
  /\ b.localCandidates = a.localCandidates /\ b.iceCandidatePairs = a.iceCandidatePairs
  /\ b.data = a.data /\ b.deferred = a.deferred /\ b.turn = a.turn

\* b is a after checks: states of pairs have changed, candidates have become
\* invalid, and checks have left the queue.
Checked(a, b) ==
  /\ b \in Agent /\ SameMachine(a, b) /\ SameLists(a, b)
  /\ b.iceAgentStatus = a.iceAgentStatus /\ b.handles = a.handles
  /\ b.isLiteAgent = a.isLiteAgent /\ b.isControlling = a.isControlling
  /\ \A l \in Locals : b.cand[l] \in {a.cand[l], "INVALID"}
  /\ \A i \in DOMAIN b.triggeredCheckQueue :
       \E j \in DOMAIN a.triggeredCheckQueue : b.triggeredCheckQueue[i] = a.triggeredCheckQueue[j]

LEMMA CheckedReflexive ==
  ASSUME NEW a \in Agent PROVE Checked(a, a)
BY DEF Checked, SameMachine, SameLists

LEMMA SetPairsChecked ==
  ASSUME NEW a \in Agent, NEW S, NEW s \in PairStates
  PROVE  Checked(a, SetPairs(a, S, s))
BY ZenonT(60) DEF Checked, SameMachine, SameLists, SetPairs, Agent, PairStates

LEMMA SetPairsFields ==
  ASSUME NEW a \in Agent, NEW S, NEW s \in PairStates
  PROVE  LET b == SetPairs(a, S, s) IN
         /\ b \in Agent /\ SameMachine(a, b) /\ SameLists(a, b) /\ b.handles = a.handles
         /\ b.iceAgentStatus = a.iceAgentStatus /\ b.cand = a.cand
         /\ b.triggeredCheckQueue = a.triggeredCheckQueue
BY SMTT(60) DEF SameMachine, SameLists, SetPairs, Agent, PairStates

LEMMA SetLocalsChecked ==
  ASSUME NEW a \in Agent, NEW S
  PROVE  Checked(a, SetLocals(a, S, "INVALID"))
BY DEF Checked, SameMachine, SameLists, SetLocals, Agent

LEMMA CheckedTransitive ==
  ASSUME NEW a, NEW b, NEW c, Checked(a, b), Checked(b, c)
  PROVE  Checked(a, c)
BY DEF Checked, SameMachine, SameLists

LEMMA InvalidateChecked ==
  ASSUME NEW a \in Agent
  PROVE  Checked(a, iceAgentInvalidateCandidatePair(a))
BY SetPairsChecked DEF iceAgentInvalidateCandidatePair, PairStates

LEMMA SendChecked ==
  ASSUME NEW a \in Agent, NEW L
  PROVE  Checked(a, iceAgentSendStunPacket(a, L))
<1> DEFINE b == SetLocals(a, L \cap closed, "INVALID")
<1>1. Checked(a, b)
  BY SetLocalsChecked
<1> HIDE DEF b
<1>a. b \in Agent
  BY <1>1 DEF Checked
<1>2. Checked(b, iceAgentInvalidateCandidatePair(b))
  BY <1>a, InvalidateChecked
<1>3. Checked(a, iceAgentInvalidateCandidatePair(b))
  BY <1>1, <1>2, CheckedTransitive
<1> QED BY <1>3, CheckedReflexive DEF iceAgentSendStunPacket, b

LEMMA PairCheckChecked ==
  ASSUME NEW a \in Agent, NEW S
  PROVE  Checked(a, iceCandidatePairCheckConnection(a, S))
<1> DEFINE b == [a EXCEPT !.transactionIds = [p \in Pairs |-> p \in S \/ @[p]]]
<1>1. Checked(a, b) /\ b \in Agent
  <2>1. [p \in Pairs |-> p \in S \/ a.transactionIds[p]] \in [Pairs -> BOOLEAN]
    BY Zenon
  <2> QED BY <2>1 DEF Checked, SameMachine, SameLists, Agent
<1> HIDE DEF b
<1>2. Checked(b, iceAgentSendStunPacket(b, {LocalOf(p) : p \in S}))
  BY <1>1, SendChecked
<1> QED BY <1>1, <1>2, CheckedTransitive DEF iceCandidatePairCheckConnection, b

LEMMA CheckPairsChecked ==
  ASSUME NEW a \in Agent
  PROVE  Checked(a, iceAgentCheckCandidatePairConnection(a))
<1>1. CASE a.triggeredCheckQueue # <<>>
  <2> DEFINE b == [a EXCEPT !.triggeredCheckQueue = Tail(@)]
  <2> DEFINE q == a.triggeredCheckQueue
  <2>1. q \in Seq(Pairs) /\ Len(q) <= MaxTriggered /\ q # <<>>
    BY <1>1 DEF Agent
  <2>2. Tail(q) \in Seq(Pairs) /\ Len(Tail(q)) = Len(q) - 1
    BY <2>1
  <2>3. \A i \in DOMAIN Tail(q) : i + 1 \in DOMAIN q /\ Tail(q)[i] = q[i + 1]
    BY <2>1, <2>2
  <2> HIDE DEF q
  <2>a. b = [a EXCEPT !.triggeredCheckQueue = Tail(q)]
    BY DEF q
  <2>b. Tail(q) \in {r \in Seq(Pairs) : Len(r) <= MaxTriggered}
    BY <2>1, <2>2, IceAssumption
  <2> HIDE DEF b
  <2>4. b \in Agent /\ b.triggeredCheckQueue = Tail(q)
    BY <2>a, <2>b, ZenonT(60) DEF Agent
  <2>5. Checked(a, b)
    <3>1. /\ SameMachine(a, b) /\ SameLists(a, b) /\ b.cand = a.cand
          /\ b.iceAgentStatus = a.iceAgentStatus /\ b.handles = a.handles
          /\ b.isLiteAgent = a.isLiteAgent /\ b.isControlling = a.isControlling
      BY <2>a DEF SameMachine, SameLists, Agent
    <3> QED BY <2>3, <2>4, <3>1 DEF Checked, q
  <2> DEFINE S == {Head(a.triggeredCheckQueue)}
  <2>6. Checked(b, iceCandidatePairCheckConnection(b, S))
    BY <2>4, PairCheckChecked
  <2>7. iceAgentCheckCandidatePairConnection(a) = iceCandidatePairCheckConnection(b, S)
    BY <1>1, <2>a DEF iceAgentCheckCandidatePairConnection, b
  <2> HIDE DEF b, S
  <2> QED BY <2>5, <2>6, <2>7, CheckedTransitive
<1>2. CASE a.triggeredCheckQueue = <<>>
  <2> DEFINE S == InState(a, {"WAITING", "IN_PROGRESS"})
             b == SetPairs(a, S, "IN_PROGRESS")
  <2>1. Checked(a, b) /\ b \in Agent
    BY SetPairsChecked DEF Checked, PairStates
  <2>2. Checked(b, iceCandidatePairCheckConnection(b, S))
    BY <2>1, PairCheckChecked
  <2>3. iceAgentCheckCandidatePairConnection(a) = iceCandidatePairCheckConnection(b, S)
    BY <1>2 DEF iceAgentCheckCandidatePairConnection
  <2> HIDE DEF b, S
  <2> QED BY <2>1, <2>2, <2>3, CheckedTransitive
<1> QED BY <1>1, <1>2

-----------------------------------------------------------------------------
(* The first pair of a sorted list                                         *)

LEMMA PairsFinite == IsFiniteSet(Pairs)
<1>1. IsFiniteSet({"host", "relay"})
  <2>1. IsFiniteSet({"host"}) /\ IsFiniteSet({"relay"})
    BY FS_Singleton
  <2>2. {"host", "relay"} = {"host"} \cup {"relay"}
    OBVIOUS
  <2> QED BY <2>1, <2>2, FS_Union
<1>2. IsFiniteSet(Kinds) /\ IsFiniteSet(Remotes)
  BY <1>1, FS_Subset, IceAssumption
<1>3. IsFiniteSet(0..MaxRestarts)
  BY FS_Interval, IceAssumption
<1>4. IsFiniteSet(Locals)
  BY <1>2, <1>3, FS_Product DEF Locals
<1> QED BY <1>2, <1>4, FS_Product DEF Pairs

LEMMA PriorityType ==
  ASSUME NEW p \in Pairs PROVE computeCandidatePairPriority(p) \in Nat
<1>1. RemoteOf(p) \in Nat
  BY IceAssumption DEF Pairs, RemoteOf
<1>2. computeCandidatePriority(LocalOf(p)) \in {1, 4}
  BY DEF computeCandidatePriority
<1> QED BY <1>1, <1>2 DEF computeCandidatePairPriority

\* A list that is not empty has a pair of highest priority: the one with the
\* most pairs not above it.
LEMMA FirstIn ==
  ASSUME NEW S \in SUBSET Pairs, S # {}
  PROVE  First(S) \in S
<1> DEFINE f(p) == computeCandidatePairPriority(p)
           Below(p) == {q \in S : f(q) <= f(p)}
           N == Cardinality(S)
           Above(p) == N - Cardinality(Below(p))
           R == {ss \in Nat \X Nat : ss[1] < ss[2]}
           V == {Above(p) : p \in S}
<1>1. IsFiniteSet(S) /\ N \in Nat
  BY PairsFinite, FS_Subset, FS_CardinalityType
<1>2. \A p \in S : f(p) \in Nat
  BY PriorityType
<1>3. \A p \in S : /\ IsFiniteSet(Below(p)) /\ Cardinality(Below(p)) \in Nat
                    /\ Cardinality(Below(p)) <= N
  BY <1>1, FS_Subset, FS_CardinalityType
<1>4. IsWellFoundedOn(R, Nat)
  BY NatLessThanWellFounded, Zenon DEF OpToRel
<1>5. V \subseteq Nat /\ V # {}
  <2>1. ASSUME NEW p \in S PROVE Above(p) \in Nat
    <3> DEFINE c == Cardinality(Below(p))
    <3>1. c \in Nat /\ c <= N
      BY <1>3
    <3> HIDE DEF c, N
    <3>2. N - c \in Nat
      BY <1>1, <3>1
    <3> QED BY <3>2 DEF c, N
  <2>2. V # {}
    OBVIOUS
  <2> HIDE DEF Above
  <2> QED BY <2>1, <2>2
<1> HIDE DEF R, V
<1>6. PICK v \in V : \A w \in V : ~ (<<w, v>> \in R)
  BY <1>4, <1>5, WFMin
<1>7. PICK p \in S : v = Above(p)
  BY <1>6 DEF V
<1>8. \A q \in S : ~(Above(q) < Above(p))
  BY <1>5, <1>6, <1>7 DEF R, V
<1>9. ASSUME NEW q \in S PROVE f(q) <= f(p)
  <2>1. SUFFICES ASSUME f(p) < f(q) PROVE FALSE
    BY <1>2
  <2> DEFINE A == Below(p)
             B == Below(q)
  <2>2. A \subseteq B /\ q \in B /\ q \notin A
    BY <1>2, <2>1
  <2>3. IsFiniteSet(A) /\ IsFiniteSet(B) /\ Cardinality(A) \in Nat /\ Cardinality(B) \in Nat
    BY <1>3
  <2> HIDE DEF A, B
  <2>4. Cardinality(A) < Cardinality(B)
    BY <2>2, <2>3, FS_Subset
  <2>5. ~(N - Cardinality(B) < N - Cardinality(A))
    BY <1>8 DEF A, B
  <2> QED BY <1>1, <2>3, <2>4, <2>5
<1>10. \E r \in S : \A q \in S : computeCandidatePairPriority(q) <= computeCandidatePairPriority(r)
  BY <1>9
<1> QED BY <1>10 DEF First

-----------------------------------------------------------------------------
(* What the states do                                                      *)

\* The parts of the invariant that speak of candidates and pairs.
Sound(a, g) == a \in Agent /\ ListInv(a, g, FALSE) /\ QueueInv(a) /\ DataInv(a, g)

\* What the code of a state leaves alone.
Entered(a, b) ==
  /\ b.sm = a.sm /\ b.rejected = a.rejected /\ b.notified = a.notified
  /\ b.detectedDisconnection = a.detectedDisconnection
  /\ b.handles \subseteq a.handles \cup {"keepAlive"}

LEMMA CheckedSound ==
  ASSUME NEW a, NEW b, NEW g, Sound(a, g), Checked(a, b)
  PROVE  Sound(b, g) /\ Entered(a, b)
<1>1. a \in Agent /\ b \in Agent /\ a.localCandidates \subseteq Locals
  BY DEF Sound, Checked, Agent
<1>2. ListInv(b, g, FALSE)
  BY <1>1 DEF Sound, ListInv, Checked, SameLists
<1>3. QueueInv(b)
  BY <1>1 DEF Sound, QueueInv, Checked, SameLists, SameMachine
<1>4. DataInv(b, g)
  BY DEF Sound, DataInv, Checked, SameLists, SameMachine
<1> QED BY <1>1, <1>2, <1>3, <1>4 DEF Sound, Entered, Checked, SameMachine

\* The state that the agent tells changes, and nothing else.
LEMMA TellState ==
  ASSUME NEW a \in Agent, NEW s \in States \ {"DISCONNECTED"}
  PROVE  LET b == [a EXCEPT !.iceAgentState = s] IN
         /\ b \in Agent /\ b.iceAgentState = s /\ b.sm = a.sm /\ b.rejected = a.rejected
         /\ b.notified = a.notified /\ b.detectedDisconnection = a.detectedDisconnection
         /\ b.handles = a.handles /\ b.iceAgentStatus = a.iceAgentStatus /\ SameLists(a, b)
         /\ b.cand = a.cand /\ b.triggeredCheckQueue = a.triggeredCheckQueue
         /\ b.isLiteAgent = a.isLiteAgent /\ b.isControlling = a.isControlling
BY DEF Agent, SameLists

LEMMA TellSound ==
  ASSUME NEW a, NEW g, Sound(a, g), NEW s \in States \ {"DISCONNECTED"},
         s \in Checking => a.iceAgentState \in Checking \cup {"NEW"},
         s = "CHECK_CONNECTION" => a.iceAgentState \in {"NEW", "CHECK_CONNECTION"},
         s # "NEW"
  PROVE  LET b == [a EXCEPT !.iceAgentState = s] IN
         /\ Sound(b, g) /\ Entered(a, b) /\ b.iceAgentState = s /\ b.iceAgentStatus = a.iceAgentStatus
<1> DEFINE b == [a EXCEPT !.iceAgentState = s]
<1>1. /\ b \in Agent /\ b.iceAgentState = s /\ b.sm = a.sm /\ b.rejected = a.rejected
      /\ b.notified = a.notified /\ b.detectedDisconnection = a.detectedDisconnection
      /\ b.handles = a.handles /\ b.iceAgentStatus = a.iceAgentStatus /\ SameLists(a, b)
      /\ b.cand = a.cand /\ b.triggeredCheckQueue = a.triggeredCheckQueue
  BY TellState DEF Sound
<1> HIDE DEF b
<1>2. ListInv(b, g, FALSE) /\ DataInv(b, g) /\ QueueInv(b)
  BY <1>1 DEF Sound, ListInv, DataInv, QueueInv, SameLists, Checking
<1>3. Sound(b, g) /\ Entered(a, b)
  BY <1>1, <1>2 DEF Sound, Entered
<1> QED BY <1>1, <1>3 DEF b

LEMMA CheckConnectionKeeps ==
  ASSUME NEW a, NEW g, Sound(a, g), a.iceAgentState \in {"NEW", "CHECK_CONNECTION"}
  PROVE  LET b == ExecuteCheckConnection(a) IN
         /\ Sound(b, g) /\ Entered(a, b) /\ b.iceAgentState = "CHECK_CONNECTION"
         /\ b.iceAgentStatus = a.iceAgentStatus
<1> DEFINE c == iceAgentCheckConnectionStateSetup(a)
           d == IF a.iceAgentState = "CHECK_CONNECTION" THEN a
                ELSE [c EXCEPT !.iceAgentState = "CHECK_CONNECTION"]
<1>1. Checked(a, c)
  BY SetPairsChecked DEF iceAgentCheckConnectionStateSetup, PairStates, Sound
<1> HIDE DEF c
<1>2. Sound(c, g) /\ Entered(a, c) /\ c.iceAgentState = a.iceAgentState /\ c.iceAgentStatus = a.iceAgentStatus
  BY <1>1, CheckedSound DEF Checked, SameMachine
<1>3. /\ Sound(d, g) /\ Entered(a, d) /\ d.iceAgentState = "CHECK_CONNECTION"
      /\ d.iceAgentStatus = a.iceAgentStatus
  <2>1. CASE a.iceAgentState = "CHECK_CONNECTION"
    BY <2>1 DEF Entered
  <2>2. CASE a.iceAgentState # "CHECK_CONNECTION"
    <3> DEFINE e == [c EXCEPT !.iceAgentState = "CHECK_CONNECTION"]
    <3>1. /\ Sound(e, g) /\ Entered(c, e) /\ e.iceAgentState = "CHECK_CONNECTION"
          /\ e.iceAgentStatus = c.iceAgentStatus
      BY <1>2, TellSound DEF States
    <3>2. d = e
      BY <2>2
    <3> HIDE DEF d, e
    <3> QED BY <1>2, <3>1, <3>2 DEF Entered
  <2> QED BY <2>1, <2>2
<1> HIDE DEF d
<1>4. d \in Agent
  BY <1>3 DEF Sound
<1> DEFINE e == iceAgentCheckCandidatePairConnection(d)
<1>5. Checked(d, e)
  BY <1>4, CheckPairsChecked
<1> HIDE DEF e
<1>6. /\ Sound(e, g) /\ Entered(a, e) /\ e.iceAgentState = "CHECK_CONNECTION"
      /\ e.iceAgentStatus = a.iceAgentStatus
  <2>1. Sound(e, g) /\ Entered(d, e)
    BY <1>3, <1>5, CheckedSound
  <2> QED BY <1>3, <1>5, <2>1 DEF Entered, Checked, SameMachine
<1>7. ExecuteCheckConnection(a) = d \/ ExecuteCheckConnection(a) = e
  BY DEF ExecuteCheckConnection, c, d, e
<1> QED BY <1>3, <1>6, <1>7

\* The selected pair of a checking agent is of an earlier session: it is put
\* aside, and a pair of this one takes its place.
LEMMA ConnectedKeeps ==
  ASSUME NEW a, NEW g, Sound(a, g), a.iceAgentState = "CHECK_CONNECTION", g \in Nat
  PROVE  LET b == ExecuteConnected(a) IN
         /\ Sound(b, g) /\ Entered(a, b) /\ b.iceAgentState = "CONNECTED"
         /\ b.iceAgentStatus = a.iceAgentStatus
<1>0. a \in Agent /\ ListInv(a, g, FALSE) /\ QueueInv(a) /\ DataInv(a, g)
  BY DEF Sound
<1> DEFINE b == IF a.data = NoPair THEN a
                ELSE [a EXCEPT !.restart = FALSE, !.deferred = a.data, !.data = NoPair]
           d == IF Usable(b) # {} THEN First(Usable(b)) ELSE b.data
           c == [b EXCEPT !.data = d, !.handles = @ \cup {"keepAlive"}]
           e == [c EXCEPT !.iceAgentState = "CONNECTED"]
<1>1. /\ b \in Agent /\ b.data = NoPair /\ b.deferred = (IF a.data = NoPair THEN a.deferred ELSE a.data)
      /\ SameMachine(a, b) /\ b.iceCandidatePairs = a.iceCandidatePairs /\ b.localCandidates = a.localCandidates
      /\ b.turn = a.turn /\ b.cand = a.cand /\ b.handles = a.handles /\ b.iceAgentStatus = a.iceAgentStatus
      /\ b.triggeredCheckQueue = a.triggeredCheckQueue
  <2>1. CASE a.data = NoPair
    BY <1>0, <2>1 DEF SameMachine
  <2>2. CASE a.data # NoPair
    <3> DEFINE k == [a EXCEPT !.restart = FALSE, !.deferred = a.data, !.data = NoPair]
    <3>1. b = k
      BY <2>2
    <3>2. /\ k.data = NoPair /\ k.deferred = a.data
          /\ SameMachine(a, k) /\ k.iceCandidatePairs = a.iceCandidatePairs /\ k.localCandidates = a.localCandidates
          /\ k.turn = a.turn /\ k.cand = a.cand /\ k.handles = a.handles /\ k.iceAgentStatus = a.iceAgentStatus
          /\ k.triggeredCheckQueue = a.triggeredCheckQueue
      BY <1>0 DEF Agent, SameMachine
    <3>3. k \in Agent
      BY <1>0 DEF Agent
    <3> HIDE DEF b, k
    <3> QED BY <2>2, <3>1, <3>2, <3>3
  <2> QED BY <2>1, <2>2
<1> HIDE DEF b
<1>2. d = NoPair \/ d \in a.iceCandidatePairs
  <2>1. Usable(b) \subseteq a.iceCandidatePairs /\ a.iceCandidatePairs \subseteq Pairs
    BY <1>0, <1>1 DEF Usable, InState, Agent
  <2>2. Usable(b) # {} => First(Usable(b)) \in Usable(b)
    BY <2>1, FirstIn
  <2> QED BY <1>1, <2>1, <2>2
<1> HIDE DEF d
<1>3. d \in Pairs \cup {NoPair} /\ (d # NoPair => GenOf(d) = g)
  BY <1>0, <1>2 DEF Agent, ListInv, GenOf
<1>a. c \in Agent
  BY <1>1, <1>3, ZenonT(60) DEF Agent, Timers
<1>b. e \in Agent
  BY <1>a, ZenonT(60) DEF Agent, States
<1>4. /\ e \in Agent /\ e.iceAgentState = "CONNECTED" /\ e.data = d /\ e.deferred = b.deferred
      /\ e.sm = b.sm /\ e.rejected = b.rejected /\ e.notified = b.notified
      /\ e.detectedDisconnection = b.detectedDisconnection /\ e.iceAgentStatus = b.iceAgentStatus
      /\ e.iceCandidatePairs = b.iceCandidatePairs /\ e.localCandidates = b.localCandidates
      /\ e.turn = b.turn /\ e.cand = b.cand /\ e.handles = b.handles \cup {"keepAlive"}
      /\ e.triggeredCheckQueue = b.triggeredCheckQueue
  BY <1>1, <1>3, <1>b DEF Agent
<1>5. ExecuteConnected(a) = e
  BY DEF ExecuteConnected, iceAgentConnectedStateSetup, b, d
<1> HIDE DEF e
<1>6. ListInv(e, g, FALSE)
  BY <1>0, <1>1, <1>4 DEF ListInv
<1>7. QueueInv(e)
  BY <1>0, <1>1, <1>4 DEF QueueInv, Checking
<1>8. DataInv(e, g)
  <2>1. e.deferred # NoPair => GenOf(e.deferred) < g
    BY <1>0, <1>1, <1>4 DEF DataInv
  <2> QED BY <1>3, <1>4, <2>1 DEF DataInv
<1> QED BY <1>1, <1>4, <1>5, <1>6, <1>7, <1>8 DEF Sound, Entered, SameMachine

LEMMA FatalKeeps ==
  ASSUME NEW a, NEW g, Sound(a, g)
  PROVE  LET b == iceAgentFatalError(a) IN
         /\ Sound(b, g) /\ Entered(a, b) /\ b.iceAgentState = a.iceAgentState /\ b.iceAgentStatus = "ERR"
<1> DEFINE b == iceAgentFatalError(a)
<1>1. /\ b \in Agent /\ SameMachine(a, b) /\ SameLists(a, b) /\ b.handles = a.handles
      /\ b.iceAgentStatus = "ERR" /\ b.cand = a.cand /\ b.triggeredCheckQueue = a.triggeredCheckQueue
  BY DEF Sound, iceAgentFatalError, Agent, SameMachine, SameLists
<1> HIDE DEF b
<1>2. ListInv(b, g, FALSE) /\ QueueInv(b) /\ DataInv(b, g)
  BY <1>1 DEF Sound, ListInv, QueueInv, DataInv, SameMachine, SameLists
<1>3. Sound(b, g) /\ Entered(a, b) /\ b.iceAgentState = a.iceAgentState /\ b.iceAgentStatus = "ERR"
  BY <1>1, <1>2 DEF Sound, Entered, SameMachine
<1> QED BY <1>3 DEF b

LEMMA NominateChecked ==
  ASSUME NEW a \in Agent, InState(a, {"SUCCEEDED"}) # {}
  PROVE  Checked(a, iceAgentNominateCandidatePair(a))
<1> DEFINE p == First(InState(a, {"SUCCEEDED"}))
           b == [a EXCEPT !.nominated[p] = TRUE, !.transactionIds[p] = FALSE]
           S == {q \in a.iceCandidatePairs : ~b.nominated[q]}
<1>1. InState(a, {"SUCCEEDED"}) \subseteq Pairs
  BY DEF InState, Agent
<1>2. p \in Pairs
  BY <1>1, FirstIn
<1> HIDE DEF p
<1>a. [a.nominated EXCEPT ![p] = TRUE] \in [Pairs -> BOOLEAN]
  BY <1>2 DEF Agent
<1>b. [a.transactionIds EXCEPT ![p] = FALSE] \in [Pairs -> BOOLEAN]
  BY <1>2 DEF Agent
<1> DEFINE n == [a.nominated EXCEPT ![p] = TRUE]
           x == [a.transactionIds EXCEPT ![p] = FALSE]
<1>c. b = [a EXCEPT !.nominated = n, !.transactionIds = x]
  OBVIOUS
<1> HIDE DEF b, n, x
<1>3. b \in Agent
  BY <1>a, <1>b, <1>c, ZenonT(60) DEF Agent, n, x
<1>4. Checked(a, b)
  BY <1>3, <1>c DEF Checked, SameMachine, SameLists, Agent
<1>5. Checked(b, SetPairs(b, S, "FROZEN"))
  BY <1>3, SetPairsChecked DEF PairStates
<1>6. iceAgentNominateCandidatePair(a) = SetPairs(b, S, "FROZEN")
  BY DEF iceAgentNominateCandidatePair, b, p
<1> HIDE DEF S
<1> QED BY <1>4, <1>5, <1>6, CheckedTransitive

LEMMA NominatingPollChecked ==
  ASSUME NEW a \in Agent
  PROVE  Checked(a, NominatingPoll(a))
BY CheckedReflexive, PairCheckChecked, CheckPairsChecked DEF NominatingPoll, iceAgentSendCandidateNomination

LEMMA NominatingKeeps ==
  ASSUME NEW a, NEW g, Sound(a, g), a.iceAgentState \in {"CONNECTED", "NOMINATING"}
  PROVE  LET b == ExecuteNominating(a) IN
         /\ Sound(b, g) /\ Entered(a, b)
         /\ \/ b.iceAgentState = "NOMINATING" /\ b.iceAgentStatus = a.iceAgentStatus
            \/ b.iceAgentState = a.iceAgentState /\ b.iceAgentStatus = "ERR"
<1>0. a \in Agent
  BY DEF Sound
<1>p. ASSUME NEW c, Sound(c, g), c.iceAgentState = "NOMINATING"
      PROVE  /\ Sound(NominatingPoll(c), g) /\ Entered(c, NominatingPoll(c))
             /\ NominatingPoll(c).iceAgentState = "NOMINATING"
             /\ NominatingPoll(c).iceAgentStatus = c.iceAgentStatus
  <2> DEFINE e == NominatingPoll(c)
  <2>1. Checked(c, e)
    BY <1>p, NominatingPollChecked DEF Sound
  <2> HIDE DEF e
  <2>2. Sound(e, g) /\ Entered(c, e) /\ e.iceAgentState = "NOMINATING" /\ e.iceAgentStatus = c.iceAgentStatus
    BY <1>p, <2>1, CheckedSound DEF Checked, SameMachine
  <2> QED BY <2>2 DEF e
<1>1. CASE a.iceAgentState = "NOMINATING"
  <2>1. ExecuteNominating(a) = NominatingPoll(a)
    BY <1>1 DEF ExecuteNominating
  <2> QED BY <1>1, <1>p, <2>1
<1>2. CASE a.iceAgentState # "NOMINATING" /\ a.isControlling /\ InState(a, {"SUCCEEDED"}) = {}
  <2>1. ExecuteNominating(a) = iceAgentFatalError(a)
    BY <1>2 DEF ExecuteNominating
  <2> QED BY <2>1, FatalKeeps
<1>3. CASE a.iceAgentState # "NOMINATING" /\ ~(a.isControlling /\ InState(a, {"SUCCEEDED"}) = {})
  <2> DEFINE c == IF a.isControlling THEN iceAgentNominateCandidatePair(a) ELSE a
             d == [c EXCEPT !.iceAgentState = "NOMINATING"]
  <2>1. Checked(a, c)
    BY <1>0, <1>3, NominateChecked, CheckedReflexive
  <2> HIDE DEF c
  <2>2. Sound(c, g) /\ Entered(a, c) /\ c.iceAgentState = a.iceAgentState /\ c.iceAgentStatus = a.iceAgentStatus
    BY <2>1, CheckedSound DEF Checked, SameMachine
  <2>3. /\ Sound(d, g) /\ Entered(c, d) /\ d.iceAgentState = "NOMINATING"
        /\ d.iceAgentStatus = c.iceAgentStatus
    BY <2>2, TellSound DEF States, Checking
  <2> HIDE DEF d
  <2>4. ExecuteNominating(a) = NominatingPoll(d)
    BY <1>3 DEF ExecuteNominating, c, d
  <2>5. /\ Sound(NominatingPoll(d), g) /\ Entered(d, NominatingPoll(d))
        /\ NominatingPoll(d).iceAgentState = "NOMINATING"
        /\ NominatingPoll(d).iceAgentStatus = d.iceAgentStatus
    BY <1>p, <2>3
  <2> QED BY <2>2, <2>3, <2>4, <2>5 DEF Entered
<1> QED BY <1>1, <1>2, <1>3

\* What was not selected is dropped: the pairs that stay are those of the
\* selected candidate.
LEMMA DropKeeps ==
  ASSUME NEW a, NEW g, a \in Agent, ListInv(a, g, FALSE), DataInv(a, g), a.data # NoPair,
         a.iceAgentState \notin {"NEW", "CHECK_CONNECTION"}
  PROVE  LET b == [DropUnselected(a) EXCEPT !.iceAgentState = "READY"] IN
         /\ Sound(b, g) /\ Entered(a, b) /\ b.iceAgentState = "READY"
         /\ b.iceAgentStatus = a.iceAgentStatus
<1> DEFINE others == a.localCandidates \ {LocalOf(a.data)}
           s == Stop(a, others)
           v == SetLocals(s, others, "INVALID")
           b == iceAgentInvalidateCandidatePair(v)
           dead == InState(b, {"FAILED"})
           f == FreePairs(b, dead)
           c == [f EXCEPT !.iceCandidatePairs = @ \ dead]
           e == [c EXCEPT !.iceAgentState = "READY"]
<1>0. others \subseteq Locals /\ a.localCandidates \subseteq Locals /\ a.iceCandidatePairs \subseteq Pairs
  BY DEF Agent
<1>1. /\ s \in Agent /\ SameMachine(a, s) /\ s.handles = a.handles /\ s.iceAgentStatus = a.iceAgentStatus
      /\ s.localCandidates = a.localCandidates /\ s.iceCandidatePairs = a.iceCandidatePairs
      /\ s.data = a.data /\ s.deferred = a.deferred /\ s.cand = a.cand
      /\ \A l \in Locals : l \notin others => s.turn[l] = a.turn[l]
      /\ \A l \in Locals : s.turn[l] \in Leaving => Kind(l) = "relay"
  <2>1. s = [a EXCEPT !.turn = [l \in Locals |->
                IF l \in others /\ Kind(l) = "relay" /\ a.turn[l] # "complete" THEN "stopping" ELSE a.turn[l]]]
    BY DEF Stop
  <2> HIDE DEF s, others
  <2>2. [l \in Locals |-> IF l \in others /\ Kind(l) = "relay" /\ a.turn[l] # "complete"
                          THEN "stopping" ELSE a.turn[l]]
          \in [Locals -> {"none", "allocating", "active", "failed", "stopping", "complete"}]
    BY DEF Agent
  <2>3. s \in Agent
    BY <2>1, <2>2, ZenonT(60) DEF Agent
  <2>4. \A l \in Locals : s.turn[l] \in Leaving => Kind(l) = "relay"
    BY <2>1, <2>3 DEF Agent, ListInv
  <2> QED BY <2>1, <2>3, <2>4, ZenonT(60) DEF Agent, SameMachine
<1> HIDE DEF s, others
<1>2. /\ v \in Agent /\ SameMachine(s, v) /\ SameLists(s, v) /\ v.handles = s.handles
      /\ v.iceAgentStatus = s.iceAgentStatus
      /\ \A l \in Locals : v.cand[l] = IF l \in others THEN "INVALID" ELSE s.cand[l]
  BY <1>1 DEF SetLocals, SameMachine, SameLists, Agent
<1> HIDE DEF v
<1>3. /\ b \in Agent /\ SameMachine(v, b) /\ SameLists(v, b) /\ b.handles = v.handles
      /\ b.iceAgentStatus = v.iceAgentStatus /\ b.cand = v.cand
      /\ \A p \in v.iceCandidatePairs : v.cand[LocalOf(p)] # "VALID" => b.pairState[p] = "FAILED"
  <2> DEFINE S == {p \in v.iceCandidatePairs : v.cand[LocalOf(p)] # "VALID"}
             h == [p \in Pairs |-> IF p \in S THEN "FAILED" ELSE v.pairState[p]]
  <2>1. b = [v EXCEPT !.pairState = h]
    BY DEF iceAgentInvalidateCandidatePair, SetPairs
  <2>2. h \in [Pairs -> PairStates] /\ S \subseteq Pairs /\ \A p \in S : h[p] = "FAILED"
    BY <1>2 DEF Agent, PairStates
  <2> HIDE DEF h, b
  <2>3. b \in Agent /\ b.pairState = h
    BY <1>2, <2>1, <2>2, ZenonT(60) DEF Agent, PairStates
  <2>4. /\ SameMachine(v, b) /\ SameLists(v, b) /\ b.handles = v.handles
        /\ b.iceAgentStatus = v.iceAgentStatus /\ b.cand = v.cand
    BY <1>2, SetPairsFields DEF b, iceAgentInvalidateCandidatePair, PairStates
  <2> HIDE DEF S
  <2>5. \A p \in S : b.pairState[p] = "FAILED"
    BY <2>2, <2>3
  <2> QED BY <2>3, <2>4, <2>5 DEF S
<1> HIDE DEF b
<1>4. /\ f \in Agent /\ SameMachine(b, f) /\ SameLists(b, f) /\ f.handles = b.handles
      /\ f.iceAgentStatus = b.iceAgentStatus /\ f.cand = b.cand
  <2> DEFINE k == SetPairs(b, dead, "FREED")
             n == [p \in Pairs |-> p \notin dead /\ k.nominated[p]]
             x == [p \in Pairs |-> p \notin dead /\ k.transactionIds[p]]
  <2>1. /\ k \in Agent /\ SameMachine(b, k) /\ SameLists(b, k) /\ k.handles = b.handles
        /\ k.iceAgentStatus = b.iceAgentStatus /\ k.cand = b.cand
    BY <1>3, SetPairsFields DEF PairStates
  <2>2. n \in [Pairs -> BOOLEAN] /\ x \in [Pairs -> BOOLEAN]
    BY Zenon
  <2>3. f = [k EXCEPT !.nominated = n, !.transactionIds = x]
    BY DEF FreePairs
  <2> HIDE DEF k, n, x, f
  <2>4. f \in Agent
    BY <2>1, <2>2, <2>3, ZenonT(60) DEF Agent
  <2> QED BY <2>1, <2>3, <2>4 DEF Agent, SameMachine, SameLists
<1> HIDE DEF f
<1>5. /\ c \in Agent /\ SameMachine(f, c) /\ c.handles = f.handles /\ c.iceAgentStatus = f.iceAgentStatus
      /\ c.cand = f.cand /\ c.turn = f.turn /\ c.localCandidates = f.localCandidates /\ c.data = f.data
      /\ c.deferred = f.deferred /\ c.iceCandidatePairs = f.iceCandidatePairs \ dead
  BY <1>4, ZenonT(60) DEF Agent, SameMachine
<1> HIDE DEF c
<1>6. /\ e \in Agent /\ e.iceAgentState = "READY" /\ e.sm = c.sm /\ e.rejected = c.rejected
      /\ e.notified = c.notified /\ e.detectedDisconnection = c.detectedDisconnection
      /\ e.handles = c.handles /\ e.iceAgentStatus = c.iceAgentStatus /\ SameLists(c, e)
      /\ e.cand = c.cand
  BY <1>5, TellState DEF States
<1>7. e = [DropUnselected(a) EXCEPT !.iceAgentState = "READY"]
  BY DEF DropUnselected, e, c, f, b, v, s, others
<1> HIDE DEF e
<1>8. /\ e.localCandidates = a.localCandidates /\ e.data = a.data /\ e.deferred = a.deferred
      /\ e.iceCandidatePairs = a.iceCandidatePairs \ dead
      /\ e.turn = s.turn /\ e.cand = v.cand
  BY <1>1, <1>2, <1>3, <1>4, <1>5, <1>6 DEF SameLists
<1>9. \A p \in e.iceCandidatePairs : LocalOf(p) \in a.localCandidates /\ LocalOf(p) \notin others
  <2>1. TAKE p \in e.iceCandidatePairs
  <2>2. p \in a.iceCandidatePairs /\ LocalOf(p) \in a.localCandidates
    BY <1>8 DEF ListInv
  <2>3. b.pairState[p] # "FAILED" /\ p \in v.iceCandidatePairs
    BY <1>1, <1>2, <1>3, <1>8, <2>2 DEF InState, SameLists
  <2>4. v.cand[LocalOf(p)] = "VALID"
    BY <1>3, <2>3
  <2> QED BY <1>0, <1>2, <2>2, <2>4
<1>10. ListInv(e, g, FALSE)
  <2>1. \A l \in e.localCandidates : Gen(l) = g /\ e.cand[l] # "FREED"
    BY <1>0, <1>1, <1>2, <1>8 DEF ListInv
  <2>2. \A l \in e.localCandidates : e.turn[l] \in Leaving => e.cand[l] = "INVALID"
    BY <1>0, <1>1, <1>2, <1>8 DEF ListInv
  <2>3. \A p \in e.iceCandidatePairs : e.turn[LocalOf(p)] \notin Leaving
    BY <1>0, <1>1, <1>8, <1>9 DEF ListInv
  <2> QED BY <1>1, <1>8, <1>9, <2>1, <2>2, <2>3 DEF ListInv
<1>11. QueueInv(e) /\ DataInv(e, g)
  BY <1>6, <1>8 DEF QueueInv, DataInv, Checking
<1>a. Entered(a, e) /\ e.iceAgentStatus = a.iceAgentStatus
  BY <1>1, <1>2, <1>3, <1>4, <1>5, <1>6 DEF Entered, SameMachine
<1>12. Sound(e, g) /\ Entered(a, e) /\ e.iceAgentState = "READY" /\ e.iceAgentStatus = a.iceAgentStatus
  BY <1>6, <1>10, <1>11, <1>a DEF Sound
<1> QED BY <1>7, <1>12

\* No pair has a candidate whose TURN connection is complete.
LEMMA FreeTurnKeeps ==
  ASSUME NEW a, NEW g, Sound(a, g), a.iceAgentState = "READY"
  PROVE  LET b == FreeTurnConnections(a) IN
         /\ Sound(b, g) /\ Entered(a, b) /\ b.iceAgentState = "READY"
         /\ b.iceAgentStatus = a.iceAgentStatus
<1> DEFINE done == {l \in a.localCandidates : Kind(l) = "relay" /\ a.turn[l] = "complete"}
           v == SetLocals(a, done, "FREED")
           n == [l \in Locals |-> IF l \in done THEN "none" ELSE v.turn[l]]
           f == [v EXCEPT !.turn = n]
           b == [f EXCEPT !.localCandidates = @ \ done]
<1>0. /\ a \in Agent /\ ListInv(a, g, FALSE) /\ DataInv(a, g) /\ done \subseteq Locals
      /\ a.localCandidates \subseteq Locals
  BY DEF Sound, Agent
<1>1. /\ v \in Agent /\ SameMachine(a, v) /\ SameLists(a, v) /\ v.handles = a.handles
      /\ v.iceAgentStatus = a.iceAgentStatus
      /\ \A l \in Locals : l \notin done => v.cand[l] = a.cand[l]
  BY <1>0 DEF SetLocals, SameMachine, SameLists, Agent
<1> HIDE DEF v
<1>2. n \in [Locals -> {"none", "allocating", "active", "failed", "stopping", "complete"}]
  BY <1>1 DEF Agent
<1>a. \A l \in Locals : n[l] = IF l \in done THEN "none" ELSE a.turn[l]
  BY <1>1 DEF SameLists
<1> HIDE DEF n
<1>3. f \in Agent /\ f.turn = n
  BY <1>1, <1>2 DEF Agent
<1>4. /\ SameMachine(v, f) /\ f.handles = v.handles /\ f.iceAgentStatus = v.iceAgentStatus
      /\ f.localCandidates = v.localCandidates /\ f.iceCandidatePairs = v.iceCandidatePairs
      /\ f.data = v.data /\ f.deferred = v.deferred /\ f.cand = v.cand
  BY <1>1 DEF SameMachine, Agent
<1> HIDE DEF f
<1>5. /\ b \in Agent /\ SameMachine(f, b) /\ b.handles = f.handles /\ b.iceAgentStatus = f.iceAgentStatus
      /\ b.localCandidates = f.localCandidates \ done /\ b.iceCandidatePairs = f.iceCandidatePairs
      /\ b.data = f.data /\ b.deferred = f.deferred /\ b.cand = f.cand /\ b.turn = f.turn
  BY <1>3 DEF SameMachine, Agent
<1>6. b = FreeTurnConnections(a)
  BY DEF FreeTurnConnections, FreeLocals, b, f, n, v
<1> HIDE DEF b
<1>7. /\ b.localCandidates = a.localCandidates \ done /\ b.iceCandidatePairs = a.iceCandidatePairs
      /\ b.data = a.data /\ b.deferred = a.deferred
      /\ \A l \in Locals \ done : b.cand[l] = a.cand[l] /\ b.turn[l] = a.turn[l]
      /\ \A l \in done : b.turn[l] = "none"
  <2>1. /\ b.localCandidates = a.localCandidates \ done /\ b.iceCandidatePairs = a.iceCandidatePairs
        /\ b.data = a.data /\ b.deferred = a.deferred /\ b.turn = n /\ b.cand = v.cand
    BY <1>1, <1>3, <1>4, <1>5 DEF SameLists
  <2> HIDE DEF done
  <2> QED BY <1>0, <1>1, <1>a, <2>1
<1>8. \A p \in b.iceCandidatePairs : LocalOf(p) \in a.localCandidates /\ LocalOf(p) \notin done
  BY <1>0, <1>7 DEF ListInv, Leaving
<1>b. done \subseteq Locals
  BY <1>0
<1> HIDE DEF done
<1>9. ListInv(b, g, FALSE)
  BY <1>0, <1>7, <1>8 DEF ListInv, Leaving
<1>10. Entered(a, b) /\ b.iceAgentState = "READY" /\ b.iceAgentStatus = a.iceAgentStatus
  BY <1>1, <1>4, <1>5 DEF Entered, SameMachine
<1>11. QueueInv(b) /\ DataInv(b, g)
  BY <1>0, <1>7, <1>10 DEF QueueInv, DataInv, Checking
<1> QED BY <1>5, <1>6, <1>9, <1>10, <1>11 DEF Sound

LEMMA ReadySetupKeeps ==
  ASSUME NEW a, NEW g, Sound(a, g), a.iceAgentState \in {"CONNECTED", "NOMINATING"}, g \in Nat
  PROVE  LET b == iceAgentReadyStateSetup(a) IN
         /\ Sound(b, g) /\ Entered(a, b)
         /\ \/ b.iceAgentState = "READY" /\ b.iceAgentStatus = a.iceAgentStatus
            \/ b.iceAgentState = a.iceAgentState /\ b.iceAgentStatus = "ERR"
<1>0. a \in Agent /\ ListInv(a, g, FALSE) /\ DataInv(a, g)
  BY DEF Sound
<1>1. CASE "state" \notin a.handles \/ (a.data = NoPair /\ Usable(a) = {})
  BY <1>1, FatalKeeps DEF iceAgentReadyStateSetup
<1>2. CASE ~("state" \notin a.handles \/ (a.data = NoPair /\ Usable(a) = {}))
  <2> DEFINE b == IF a.data # NoPair THEN a
                  ELSE [a EXCEPT !.data = First(Usable(a)), !.stopGathering = TRUE]
             e == [DropUnselected(b) EXCEPT !.iceAgentState = "READY"]
  <2>1. iceAgentReadyStateSetup(a) = e
    BY <1>2 DEF iceAgentReadyStateSetup
  <2>2. /\ b \in Agent /\ ListInv(b, g, FALSE) /\ DataInv(b, g) /\ b.data # NoPair
        /\ Entered(a, b) /\ b.iceAgentState = a.iceAgentState /\ b.iceAgentStatus = a.iceAgentStatus
    <3>1. CASE a.data # NoPair
      BY <1>0, <3>1 DEF Entered
    <3>2. CASE a.data = NoPair
      <4> DEFINE p == First(Usable(a))
                 k == [a EXCEPT !.data = p, !.stopGathering = TRUE]
      <4>1. Usable(a) \subseteq a.iceCandidatePairs /\ a.iceCandidatePairs \subseteq Pairs
        BY <1>0 DEF Usable, InState, Agent
      <4>2. p \in a.iceCandidatePairs /\ p \in Pairs
        BY <1>2, <3>2, <4>1, FirstIn
      <4> HIDE DEF p
      <4>3. GenOf(p) = g /\ p # NoPair
        BY <1>0, <4>2 DEF ListInv, GenOf, Pairs, NoPair
      <4>4. k \in Agent
        BY <1>0, <4>2 DEF Agent
      <4>5. /\ SameMachine(a, k) /\ k.handles = a.handles /\ k.iceAgentStatus = a.iceAgentStatus
            /\ k.localCandidates = a.localCandidates /\ k.iceCandidatePairs = a.iceCandidatePairs
            /\ k.data = p /\ k.deferred = a.deferred /\ k.cand = a.cand /\ k.turn = a.turn
        BY <1>0 DEF SameMachine, Agent
      <4>6. b = k
        BY <3>2 DEF p
      <4> HIDE DEF k, b
      <4>7. ListInv(k, g, FALSE) /\ DataInv(k, g)
        BY <1>0, <4>3, <4>5 DEF ListInv, DataInv, SameMachine
      <4> QED BY <4>3, <4>4, <4>5, <4>6, <4>7 DEF Entered, SameMachine
    <3> QED BY <3>1, <3>2
  <2> HIDE DEF b
  <2>3. Sound(e, g) /\ Entered(b, e) /\ e.iceAgentState = "READY" /\ e.iceAgentStatus = b.iceAgentStatus
    BY <2>2, DropKeeps
  <2> HIDE DEF e
  <2> QED BY <2>1, <2>2, <2>3 DEF Entered
<1> QED BY <1>1, <1>2

LEMMA ReadyKeeps ==
  ASSUME NEW a, NEW g, Sound(a, g), a.iceAgentState \in {"CONNECTED", "NOMINATING", "READY"}, g \in Nat
  PROVE  LET b == ExecuteReady(a) IN
         /\ Sound(b, g) /\ Entered(a, b)
         /\ \/ b.iceAgentState = "READY" /\ b.iceAgentStatus = a.iceAgentStatus
            \/ b.iceAgentState = a.iceAgentState /\ b.iceAgentStatus = "ERR"
<1> DEFINE b == IF a.iceAgentState = "READY" THEN a ELSE iceAgentReadyStateSetup(a)
           e == FreeTurnConnections(b)
<1>1. /\ Sound(b, g) /\ Entered(a, b)
      /\ \/ b.iceAgentState = "READY" /\ b.iceAgentStatus = a.iceAgentStatus
         \/ b.iceAgentState = a.iceAgentState /\ b.iceAgentStatus = "ERR"
  <2>1. CASE a.iceAgentState = "READY"
    BY <2>1 DEF Entered
  <2>2. CASE a.iceAgentState # "READY"
    BY <2>2, ReadySetupKeeps
  <2> QED BY <2>1, <2>2
<1> HIDE DEF b
<1>2. ExecuteReady(a) = IF b.iceAgentState = "READY" THEN e ELSE b
  BY DEF ExecuteReady, b
<1>3. CASE b.iceAgentState = "READY"
  <2>1. Sound(e, g) /\ Entered(b, e) /\ e.iceAgentState = "READY" /\ e.iceAgentStatus = b.iceAgentStatus
    BY <1>1, <1>3, FreeTurnKeeps
  <2> HIDE DEF e
  <2> QED BY <1>1, <1>2, <1>3, <2>1 DEF Entered
<1>4. CASE b.iceAgentState # "READY"
  BY <1>1, <1>2, <1>4
<1> QED BY <1>3, <1>4

LEMMA FailedKeeps ==
  ASSUME NEW a, NEW g, Sound(a, g)
  PROVE  LET b == ExecuteFailed(a) IN
         /\ Sound(b, g) /\ Entered(a, b) /\ b.iceAgentState = "FAILED"
         /\ b.iceAgentStatus = a.iceAgentStatus
<1>1. "FAILED" \in States \ {"DISCONNECTED"} /\ "FAILED" \notin Checking
  BY DEF States, Checking
<1> QED BY <1>1, TellSound DEF ExecuteFailed

-----------------------------------------------------------------------------
(* The state machine                                                       *)

\* b is a in the state s of the machine, which may have failed.
Went(a, s, b) ==
  /\ b.sm = s /\ b.rejected = a.rejected /\ b.notified = a.notified
  /\ b.detectedDisconnection = a.detectedDisconnection
  /\ b.handles \subseteq a.handles \cup {"keepAlive"}
  /\ \/ b.iceAgentState = s /\ b.iceAgentStatus = a.iceAgentStatus
     \/ s \in {"NOMINATING", "READY"} /\ b.iceAgentState = a.iceAgentState /\ b.iceAgentStatus = "ERR"

\* A state is entered only from where its code may run.
MayEnter(a, s) ==
  /\ s \in States \ {"NEW", "DISCONNECTED"} /\ a.sm \in AcceptStates[s]
  /\ s = "CHECK_CONNECTION" => a.iceAgentState \in {"NEW", "CHECK_CONNECTION"}
  /\ s = "CONNECTED" => a.iceAgentState = "CHECK_CONNECTION"
  /\ s = "NOMINATING" => a.iceAgentState \in {"CONNECTED", "NOMINATING"}
  /\ s = "READY" => a.iceAgentState \in {"CONNECTED", "NOMINATING", "READY"}

LEMMA EnterKeeps ==
  ASSUME NEW a, NEW g \in Nat, Sound(a, g), NEW s, MayEnter(a, s)
  PROVE  Sound(EnterOther(<<s, a>>), g) /\ Went(a, s, EnterOther(<<s, a>>))
<1> DEFINE c == [a EXCEPT !.sm = s]
<1>0. a \in Agent /\ s \in States
  BY DEF Sound, MayEnter
<1>1. c \in Agent /\ c.sm = s
  BY <1>0 DEF Agent
<1>2. /\ c.iceAgentState = a.iceAgentState /\ c.rejected = a.rejected /\ c.notified = a.notified
      /\ c.detectedDisconnection = a.detectedDisconnection /\ c.handles = a.handles
      /\ c.iceAgentStatus = a.iceAgentStatus /\ SameLists(a, c) /\ c.cand = a.cand
      /\ c.triggeredCheckQueue = a.triggeredCheckQueue
  BY <1>0 DEF Agent, SameLists
<1>3. EnterOther(<<s, a>>) = ExecuteOther(s, c)
  BY DEF EnterOther, MayEnter
<1> HIDE DEF c
<1>4. Sound(c, g)
  BY <1>1, <1>2 DEF Sound, ListInv, QueueInv, DataInv, SameLists
<1>5. \/ s = "CHECK_CONNECTION" /\ ExecuteOther(s, c) = ExecuteCheckConnection(c)
      \/ s = "CONNECTED" /\ ExecuteOther(s, c) = ExecuteConnected(c)
      \/ s = "NOMINATING" /\ ExecuteOther(s, c) = ExecuteNominating(c)
      \/ s = "READY" /\ ExecuteOther(s, c) = ExecuteReady(c)
      \/ s = "FAILED" /\ ExecuteOther(s, c) = ExecuteFailed(c)
  BY DEF MayEnter, States, ExecuteOther
<1> DEFINE e == ExecuteOther(s, c)
<1>6. /\ Sound(e, g) /\ Entered(c, e)
      /\ \/ e.iceAgentState = s /\ e.iceAgentStatus = c.iceAgentStatus
         \/ s \in {"NOMINATING", "READY"} /\ e.iceAgentState = c.iceAgentState /\ e.iceAgentStatus = "ERR"
  <2>1. CASE s = "CHECK_CONNECTION" /\ e = ExecuteCheckConnection(c)
    BY <1>2, <1>4, <2>1, CheckConnectionKeeps DEF MayEnter
  <2>2. CASE s = "CONNECTED" /\ e = ExecuteConnected(c)
    BY <1>2, <1>4, <2>2, ConnectedKeeps DEF MayEnter
  <2>3. CASE s = "NOMINATING" /\ e = ExecuteNominating(c)
    BY <1>2, <1>4, <2>3, NominatingKeeps DEF MayEnter
  <2>4. CASE s = "READY" /\ e = ExecuteReady(c)
    BY <1>2, <1>4, <2>4, ReadyKeeps DEF MayEnter
  <2>5. CASE s = "FAILED" /\ e = ExecuteFailed(c)
    BY <1>2, <1>4, <2>5, FailedKeeps DEF MayEnter
  <2> QED BY <1>5, <2>1, <2>2, <2>3, <2>4, <2>5
<1> HIDE DEF e
<1>7. Went(a, s, e)
  BY <1>1, <1>2, <1>6 DEF Entered, Went
<1> QED BY <1>3, <1>6, <1>7 DEF e

\* An agent with an error fails.
LEMMA FailingKeeps ==
  ASSUME NEW a, NEW g \in Nat, Sound(a, g), a.sm \in Checking \cup {"READY", "FAILED"}
  PROVE  LET b == EnterOther(Failing(a)) IN
         /\ Sound(b, g) /\ b.sm = "FAILED" /\ b.iceAgentState = "FAILED" /\ b.rejected = a.rejected
         /\ b.notified = a.notified /\ b.handles \subseteq a.handles \cup {"keepAlive"}
<1> DEFINE f == iceAgentFatalError(a)
<1>1. /\ Sound(f, g) /\ f.sm = a.sm /\ f.rejected = a.rejected /\ f.handles \subseteq a.handles \cup {"keepAlive"}
      /\ f.notified = a.notified
  BY FatalKeeps DEF Entered
<1>2. Failing(a) = <<"FAILED", f>>
  BY DEF Failing
<1> HIDE DEF f
<1>3. MayEnter(f, "FAILED")
  BY <1>1 DEF MayEnter, AcceptStates, States, Checking
<1>4. Sound(EnterOther(<<"FAILED", f>>), g) /\ Went(f, "FAILED", EnterOther(<<"FAILED", f>>))
  BY <1>1, <1>3, EnterKeeps
<1> QED BY <1>1, <1>2, <1>4 DEF Went

LEMMA FailStep ==
  ASSUME NEW a, NEW g \in Nat, NEW late, Sound(a, g), a.sm \in Checking \cup {"READY"},
         a.iceAgentStatus = "ERR"
  PROVE  LET b == Step(a, late) IN
         /\ Sound(b, g) /\ b.sm = "FAILED" /\ b.iceAgentState = "FAILED" /\ b.rejected = a.rejected
         /\ b.handles \subseteq a.handles \cup {"keepAlive"}
<1>1. From(a, late) = Failing(a)
  BY DEF From, FromCheckConnection, FromConnected, FromNominating, FromReady, Checking
<1>2. Failing(a)[1] = "FAILED"
  BY DEF Failing
<1>3. Step(a, late) = EnterOther(Failing(a))
  BY <1>1, <1>2 DEF Step
<1> QED BY <1>3, FailingKeeps

\* One step of the machine: the state and what was told agree, or the agent has
\* an error that the next step makes a failure.
Stepped(a, b, g) ==
  /\ Sound(b, g) /\ ~b.rejected /\ b.handles \subseteq a.handles \cup {"keepAlive"}
  /\ b.sm \in Checking \cup {"READY", "FAILED"}
  /\ b.sm = "FAILED" => b.iceAgentState = "FAILED"
  /\ b.iceAgentStatus # "ERR" \/ b.iceAgentState = "FAILED" =>
       /\ b.sm = b.iceAgentState
       /\ b.iceAgentState = a.iceAgentState => MachineInv(b)
       /\ b.iceAgentState # a.iceAgentState /\ b.detectedDisconnection => b.iceAgentState = "FAILED"

LEMMA SteppedByEntering ==
  ASSUME NEW a, NEW g \in Nat, Sound(a, g), MachineInv(a), NEW s, MayEnter(a, s),
         s = "READY" /\ a.iceAgentState # "READY" => ~a.detectedDisconnection
  PROVE  Stepped(a, EnterOther(<<s, a>>), g)
<1> DEFINE b == EnterOther(<<s, a>>)
<1>1. Sound(b, g) /\ Went(a, s, b)
  BY EnterKeeps
<1> HIDE DEF b
<1>2. b.sm = s /\ s \in Checking \cup {"READY", "FAILED"}
  BY <1>1 DEF Went, MayEnter, States, Checking
<1>3. ~b.rejected /\ b.handles \subseteq a.handles \cup {"keepAlive"}
  BY <1>1 DEF Went, MachineInv
<1>4. s = "FAILED" => b.iceAgentState = "FAILED"
  BY <1>1 DEF Went
<1>5. ASSUME b.iceAgentStatus # "ERR" \/ b.iceAgentState = "FAILED"
      PROVE  b.sm = b.iceAgentState
  <2>1. a.iceAgentState = "FAILED" => s = "FAILED"
    BY DEF MayEnter, MachineInv, AcceptStates, States, Checking
  <2> QED BY <1>1, <1>2, <1>5, <2>1 DEF Went
<1>6. ASSUME b.sm = b.iceAgentState, b.iceAgentState = a.iceAgentState
      PROVE  MachineInv(b)
  BY <1>1, <1>3, <1>6 DEF Went, MachineInv
<1>7. ASSUME b.sm = b.iceAgentState, b.iceAgentState # a.iceAgentState, b.detectedDisconnection
      PROVE  b.iceAgentState = "FAILED"
  <2>1. a.detectedDisconnection
    BY <1>1, <1>7 DEF Went
  <2>2. a.iceAgentState \in {"READY", "FAILED"} /\ a.sm = a.iceAgentState
    BY <2>1 DEF MachineInv
  <2>3. s \in {"READY", "FAILED"}
    BY <2>2 DEF MayEnter, AcceptStates, States, Checking
  <2> QED BY <1>2, <1>7, <2>1, <2>3
<1>8. Stepped(a, b, g)
  BY <1>1, <1>2, <1>3, <1>4, <1>5, <1>6, <1>7 DEF Stepped
<1> QED BY <1>8 DEF b

\* The flags of the loss of the connection are no part of the lists.
LEMMA FlagsSound ==
  ASSUME NEW a, NEW g, Sound(a, g), NEW b \in Agent, SameLists(a, b), b.cand = a.cand,
         b.triggeredCheckQueue = a.triggeredCheckQueue, b.iceAgentState = a.iceAgentState
  PROVE  Sound(b, g)
BY DEF Sound, ListInv, QueueInv, DataInv, SameLists

\* A step from READY: the connection is lost, recovered, given up or stays.
LEMMA ReadyStep ==
  ASSUME NEW a, NEW g \in Nat, NEW late \in BOOLEAN, Sound(a, g), MachineInv(a), a.sm = "READY"
  PROVE  Stepped(a, Step(a, late), g)
<1> DEFINE lost == [a EXCEPT !.lastData = "stale"]
           back == [a EXCEPT !.detectedDisconnection = FALSE, !.notified = a.iceAgentState]
<1>0. a \in Agent /\ a.iceAgentState = "READY"
  BY DEF Sound, MachineInv
<1>1. \/ From(a, late) = Failing(a)
      \/ From(a, late) = <<"DISCONNECTED", lost>> /\ a.iceAgentStatus # "ERR"
      \/ From(a, late) = <<"READY", back>> /\ a.detectedDisconnection
      \/ From(a, late) = <<"READY", a>>
  BY DEF From, FromReady, iceAgentStateMachineCheckDisconnection
<1>2. CASE From(a, late) = Failing(a)
  <2> DEFINE b == EnterOther(Failing(a))
  <2>1. Failing(a)[1] = "FAILED"
    BY DEF Failing
  <2>2. Step(a, late) = b
    BY <1>2, <2>1 DEF Step
  <2>3. /\ Sound(b, g) /\ b.sm = "FAILED" /\ b.iceAgentState = "FAILED" /\ b.rejected = a.rejected
        /\ b.handles \subseteq a.handles \cup {"keepAlive"}
    BY FailingKeeps
  <2> HIDE DEF b
  <2> QED BY <1>0, <2>2, <2>3 DEF Stepped, MachineInv
<1>3. CASE From(a, late) = <<"READY", a>>
  <2>1. Step(a, late) = EnterOther(<<"READY", a>>)
    BY <1>3 DEF Step
  <2>2. MayEnter(a, "READY")
    BY <1>0 DEF MayEnter, States, AcceptStates
  <2> QED BY <1>0, <2>1, <2>2, SteppedByEntering
<1>4. CASE From(a, late) = <<"READY", back>> /\ a.detectedDisconnection
  <2>1. Step(a, late) = EnterOther(<<"READY", back>>)
    BY <1>4 DEF Step
  <2>2. back \in Agent
    BY <1>0 DEF Agent, States
  <2>3. /\ SameLists(a, back) /\ back.cand = a.cand /\ back.triggeredCheckQueue = a.triggeredCheckQueue
        /\ back.iceAgentState = "READY" /\ back.sm = "READY" /\ back.rejected = a.rejected
        /\ back.detectedDisconnection = FALSE /\ back.notified = "READY" /\ back.handles = a.handles
    BY <1>0 DEF Agent, SameLists
  <2> HIDE DEF back
  <2>4. Sound(back, g)
    BY <1>0, <2>2, <2>3, FlagsSound
  <2>5. MachineInv(back) /\ MayEnter(back, "READY")
    BY <2>3 DEF MachineInv, MayEnter, States, AcceptStates
  <2>6. Stepped(back, EnterOther(<<"READY", back>>), g)
    BY <2>3, <2>4, <2>5, SteppedByEntering
  <2> QED BY <1>0, <2>1, <2>3, <2>6 DEF Stepped
<1>5. CASE From(a, late) = <<"DISCONNECTED", lost>> /\ a.iceAgentStatus # "ERR"
  <2> DEFINE c == [lost EXCEPT !.sm = "DISCONNECTED"]
             d == [c EXCEPT !.detectedDisconnection = TRUE, !.notified = "DISCONNECTED"]
             b == EnterOther(<<"READY", d>>)
  <2>1. lost \in Agent
    BY <1>0 DEF Agent
  <2>2. c \in Agent
    <3> HIDE DEF lost
    <3> QED BY <2>1, ZenonT(60) DEF Agent, States
  <2>3. d \in Agent
    <3> HIDE DEF c
    <3> QED BY <2>2, ZenonT(60) DEF Agent, States
  <2>4. /\ SameLists(a, d) /\ d.cand = a.cand /\ d.triggeredCheckQueue = a.triggeredCheckQueue
        /\ d.iceAgentState = "READY" /\ d.sm = "DISCONNECTED" /\ d.rejected = a.rejected
        /\ d.detectedDisconnection = TRUE /\ d.notified = "DISCONNECTED" /\ d.handles = a.handles
        /\ d.iceAgentStatus = a.iceAgentStatus
    BY <1>0 DEF Agent, SameLists
  <2>5. Step(a, late) = ExecuteDisconnected(c)
    <3>1. a.sm \in AcceptStates["DISCONNECTED"]
      BY DEF AcceptStates
    <3> HIDE DEF lost
    <3>2. From(a, late)[1] = "DISCONNECTED" /\ From(a, late)[2] = lost
      BY <1>5
    <3> QED BY <3>1, <3>2 DEF Step
  <2>6. ExecuteDisconnected(c) = EnterOther(FromDisconnected(d))
    BY DEF ExecuteDisconnected
  <2> HIDE DEF d, c
  <2>7. FromDisconnected(d) = <<"READY", d>>
    BY <1>5, <2>4 DEF FromDisconnected
  <2>8. Sound(d, g)
    BY <1>0, <2>3, <2>4, FlagsSound
  <2>9. MayEnter(d, "READY")
    BY <2>4 DEF MayEnter, States, AcceptStates
  <2>10. Sound(b, g) /\ Went(d, "READY", b)
    BY <2>8, <2>9, EnterKeeps
  <2>11. Step(a, late) = b
    BY <2>5, <2>6, <2>7
  <2> HIDE DEF b
  <2>12. /\ b.sm = "READY" /\ b.iceAgentState = "READY" /\ ~b.rejected /\ b.notified = "DISCONNECTED"
         /\ b.detectedDisconnection /\ b.handles \subseteq a.handles \cup {"keepAlive"}
    BY <2>4, <2>10 DEF Went, MachineInv
  <2> QED BY <1>0, <2>10, <2>11, <2>12 DEF Stepped, MachineInv
<1> QED BY <1>1, <1>2, <1>3, <1>4, <1>5

LEMMA StepKeeps ==
  ASSUME NEW a, NEW g \in Nat, NEW late \in BOOLEAN, Sound(a, g), MachineInv(a)
  PROVE  Stepped(a, Step(a, late), g)
<1>0. a \in Agent /\ a.sm = a.iceAgentState
  BY DEF Sound, MachineInv
<1>1. CASE a.sm = "READY"
  BY <1>1, ReadyStep
<1>2. CASE a.sm # "READY"
  <2>1. \/ From(a, late) = Failing(a) /\ a.sm \in Checking
        \/ From(a, late) = <<"CHECK_CONNECTION", a>> /\ a.sm \in {"NEW", "CHECK_CONNECTION"}
        \/ From(a, late) = <<"CONNECTED", a>> /\ a.sm = "CHECK_CONNECTION"
        \/ From(a, late) = <<"NOMINATING", a>> /\ a.sm \in {"CONNECTED", "NOMINATING"}
        \/ From(a, late) = <<"READY", a>> /\ a.sm = "NOMINATING"
        \/ From(a, late) = <<"FAILED", a>> /\ a.sm = "FAILED"
    <3>1. a.sm \in {"NEW", "CHECK_CONNECTION", "CONNECTED", "NOMINATING", "FAILED"}
      BY <1>0, <1>2 DEF Agent, States
    <3> QED BY <3>1 DEF From, FromNew, FromCheckConnection, FromConnected, FromNominating, FromFailed, Checking
  <2>2. CASE From(a, late) = Failing(a) /\ a.sm \in Checking
    <3> DEFINE b == EnterOther(Failing(a))
    <3>1. Failing(a)[1] = "FAILED"
      BY DEF Failing
    <3>2. Step(a, late) = b
      BY <2>2, <3>1 DEF Step
    <3>3. /\ Sound(b, g) /\ b.sm = "FAILED" /\ b.iceAgentState = "FAILED" /\ b.rejected = a.rejected
          /\ b.handles \subseteq a.handles \cup {"keepAlive"}
      BY <2>2, FailingKeeps
    <3> HIDE DEF b
    <3> QED BY <1>0, <2>2, <3>2, <3>3 DEF Stepped, MachineInv, Checking
  <2>3. ASSUME NEW s, From(a, late) = <<s, a>>, MayEnter(a, s), s # "DISCONNECTED"
        PROVE  Stepped(a, Step(a, late), g)
    <3>1. Step(a, late) = EnterOther(<<s, a>>)
      BY <2>3 DEF Step
    <3>2. s = "READY" /\ a.iceAgentState # "READY" => ~a.detectedDisconnection
      BY <2>3 DEF MayEnter, MachineInv
    <3> QED BY <2>3, <3>1, <3>2, SteppedByEntering
  <2>4. /\ a.sm \in {"NEW", "CHECK_CONNECTION"} => MayEnter(a, "CHECK_CONNECTION")
        /\ a.sm = "CHECK_CONNECTION" => MayEnter(a, "CONNECTED")
        /\ a.sm \in {"CONNECTED", "NOMINATING"} => MayEnter(a, "NOMINATING")
        /\ a.sm = "NOMINATING" => MayEnter(a, "READY")
        /\ a.sm = "FAILED" => MayEnter(a, "FAILED")
    BY <1>0 DEF MayEnter, States, AcceptStates
  <2> QED BY <2>1, <2>2, <2>3, <2>4
<1> QED BY <1>1, <1>2

\* One turn of stepIceAgentStateMachine.
LEMMA TurnKeeps ==
  ASSUME NEW a, NEW g \in Nat, NEW late \in BOOLEAN, Sound(a, g), MachineInv(a)
  PROVE  LET s == Step(a, late)
             b == IF ~s.rejected /\ s.iceAgentStatus = "ERR" /\ s.iceAgentState # "FAILED"
                  THEN Step(s, late) ELSE s
             changed == b.iceAgentState # a.iceAgentState
             c == [b EXCEPT !.notified = IF changed /\ ~b.rejected THEN b.iceAgentState ELSE @]
         IN  Sound(c, g) /\ MachineInv(c) /\ c.handles \subseteq a.handles \cup {"keepAlive"}
<1> DEFINE s == Step(a, late)
           b == IF ~s.rejected /\ s.iceAgentStatus = "ERR" /\ s.iceAgentState # "FAILED"
                THEN Step(s, late) ELSE s
           changed == b.iceAgentState # a.iceAgentState
           n == IF changed /\ ~b.rejected THEN b.iceAgentState ELSE b.notified
           c == [b EXCEPT !.notified = n]
<1>1. Stepped(a, s, g)
  BY StepKeeps
<1> HIDE DEF s
<1>2. /\ Sound(b, g) /\ ~b.rejected /\ b.handles \subseteq a.handles \cup {"keepAlive"}
      /\ b.sm = b.iceAgentState
      /\ b.iceAgentState = a.iceAgentState => MachineInv(b) \/ b.iceAgentState = "FAILED"
      /\ b.iceAgentState # a.iceAgentState /\ b.detectedDisconnection => b.iceAgentState = "FAILED"
  <2>1. CASE ~s.rejected /\ s.iceAgentStatus = "ERR" /\ s.iceAgentState # "FAILED"
    <3> DEFINE f == Step(s, late)
    <3>0. b = f
      BY <2>1
    <3>1. s.sm \in Checking \cup {"READY"} /\ Sound(s, g)
      BY <1>1, <2>1 DEF Stepped
    <3>2. /\ Sound(f, g) /\ f.sm = "FAILED" /\ f.iceAgentState = "FAILED" /\ f.rejected = s.rejected
          /\ f.handles \subseteq s.handles \cup {"keepAlive"}
      BY <2>1, <3>1, FailStep
    <3> HIDE DEF f, b
    <3> QED BY <1>1, <2>1, <3>0, <3>2 DEF Stepped
  <2>2. CASE ~(~s.rejected /\ s.iceAgentStatus = "ERR" /\ s.iceAgentState # "FAILED")
    <3>1. b = s
      BY <2>2
    <3> HIDE DEF b
    <3> QED BY <1>1, <2>2, <3>1 DEF Stepped
  <2> QED BY <2>1, <2>2
<1>a. b.iceAgentState = a.iceAgentState => MachineInv(b)
  <2>1. SUFFICES ASSUME b.iceAgentState = "FAILED", a.iceAgentState = "FAILED" PROVE MachineInv(b)
    BY <1>2
  <2>2. a.sm = "FAILED" /\ a.notified = "FAILED" /\ From(a, late) = <<"FAILED", a>>
    BY <2>1 DEF MachineInv, From, FromFailed
  <2>3. MayEnter(a, "FAILED") /\ s = EnterOther(<<"FAILED", a>>)
    BY <2>2 DEF MayEnter, AcceptStates, States, s, Step
  <2>4. Went(a, "FAILED", s)
    BY <2>3, EnterKeeps
  <2>5. s.iceAgentState = "FAILED"
    BY <2>4 DEF Went
  <2>6. b = s
    BY <2>5
  <2> HIDE DEF b
  <2> QED BY <1>2, <2>1, <2>2, <2>4, <2>6 DEF Went, MachineInv
<1> HIDE DEF b
<1>3. b \in Agent /\ n \in States
  BY <1>2 DEF Sound, Agent
<1> HIDE DEF n
<1>4. c \in Agent /\ c.notified = n
  BY <1>3 DEF Agent
<1>5. /\ SameLists(b, c) /\ c.cand = b.cand /\ c.triggeredCheckQueue = b.triggeredCheckQueue
      /\ c.iceAgentState = b.iceAgentState /\ c.sm = b.sm /\ c.rejected = b.rejected
      /\ c.detectedDisconnection = b.detectedDisconnection /\ c.handles = b.handles
  BY <1>3 DEF Agent, SameLists
<1>6. c = [b EXCEPT !.notified = IF changed /\ ~b.rejected THEN b.iceAgentState ELSE @]
  BY DEF n
<1> HIDE DEF c
<1>7. Sound(c, g)
  BY <1>2, <1>4, <1>5, FlagsSound
<1>8. MachineInv(c)
  <2>1. CASE changed
    BY <1>2, <1>4, <1>5, <2>1 DEF MachineInv, n
  <2>2. CASE ~changed
    BY <1>2, <1>a, <1>4, <1>5, <2>2 DEF MachineInv, n
  <2> QED BY <2>1, <2>2
<1>9. c.handles \subseteq a.handles \cup {"keepAlive"}
  BY <1>2, <1>5
<1> QED BY <1>6, <1>7, <1>8, <1>9 DEF s, b

-----------------------------------------------------------------------------
(* What the other threads do                                               *)

\* b keeps what a has of the invariant, and the fields that TimerInv names;
\* Kept, the timers too.
Preserved(a, b, g, over) ==
  /\ b \in Agent /\ b.localCandidates = a.localCandidates
  /\ b.data = a.data /\ b.deferred = a.deferred
  /\ MachineInv(a) => MachineInv(b)
  /\ ListInv(a, g, over) => ListInv(b, g, over)
  /\ QueueInv(a) => QueueInv(b)
  /\ DataInv(a, g) => DataInv(b, g)

Kept(a, b, g, over) == Preserved(a, b, g, over) /\ b.handles = a.handles

LEMMA KeptTransitive ==
  ASSUME NEW a, NEW b, NEW c, NEW g, NEW over, Kept(a, b, g, over), Kept(b, c, g, over)
  PROVE  Kept(a, c, g, over)
BY DEF Kept, Preserved

LEMMA CheckedKept ==
  ASSUME NEW a \in Agent, NEW b, NEW g, NEW over, Checked(a, b)
  PROVE  Kept(a, b, g, over)
<1>1. a.localCandidates \subseteq Locals /\ b \in Agent
  BY DEF Agent, Checked
<1>2. ListInv(a, g, over) => ListInv(b, g, over)
  BY <1>1 DEF ListInv, Checked, SameLists
<1>3. QueueInv(a) => QueueInv(b)
  BY <1>1 DEF QueueInv, Checked, SameLists, SameMachine
<1>4. MachineInv(a) => MachineInv(b)
  BY DEF MachineInv, Checked, SameMachine
<1>5. DataInv(a, g) => DataInv(b, g)
  BY DEF DataInv, Checked, SameLists, SameMachine
<1> QED BY <1>1, <1>2, <1>3, <1>4, <1>5 DEF Kept, Preserved, Checked, SameLists

\* Fields that the invariant does not name.
LEMMA AsideKept ==
  ASSUME NEW a, NEW b \in Agent, NEW g, NEW over, SameMachine(a, b), SameLists(a, b), b.handles = a.handles,
         b.cand = a.cand, b.triggeredCheckQueue = a.triggeredCheckQueue
  PROVE  Kept(a, b, g, over)
BY DEF Kept, Preserved, MachineInv, ListInv, QueueInv, DataInv, SameMachine, SameLists

\* createIceCandidatePairs: only valid candidates get a pair, and a TURN
\* connection on its way out has none.
LEMMA CreateKept ==
  ASSUME NEW a \in Agent, NEW g, NEW L \in SUBSET a.localCandidates, NEW R \in SUBSET Remotes
  PROVE  LET b == createIceCandidatePairs(a, L, R) IN
         /\ Kept(a, b, g, FALSE) /\ b.isLiteAgent = a.isLiteAgent /\ b.cand = a.cand
         /\ b.triggeredCheckQueue = a.triggeredCheckQueue /\ SameMachine(a, b)
<1> DEFINE new == {l \in L : a.cand[l] = "VALID"} \X R
           s == SetPairs(a, new, "WAITING")
           n == [p \in Pairs |-> p \notin new /\ s.nominated[p]]
           x == [p \in Pairs |-> p \notin new /\ s.transactionIds[p]]
           b == [s EXCEPT !.iceCandidatePairs = @ \cup new, !.nominated = n, !.transactionIds = x]
<1>0. a.localCandidates \subseteq Locals
  BY DEF Agent
<1>1. new \subseteq Pairs /\ \A p \in new : LocalOf(p) \in a.localCandidates /\ a.cand[LocalOf(p)] = "VALID"
  BY <1>0 DEF Pairs, LocalOf
<1> HIDE DEF new
<1>2. /\ s \in Agent /\ SameMachine(a, s) /\ SameLists(a, s) /\ s.handles = a.handles
      /\ s.iceAgentStatus = a.iceAgentStatus /\ s.cand = a.cand /\ s.triggeredCheckQueue = a.triggeredCheckQueue
  BY SetPairsFields DEF PairStates
<1>3. s.isLiteAgent = a.isLiteAgent
  BY DEF SetPairs, Agent
<1>4. n \in [Pairs -> BOOLEAN] /\ x \in [Pairs -> BOOLEAN]
  BY Zenon
<1> HIDE DEF s, n, x
<1>5. b \in Agent
  BY <1>1, <1>2, <1>4 DEF Agent
<1>6. /\ SameMachine(a, b) /\ b.handles = a.handles /\ b.cand = a.cand
      /\ b.triggeredCheckQueue = a.triggeredCheckQueue /\ b.isLiteAgent = a.isLiteAgent
      /\ b.localCandidates = a.localCandidates /\ b.turn = a.turn /\ b.data = a.data
      /\ b.deferred = a.deferred /\ b.iceCandidatePairs = a.iceCandidatePairs \cup new
  BY <1>2, <1>3 DEF Agent, SameMachine, SameLists
<1>7. createIceCandidatePairs(a, L, R) = b
  BY DEF createIceCandidatePairs, b, s, n, x, new
<1> HIDE DEF b
<1>8. ListInv(a, g, FALSE) => ListInv(b, g, FALSE)
  <2> SUFFICES ASSUME ListInv(a, g, FALSE) PROVE ListInv(b, g, FALSE)
    OBVIOUS
  <2>1. \A p \in new : a.turn[LocalOf(p)] \notin Leaving
    BY <1>1 DEF ListInv
  <2> QED BY <1>1, <1>6, <2>1 DEF ListInv
<1>9. (QueueInv(a) => QueueInv(b)) /\ (MachineInv(a) => MachineInv(b)) /\ (DataInv(a, g) => DataInv(b, g))
  BY <1>6 DEF QueueInv, MachineInv, DataInv, SameMachine
<1> QED BY <1>5, <1>6, <1>7, <1>8, <1>9 DEF Kept, Preserved

\* The types of what is not the agent.
RestType ==
  /\ pc \in {"idle", "again", "cleanup"}
  /\ captured \subseteq Timers
  /\ generation \in 0..MaxRestarts
  /\ restartPhase \in {"none", "sleeping"} /\ oldLocals \subseteq Locals
  /\ shutdownPhase \in {"none", "cancelling", "done"}
  /\ closed \subseteq Locals
  /\ remoteCredentialReceived \in BOOLEAN /\ agentStartGathering \in BOOLEAN

LEMMA IceParts ==
  ASSUME IceInv
  PROVE  /\ ag \in Agent /\ RestType /\ TimerInv /\ MachineInv(ag)
         /\ ListInv(ag, generation, shutdownPhase = "done")
         /\ (restartPhase = "none" => QueueInv(ag)) /\ DataInv(ag, generation)
         /\ generation \in Nat
BY IceAssumption DEF IceInv, TypeOK, RestType

LEMMA IceJoin ==
  ASSUME ag' \in Agent, RestType', TimerInv', MachineInv(ag'),
         ListInv(ag', generation', shutdownPhase' = "done"),
         restartPhase' = "none" => QueueInv(ag'), DataInv(ag', generation')
  PROVE  IceInv'
BY DEF IceInv, TypeOK, RestType

\* An action that keeps the agent, and no more than closes a socket.
LEMMA KeptFinish ==
  ASSUME IceInv, Kept(ag, ag', generation, shutdownPhase = "done"),
         UNCHANGED <<pc, restartVars, shutdownVars, sessionVars>>, closed' \subseteq Locals
  PROVE  IceInv'
<1>1. /\ ag \in Agent /\ RestType /\ TimerInv /\ MachineInv(ag)
      /\ ListInv(ag, generation, shutdownPhase = "done")
      /\ (restartPhase = "none" => QueueInv(ag)) /\ DataInv(ag, generation)
  BY IceParts
<1>2. RestType'
  BY <1>1 DEF RestType, restartVars, shutdownVars, sessionVars
<1>3. TimerInv'
  BY <1>1 DEF TimerInv, Kept, Preserved, restartVars, shutdownVars
<1>4. /\ ag' \in Agent /\ MachineInv(ag') /\ ListInv(ag', generation', shutdownPhase' = "done")
      /\ (restartPhase' = "none" => QueueInv(ag')) /\ DataInv(ag', generation')
  <2>1. generation' = generation /\ shutdownPhase' = shutdownPhase /\ restartPhase' = restartPhase
    BY DEF restartVars, shutdownVars
  <2> QED BY <1>1, <2>1 DEF Kept, Preserved
<1> QED BY <1>2, <1>3, <1>4, IceJoin

-----------------------------------------------------------------------------
(* Stopping and freeing                                                    *)

LEMMA StopFields ==
  ASSUME NEW a \in Agent, NEW S
  PROVE  LET b == Stop(a, S) IN
         /\ b \in Agent /\ SameMachine(a, b) /\ b.handles = a.handles
         /\ b.localCandidates = a.localCandidates /\ b.iceCandidatePairs = a.iceCandidatePairs
         /\ b.data = a.data /\ b.deferred = a.deferred /\ b.cand = a.cand
         /\ b.triggeredCheckQueue = a.triggeredCheckQueue
         /\ \A l \in Locals : b.turn[l] \in Leaving => a.turn[l] \in Leaving \/ Kind(l) = "relay"
<1> DEFINE t == [l \in Locals |-> IF l \in S /\ Kind(l) = "relay" /\ a.turn[l] # "complete"
                                  THEN "stopping" ELSE a.turn[l]]
           b == [a EXCEPT !.turn = t]
<1>1. b = Stop(a, S)
  BY DEF Stop
<1>2. t \in [Locals -> {"none", "allocating", "active", "failed", "stopping", "complete"}]
  BY DEF Agent
<1>3. \A l \in Locals : t[l] \in Leaving => a.turn[l] \in Leaving \/ Kind(l) = "relay"
  BY DEF Leaving
<1> HIDE DEF t
<1>4. b \in Agent /\ b.turn = t
  BY <1>2 DEF Agent
<1>5. /\ SameMachine(a, b) /\ b.handles = a.handles
      /\ b.localCandidates = a.localCandidates /\ b.iceCandidatePairs = a.iceCandidatePairs
      /\ b.data = a.data /\ b.deferred = a.deferred /\ b.cand = a.cand
      /\ b.triggeredCheckQueue = a.triggeredCheckQueue
  BY DEF Agent, SameMachine
<1> HIDE DEF b
<1> QED BY <1>1, <1>3, <1>4, <1>5

LEMMA FreePairsFields ==
  ASSUME NEW a \in Agent, NEW S
  PROVE  LET b == FreePairs(a, S) IN
         /\ b \in Agent /\ SameMachine(a, b) /\ SameLists(a, b) /\ b.handles = a.handles
         /\ b.cand = a.cand /\ b.triggeredCheckQueue = a.triggeredCheckQueue
<1> DEFINE k == SetPairs(a, S, "FREED")
           n == [p \in Pairs |-> p \notin S /\ k.nominated[p]]
           x == [p \in Pairs |-> p \notin S /\ k.transactionIds[p]]
           b == [k EXCEPT !.nominated = n, !.transactionIds = x]
<1>1. /\ k \in Agent /\ SameMachine(a, k) /\ SameLists(a, k) /\ k.handles = a.handles
      /\ k.cand = a.cand /\ k.triggeredCheckQueue = a.triggeredCheckQueue
  BY SetPairsFields DEF PairStates
<1>2. n \in [Pairs -> BOOLEAN] /\ x \in [Pairs -> BOOLEAN]
  BY Zenon
<1>3. b = FreePairs(a, S)
  BY DEF FreePairs
<1> HIDE DEF k, n, x
<1>4. b \in Agent
  BY <1>1, <1>2 DEF Agent
<1>5. /\ SameMachine(k, b) /\ SameLists(k, b) /\ b.handles = k.handles
      /\ b.cand = k.cand /\ b.triggeredCheckQueue = k.triggeredCheckQueue
  BY <1>1 DEF Agent, SameMachine, SameLists
<1> HIDE DEF b
<1> QED BY <1>1, <1>3, <1>4, <1>5 DEF SameMachine, SameLists

LEMMA FreeLocalsFields ==
  ASSUME NEW a \in Agent, NEW S
  PROVE  LET b == FreeLocals(a, S) IN
         /\ b \in Agent /\ SameMachine(a, b) /\ b.handles = a.handles
         /\ b.localCandidates = a.localCandidates /\ b.iceCandidatePairs = a.iceCandidatePairs
         /\ b.data = a.data /\ b.deferred = a.deferred
         /\ b.triggeredCheckQueue = a.triggeredCheckQueue
         /\ \A l \in Locals \ S : b.cand[l] = a.cand[l] /\ b.turn[l] = a.turn[l]
         /\ \A l \in Locals : b.turn[l] \in Leaving => a.turn[l] \in Leaving
<1> DEFINE v == SetLocals(a, S, "FREED")
           n == [l \in Locals |-> IF l \in S THEN "none" ELSE v.turn[l]]
           b == [v EXCEPT !.turn = n]
<1>1. /\ v \in Agent /\ SameMachine(a, v) /\ SameLists(a, v) /\ v.handles = a.handles
      /\ v.triggeredCheckQueue = a.triggeredCheckQueue
      /\ \A l \in Locals \ S : v.cand[l] = a.cand[l]
  BY DEF SetLocals, SameMachine, SameLists, Agent
<1>2. b = FreeLocals(a, S)
  BY DEF FreeLocals
<1> HIDE DEF v
<1>3. n \in [Locals -> {"none", "allocating", "active", "failed", "stopping", "complete"}]
  BY <1>1 DEF Agent
<1>4. /\ \A l \in Locals \ S : n[l] = a.turn[l]
      /\ \A l \in Locals : n[l] \in Leaving => a.turn[l] \in Leaving
  BY <1>1 DEF SameLists, Leaving
<1> HIDE DEF n
<1>5. b \in Agent /\ b.turn = n
  BY <1>1, <1>3 DEF Agent
<1>6. /\ SameMachine(v, b) /\ b.handles = v.handles
      /\ b.localCandidates = v.localCandidates /\ b.iceCandidatePairs = v.iceCandidatePairs
      /\ b.data = v.data /\ b.deferred = v.deferred /\ b.cand = v.cand
      /\ b.triggeredCheckQueue = v.triggeredCheckQueue
  BY <1>1 DEF SameMachine, Agent
<1> HIDE DEF b
<1> QED BY <1>1, <1>2, <1>4, <1>5, <1>6 DEF SameMachine, SameLists

-----------------------------------------------------------------------------
(* The timer thread                                                        *)

LEMMA TurnStep ==
  ASSUME IceInv, NEW late \in BOOLEAN, stepIceAgentStateMachine(late)
  PROVE  IceInv'
<1>1. /\ ag \in Agent /\ RestType /\ TimerInv /\ MachineInv(ag)
      /\ ListInv(ag, generation, shutdownPhase = "done")
      /\ (restartPhase = "none" => QueueInv(ag)) /\ DataInv(ag, generation)
      /\ generation \in Nat
  BY IceParts
<1>2. shutdownPhase # "done" /\ restartPhase = "none"
  BY <1>1 DEF stepIceAgentStateMachine, TimerInv, RestType, armed
<1>3. Sound(ag, generation)
  BY <1>1, <1>2 DEF Sound, ListInv
<1> DEFINE s == Step(ag, late)
           b == IF ~s.rejected /\ s.iceAgentStatus = "ERR" /\ s.iceAgentState # "FAILED"
                THEN Step(s, late) ELSE s
           changed == b.iceAgentState # ag.iceAgentState
<1>4. /\ ag' = [b EXCEPT !.notified = IF changed /\ ~b.rejected THEN b.iceAgentState ELSE @]
      /\ pc' = CASE b.rejected -> "idle"
                 [] ~b.rejected /\ changed -> "again"
                 [] ~b.rejected /\ ~changed /\ b.deferred # NoPair -> "cleanup"
                 [] OTHER -> "idle"
      /\ UNCHANGED <<restartVars, shutdownVars, closed, sessionVars>>
  BY DEF stepIceAgentStateMachine
<1>5. /\ Sound(ag', generation) /\ MachineInv(ag')
      /\ ag'.handles \subseteq ag.handles \cup {"keepAlive"}
  BY <1>1, <1>3, <1>4, TurnKeeps
<1> HIDE DEF b, s
<1>6. ag' \in Agent /\ ag'.deferred = b.deferred
  BY <1>4, <1>5 DEF Sound, Agent
<1>7. pc' \in {"idle", "again", "cleanup"} /\ (pc' = "cleanup" => ag'.deferred # NoPair)
  BY <1>4, <1>6
<1>8. RestType' /\ generation' = generation /\ shutdownPhase' = shutdownPhase
      /\ restartPhase' = restartPhase /\ captured' = captured
  BY <1>1, <1>4, <1>7 DEF RestType, restartVars, shutdownVars, sessionVars
<1>9. TimerInv'
  BY <1>1, <1>2, <1>5, <1>7, <1>8 DEF TimerInv
<1> QED BY <1>2, <1>5, <1>8, <1>9, IceJoin DEF Sound, ListInv

\* What the clean-up frees belongs to an earlier session, and everything that
\* is listed to the present one.
LEMMA CleanupKeeps ==
  ASSUME NEW a \in Agent, NEW g \in Nat, a.deferred # NoPair, MachineInv(a),
         ListInv(a, g, FALSE), DataInv(a, g)
  PROVE  LET b == [FreeLocals(FreePairs(a, {a.deferred}), {LocalOf(a.deferred)})
                     EXCEPT !.deferred = NoPair] IN
         /\ b \in Agent /\ MachineInv(b) /\ ListInv(b, g, FALSE) /\ DataInv(b, g)
         /\ (QueueInv(a) => QueueInv(b)) /\ b.handles = a.handles /\ b.data = a.data
         /\ b.localCandidates = a.localCandidates
<1> DEFINE d == LocalOf(a.deferred)
           k == FreePairs(a, {a.deferred})
           f == FreeLocals(k, {d})
           b == [f EXCEPT !.deferred = NoPair]
<1>1. /\ k \in Agent /\ SameMachine(a, k) /\ SameLists(a, k) /\ k.handles = a.handles
      /\ k.cand = a.cand /\ k.triggeredCheckQueue = a.triggeredCheckQueue
  BY FreePairsFields
<1> HIDE DEF k
<1>2. /\ f \in Agent /\ SameMachine(k, f) /\ f.handles = k.handles
      /\ f.localCandidates = k.localCandidates /\ f.iceCandidatePairs = k.iceCandidatePairs
      /\ f.data = k.data /\ f.deferred = k.deferred
      /\ f.triggeredCheckQueue = k.triggeredCheckQueue
      /\ \A l \in Locals \ {d} : f.cand[l] = k.cand[l] /\ f.turn[l] = k.turn[l]
      /\ \A l \in Locals : f.turn[l] \in Leaving => k.turn[l] \in Leaving
  BY <1>1, FreeLocalsFields
<1> HIDE DEF f
<1>3. b \in Agent /\ b.deferred = NoPair
  BY <1>2 DEF Agent
<1>4. /\ SameMachine(f, b) /\ b.handles = f.handles
      /\ b.localCandidates = f.localCandidates /\ b.iceCandidatePairs = f.iceCandidatePairs
      /\ b.data = f.data /\ b.triggeredCheckQueue = f.triggeredCheckQueue
      /\ b.cand = f.cand /\ b.turn = f.turn
  BY <1>2 DEF Agent, SameMachine
<1>5. b = [FreeLocals(FreePairs(a, {a.deferred}), {LocalOf(a.deferred)}) EXCEPT !.deferred = NoPair]
  BY DEF f, k
<1> HIDE DEF b
<1>6. /\ SameMachine(a, b) /\ b.handles = a.handles
      /\ b.localCandidates = a.localCandidates /\ b.iceCandidatePairs = a.iceCandidatePairs
      /\ b.data = a.data /\ b.triggeredCheckQueue = a.triggeredCheckQueue
      /\ \A l \in Locals \ {d} : b.cand[l] = a.cand[l] /\ b.turn[l] = a.turn[l]
      /\ \A l \in Locals : b.turn[l] \in Leaving => a.turn[l] \in Leaving
  BY <1>1, <1>2, <1>4 DEF SameMachine, SameLists
<1>7. d \notin a.localCandidates /\ a.localCandidates \subseteq Locals
  BY DEF ListInv, DataInv, GenOf, Agent
<1> HIDE DEF d
<1>8. ListInv(b, g, FALSE)
  BY <1>6, <1>7 DEF ListInv
<1>9. MachineInv(b) /\ DataInv(b, g) /\ (QueueInv(a) => QueueInv(b))
  BY <1>3, <1>6 DEF MachineInv, DataInv, QueueInv, SameMachine
<1> QED BY <1>3, <1>5, <1>6, <1>8, <1>9

LEMMA CleanupStep ==
  ASSUME IceInv, DeferredCleanup
  PROVE  IceInv'
<1>1. /\ ag \in Agent /\ RestType /\ TimerInv /\ MachineInv(ag)
      /\ ListInv(ag, generation, shutdownPhase = "done")
      /\ (restartPhase = "none" => QueueInv(ag)) /\ DataInv(ag, generation)
      /\ generation \in Nat
  BY IceParts
<1>2. shutdownPhase # "done" /\ restartPhase = "none" /\ ag.deferred # NoPair
  BY <1>1 DEF DeferredCleanup, TimerInv, RestType
<1>3. ListInv(ag, generation, FALSE)
  BY <1>1, <1>2 DEF ListInv
<1>4. /\ ag' \in Agent /\ MachineInv(ag') /\ ListInv(ag', generation, FALSE)
      /\ DataInv(ag', generation) /\ QueueInv(ag') /\ ag'.handles = ag.handles
  BY <1>1, <1>2, <1>3, CleanupKeeps DEF DeferredCleanup
<1>5. /\ pc' = "idle" /\ generation' = generation /\ shutdownPhase' = shutdownPhase
      /\ restartPhase' = restartPhase /\ captured' = captured
  BY DEF DeferredCleanup, restartVars, shutdownVars
<1>6. RestType' /\ TimerInv'
  BY <1>1, <1>2, <1>4, <1>5 DEF DeferredCleanup, RestType, TimerInv, restartVars, sessionVars
<1> QED BY <1>2, <1>4, <1>5, <1>6, IceJoin DEF ListInv

LEMMA KeepAliveStep ==
  ASSUME IceInv, iceAgentSendKeepAliveTimerCallback
  PROVE  IceInv'
<1>1. ag \in Agent /\ closed \subseteq Locals
  BY IceParts DEF RestType
<1>2. Checked(ag, ag')
  BY <1>1, SendChecked DEF iceAgentSendKeepAliveTimerCallback
<1>3. Kept(ag, ag', generation, shutdownPhase = "done")
  BY <1>1, <1>2, CheckedKept
<1> QED BY <1>1, <1>3, KeptFinish DEF iceAgentSendKeepAliveTimerCallback

-----------------------------------------------------------------------------
(* Gathering                                                               *)

\* The fields that the invariant names are the same, the timers may differ.
LEMMA AsidePreserved ==
  ASSUME NEW a, NEW b \in Agent, NEW g, NEW over, SameMachine(a, b), SameLists(a, b),
         b.cand = a.cand, b.triggeredCheckQueue = a.triggeredCheckQueue
  PROVE  Preserved(a, b, g, over)
BY DEF Preserved, MachineInv, ListInv, QueueInv, DataInv, SameMachine, SameLists

LEMMA HandlesFields ==
  ASSUME NEW a \in Agent, NEW H \in SUBSET Timers
  PROVE  LET b == [a EXCEPT !.handles = H] IN
         /\ b \in Agent /\ SameMachine(a, b) /\ SameLists(a, b)
         /\ b.cand = a.cand /\ b.triggeredCheckQueue = a.triggeredCheckQueue /\ b.handles = H
BY DEF Agent, SameMachine, SameLists

\* An action of a running agent that preserves it and changes the timers.
LEMMA PreservedFinish ==
  ASSUME IceInv, Preserved(ag, ag', generation, shutdownPhase = "done"),
         UNCHANGED <<pc, restartVars, shutdownPhase, closed>>,
         captured' \subseteq Timers, shutdownPhase # "cancelling" => captured' = {},
         shutdownPhase # "none" => ag'.handles \subseteq {"keepAlive"},
         restartPhase = "none",
         remoteCredentialReceived' \in BOOLEAN, agentStartGathering' \in BOOLEAN
  PROVE  IceInv'
<1>1. /\ ag \in Agent /\ RestType /\ TimerInv /\ MachineInv(ag)
      /\ ListInv(ag, generation, shutdownPhase = "done")
      /\ (restartPhase = "none" => QueueInv(ag)) /\ DataInv(ag, generation)
  BY IceParts
<1>2. generation' = generation /\ shutdownPhase' = shutdownPhase /\ restartPhase' = restartPhase
  BY DEF restartVars
<1>3. RestType'
  BY <1>1, <1>2 DEF RestType, restartVars
<1>4. TimerInv'
  BY <1>1, <1>2 DEF TimerInv, Preserved
<1> QED BY <1>1, <1>2, <1>3, <1>4, IceJoin DEF Preserved

\* A candidate becomes valid while its TURN connection, if any, is up.
LEMMA ValidKept ==
  ASSUME NEW a \in Agent, NEW g, NEW S \in SUBSET a.localCandidates,
         \A l \in S : a.turn[l] \notin Leaving
  PROVE  LET b == SetLocals(a, S, "VALID") IN
         /\ Kept(a, b, g, FALSE) /\ b.localCandidates = a.localCandidates
         /\ b.remoteCandidates = a.remoteCandidates
<1> DEFINE c == [l \in Locals |-> IF l \in S THEN "VALID" ELSE a.cand[l]]
           b == [a EXCEPT !.cand = c]
<1>1. b = SetLocals(a, S, "VALID")
  BY DEF SetLocals
<1>2. c \in [Locals -> CandStates] /\ a.localCandidates \subseteq Locals
  BY DEF Agent, CandStates
<1>3. \A l \in Locals : c[l] = IF l \in S THEN "VALID" ELSE a.cand[l]
  OBVIOUS
<1> HIDE DEF c
<1>4. b \in Agent /\ b.cand = c
  BY <1>2 DEF Agent, CandStates
<1>5. /\ SameMachine(a, b) /\ SameLists(a, b) /\ b.handles = a.handles
      /\ b.triggeredCheckQueue = a.triggeredCheckQueue /\ b.remoteCandidates = a.remoteCandidates
  BY DEF Agent, SameMachine, SameLists
<1> HIDE DEF b
<1>6. ListInv(a, g, FALSE) => ListInv(b, g, FALSE)
  BY <1>2, <1>3, <1>4, <1>5 DEF ListInv, SameLists
<1>7. (QueueInv(a) => QueueInv(b)) /\ (MachineInv(a) => MachineInv(b)) /\ (DataInv(a, g) => DataInv(b, g))
  BY <1>5 DEF QueueInv, MachineInv, DataInv, SameMachine, SameLists
<1> QED BY <1>1, <1>4, <1>5, <1>6, <1>7 DEF Kept, Preserved, SameLists

LEMMA GatherStep ==
  ASSUME IceInv, NEW late \in BOOLEAN, iceAgentGatherCandidateTimerCallback(late)
  PROVE  IceInv'
<1> DEFINE got == {l \in ag.localCandidates : ag.cand[l] = "NEW" /\ ag.turn[l] = "active"}
           v == SetLocals(ag, got, "VALID")
           a == createIceCandidatePairs(v, got, ag.remoteCandidates)
           H == IF GatheringOver(late) THEN a.handles \ {"gather"} ELSE a.handles
           b == [a EXCEPT !.handles = H]
<1>1. ag \in Agent /\ RestType /\ TimerInv
  BY IceParts
<1>2. shutdownPhase # "done" /\ restartPhase = "none"
  BY <1>1 DEF iceAgentGatherCandidateTimerCallback, TimerInv, RestType, armed
<1>3. /\ ag' = IF GatheringOver(late) THEN [a EXCEPT !.handles = @ \ {"gather"}] ELSE a
      /\ captured' = IF GatheringOver(late) THEN captured \ {"gather"} ELSE captured
      /\ UNCHANGED <<pc, restartVars, shutdownPhase, closed, sessionVars>>
  BY DEF iceAgentGatherCandidateTimerCallback
<1>4. got \subseteq ag.localCandidates /\ \A l \in got : ag.turn[l] \notin Leaving
  BY DEF Leaving
<1> HIDE DEF got
<1>5. /\ Kept(ag, v, generation, FALSE) /\ v.localCandidates = ag.localCandidates
      /\ ag.remoteCandidates \subseteq Remotes
  BY <1>1, <1>4, ValidKept DEF Agent
<1> HIDE DEF v
<1>6. Kept(v, a, generation, FALSE)
  <2>1. v \in Agent
    BY <1>5 DEF Kept, Preserved
  <2> QED BY <1>4, <1>5, <2>1, CreateKept
<1>7. Kept(ag, a, generation, FALSE)
  BY <1>5, <1>6, KeptTransitive
<1> HIDE DEF a
<1>8. a \in Agent /\ a.handles = ag.handles /\ H \subseteq ag.handles /\ H \subseteq Timers
  BY <1>1, <1>7 DEF Kept, Preserved, Agent
<1>9. ag' = b
  <2>1. a = [a EXCEPT !.handles = a.handles]
    BY <1>8 DEF Agent
  <2> QED BY <1>3, <2>1
<1> HIDE DEF H
<1>10. /\ b \in Agent /\ SameMachine(a, b) /\ SameLists(a, b)
       /\ b.cand = a.cand /\ b.triggeredCheckQueue = a.triggeredCheckQueue /\ b.handles = H
  BY <1>8, HandlesFields
<1> HIDE DEF b
<1>11. Preserved(a, b, generation, FALSE)
  BY <1>10, AsidePreserved
<1>12. Preserved(ag, ag', generation, shutdownPhase = "done")
  BY <1>2, <1>7, <1>9, <1>11 DEF Kept, Preserved, ListInv
<1>13. ag'.handles \subseteq ag.handles
  BY <1>8, <1>9, <1>10
<1>14. captured' \subseteq captured
  BY <1>3
<1> QED BY <1>1, <1>2, <1>3, <1>12, <1>13, <1>14, PreservedFinish DEF RestType, TimerInv, sessionVars

-----------------------------------------------------------------------------
(* The application                                                         *)

LEMMA StartAgentStep ==
  ASSUME IceInv, NEW c \in BOOLEAN, iceAgentStartAgent(c)
  PROVE  IceInv'
<1> DEFINE i == IF ag.restart THEN ag.isControlling ELSE c
           H == ag.handles \cup {"state"}
           a == [ag EXCEPT !.isControlling = i]
           b == [a EXCEPT !.handles = H]
<1>1. ag \in Agent /\ RestType /\ TimerInv
  BY IceParts
<1>2. restartPhase = "none" /\ shutdownPhase = "none"
  BY DEF iceAgentStartAgent, AppMayCall
<1>3. i \in BOOLEAN /\ H \subseteq Timers
  BY <1>1 DEF Agent, Timers
<1>4. ag' = [ag EXCEPT !.isControlling = i, !.handles = H]
  BY DEF iceAgentStartAgent
<1> HIDE DEF i, H
<1>5. ag' = b
  BY <1>1, <1>4 DEF Agent
<1>6. /\ a \in Agent /\ SameMachine(ag, a) /\ SameLists(ag, a)
      /\ a.cand = ag.cand /\ a.triggeredCheckQueue = ag.triggeredCheckQueue
  BY <1>1, <1>3 DEF Agent, SameMachine, SameLists
<1> HIDE DEF a
<1>7. /\ b \in Agent /\ SameMachine(a, b) /\ SameLists(a, b)
      /\ b.cand = a.cand /\ b.triggeredCheckQueue = a.triggeredCheckQueue
  BY <1>3, <1>6, HandlesFields
<1> HIDE DEF b
<1>8. Preserved(ag, ag', generation, shutdownPhase = "done")
  <2>1. SameMachine(ag, b) /\ SameLists(ag, b) /\ b.cand = ag.cand /\ b.triggeredCheckQueue = ag.triggeredCheckQueue
    BY <1>6, <1>7 DEF SameMachine, SameLists
  <2> QED BY <1>5, <1>7, <2>1, AsidePreserved
<1>9. /\ UNCHANGED <<pc, restartVars, shutdownVars, closed, agentStartGathering>>
      /\ remoteCredentialReceived' = TRUE
  BY DEF iceAgentStartAgent
<1>10. remoteCredentialReceived' \in BOOLEAN
  BY <1>9, Zenon
<1> QED BY <1>1, <1>2, <1>8, <1>9, <1>10, PreservedFinish DEF RestType, TimerInv, shutdownVars

\* Host candidates of the present session join the list.
LEMMA HostsKeep ==
  ASSUME NEW a, NEW g, Sound(a, g), NEW S \in SUBSET Locals,
         \A l \in S : Gen(l) = g /\ Kind(l) = "host"
  PROVE  LET b == [SetLocals(a, S, "VALID") EXCEPT !.localCandidates = @ \cup S] IN
         /\ Sound(b, g) /\ SameMachine(a, b) /\ b.handles = a.handles /\ b.deferred = a.deferred
         /\ S \subseteq b.localCandidates
<1> DEFINE c == [l \in Locals |-> IF l \in S THEN "VALID" ELSE a.cand[l]]
           v == [a EXCEPT !.cand = c]
           b == [v EXCEPT !.localCandidates = @ \cup S]
<1>0. a \in Agent /\ ListInv(a, g, FALSE) /\ QueueInv(a) /\ DataInv(a, g) /\ a.localCandidates \subseteq Locals
  BY DEF Sound, Agent
<1>1. b = [SetLocals(a, S, "VALID") EXCEPT !.localCandidates = @ \cup S]
  BY DEF SetLocals
<1>2. c \in [Locals -> CandStates] /\ \A l \in Locals : c[l] = IF l \in S THEN "VALID" ELSE a.cand[l]
  BY <1>0 DEF Agent, CandStates
<1> HIDE DEF c
<1>3. v \in Agent /\ v.cand = c
  BY <1>0, <1>2 DEF Agent, CandStates
<1>4. /\ SameMachine(a, v) /\ SameLists(a, v) /\ v.handles = a.handles
      /\ v.triggeredCheckQueue = a.triggeredCheckQueue
  BY <1>0 DEF Agent, SameMachine, SameLists
<1> HIDE DEF v
<1>5. /\ b \in Agent /\ SameMachine(v, b) /\ b.handles = v.handles /\ b.deferred = v.deferred
      /\ b.data = v.data /\ b.cand = v.cand /\ b.turn = v.turn
      /\ b.localCandidates = v.localCandidates \cup S /\ b.iceCandidatePairs = v.iceCandidatePairs
      /\ b.triggeredCheckQueue = v.triggeredCheckQueue
  BY <1>3 DEF Agent, SameMachine
<1> HIDE DEF b
<1>6. /\ SameMachine(a, b) /\ b.handles = a.handles /\ b.deferred = a.deferred
      /\ b.data = a.data /\ b.cand = c /\ b.turn = a.turn
      /\ b.localCandidates = a.localCandidates \cup S /\ b.iceCandidatePairs = a.iceCandidatePairs
      /\ b.triggeredCheckQueue = a.triggeredCheckQueue
  BY <1>3, <1>4, <1>5 DEF SameMachine, SameLists
<1>7. ListInv(b, g, FALSE)
  <2>1. \A l \in S : a.turn[l] \notin Leaving
    BY <1>0 DEF ListInv
  <2> QED BY <1>0, <1>2, <1>6, <2>1 DEF ListInv
<1>8. QueueInv(b) /\ DataInv(b, g)
  BY <1>0, <1>6 DEF QueueInv, DataInv, SameMachine
<1> QED BY <1>1, <1>5, <1>6, <1>7, <1>8 DEF Sound

\* Relayed candidates of the present session join the list and allocate.
AddRelays(a, S) ==
  [SetLocals(a, S, "NEW") EXCEPT
     !.localCandidates = @ \cup S,
     !.turn = [l \in Locals |-> IF l \in S THEN "allocating" ELSE @[l]]]

LEMMA RelaysKeep ==
  ASSUME NEW a, NEW g, Sound(a, g), NEW S \in SUBSET Locals, \A l \in S : Gen(l) = g
  PROVE  LET b == AddRelays(a, S) IN
         Sound(b, g) /\ SameMachine(a, b) /\ b.handles = a.handles /\ b.deferred = a.deferred
<1> DEFINE c == [l \in Locals |-> IF l \in S THEN "NEW" ELSE a.cand[l]]
           v == [a EXCEPT !.cand = c]
           t == [l \in Locals |-> IF l \in S THEN "allocating" ELSE v.turn[l]]
           b == [v EXCEPT !.localCandidates = @ \cup S, !.turn = t]
<1>0. a \in Agent /\ ListInv(a, g, FALSE) /\ QueueInv(a) /\ DataInv(a, g) /\ a.localCandidates \subseteq Locals
  BY DEF Sound, Agent
<1>1. b = AddRelays(a, S)
  BY DEF SetLocals, AddRelays
<1>2. c \in [Locals -> CandStates] /\ \A l \in Locals : c[l] = IF l \in S THEN "NEW" ELSE a.cand[l]
  BY <1>0 DEF Agent, CandStates
<1> HIDE DEF c
<1>3. v \in Agent /\ v.cand = c
  BY <1>0, <1>2 DEF Agent, CandStates
<1>4. /\ SameMachine(a, v) /\ SameLists(a, v) /\ v.handles = a.handles
      /\ v.triggeredCheckQueue = a.triggeredCheckQueue
  BY <1>0 DEF Agent, SameMachine, SameLists
<1> HIDE DEF v
<1>5. /\ t \in [Locals -> {"none", "allocating", "active", "failed", "stopping", "complete"}]
      /\ \A l \in Locals : t[l] = IF l \in S THEN "allocating" ELSE a.turn[l]
  BY <1>3, <1>4 DEF Agent, SameLists
<1> HIDE DEF t
<1>6. b \in Agent
  BY <1>3, <1>5 DEF Agent
<1>7. /\ SameMachine(v, b) /\ b.handles = v.handles /\ b.deferred = v.deferred
      /\ b.data = v.data /\ b.cand = v.cand /\ b.turn = t
      /\ b.localCandidates = v.localCandidates \cup S /\ b.iceCandidatePairs = v.iceCandidatePairs
      /\ b.triggeredCheckQueue = v.triggeredCheckQueue
  BY <1>3 DEF Agent, SameMachine
<1> HIDE DEF b
<1>8. /\ SameMachine(a, b) /\ b.handles = a.handles /\ b.deferred = a.deferred
      /\ b.data = a.data /\ b.cand = c
      /\ b.localCandidates = a.localCandidates \cup S /\ b.iceCandidatePairs = a.iceCandidatePairs
      /\ b.triggeredCheckQueue = a.triggeredCheckQueue
  BY <1>3, <1>4, <1>7 DEF SameMachine, SameLists
<1>9. ListInv(b, g, FALSE)
  <2>1. \A p \in b.iceCandidatePairs : LocalOf(p) \in Locals /\ b.turn[LocalOf(p)] \notin Leaving
    BY <1>0, <1>5, <1>7, <1>8 DEF ListInv, Leaving
  <2>2. \A l \in Locals : b.turn[l] \in Leaving => l \notin S /\ b.turn[l] = a.turn[l]
    BY <1>5, <1>7 DEF Leaving
  <2> QED BY <1>0, <1>2, <1>8, <2>1, <2>2 DEF ListInv
<1>10. QueueInv(b) /\ DataInv(b, g)
  BY <1>0, <1>8 DEF QueueInv, DataInv, SameMachine
<1> QED BY <1>1, <1>6, <1>8, <1>9, <1>10 DEF Sound

LEMMA GatheringStep ==
  ASSUME IceInv, iceAgentStartGathering
  PROVE  IceInv'
<1> DEFINE hosts == NewLocals("host")
           h == [SetLocals(ag, hosts, "VALID") EXCEPT !.localCandidates = @ \cup hosts]
           c == createIceCandidatePairs(h, hosts, ag.remoteCandidates)
           relays == IF c.isLiteAgent THEN {} ELSE NewLocals("relay")
           r == AddRelays(c, relays)
           H == r.handles \cup {"gather"}
           b == [r EXCEPT !.handles = H]
<1>1. /\ ag \in Agent /\ RestType /\ TimerInv /\ MachineInv(ag)
      /\ ListInv(ag, generation, shutdownPhase = "done")
      /\ (restartPhase = "none" => QueueInv(ag)) /\ DataInv(ag, generation)
  BY IceParts
<1>2. restartPhase = "none" /\ shutdownPhase = "none"
  BY DEF iceAgentStartGathering, AppMayCall
<1>3. Sound(ag, generation)
  BY <1>1, <1>2 DEF Sound, ListInv
<1>4. ag' = b
  BY DEF iceAgentStartGathering, iceAgentInitRelayCandidates, iceAgentInitHostCandidate, AddRelays
<1>5. hosts \in SUBSET Locals /\ \A l \in hosts : Gen(l) = generation /\ Kind(l) = "host"
  BY DEF NewLocals, Gen
<1> HIDE DEF hosts
<1>6. /\ Sound(h, generation) /\ SameMachine(ag, h) /\ h.handles = ag.handles /\ h.deferred = ag.deferred
      /\ hosts \subseteq h.localCandidates
  BY <1>3, <1>5, HostsKeep
<1> HIDE DEF h
<1>7. Kept(h, c, generation, FALSE) /\ SameMachine(h, c)
  <2>1. ag.remoteCandidates \in SUBSET Remotes /\ h \in Agent
    BY <1>1, <1>6 DEF Agent, Sound
  <2> QED BY <1>6, <2>1, CreateKept
<1> HIDE DEF c
<1>8. Sound(c, generation)
  BY <1>6, <1>7 DEF Sound, Kept, Preserved
<1>9. relays \in SUBSET Locals /\ \A l \in relays : Gen(l) = generation
  BY DEF NewLocals, Gen
<1> HIDE DEF relays
<1>10. Sound(r, generation) /\ SameMachine(c, r) /\ r.handles = c.handles /\ r.deferred = c.deferred
  BY <1>8, <1>9, RelaysKeep
<1> HIDE DEF r
<1>11. r \in Agent /\ H \subseteq Timers
  BY <1>10 DEF Sound, Agent, Timers
<1> HIDE DEF H
<1>12. /\ b \in Agent /\ SameMachine(r, b) /\ SameLists(r, b)
       /\ b.cand = r.cand /\ b.triggeredCheckQueue = r.triggeredCheckQueue
  BY <1>11, HandlesFields
<1> HIDE DEF b
<1>13. Preserved(r, b, generation, FALSE)
  BY <1>12, AsidePreserved
<1>14. /\ ag' \in Agent /\ ListInv(ag', generation, FALSE) /\ QueueInv(ag') /\ DataInv(ag', generation)
       /\ MachineInv(ag') /\ ag'.deferred = ag.deferred
  <2>1. SameMachine(ag, r)
    BY <1>6, <1>7, <1>10 DEF SameMachine
  <2>2. MachineInv(r)
    BY <1>1, <2>1 DEF MachineInv, SameMachine
  <2> QED BY <1>4, <1>6, <1>7, <1>10, <1>13, <2>2 DEF Sound, Kept, Preserved
<1>15. /\ UNCHANGED <<pc, restartVars, shutdownVars, closed, remoteCredentialReceived>>
       /\ agentStartGathering' = TRUE
  BY DEF iceAgentStartGathering
<1>16. agentStartGathering' \in BOOLEAN
  BY <1>15, Zenon
<1>17. RestType' /\ TimerInv'
  BY <1>1, <1>2, <1>14, <1>15, <1>16 DEF RestType, TimerInv, restartVars, shutdownVars
<1>18. generation' = generation /\ shutdownPhase' = "none"
  BY <1>2, <1>15 DEF restartVars, shutdownVars
<1> QED BY <1>14, <1>17, <1>18, IceJoin DEF ListInv

\* A remote candidate is added and paired.
LEMMA RemoteKept ==
  ASSUME NEW a \in Agent, NEW g, NEW r \in Remotes
  PROVE  LET b == createIceCandidatePairs([a EXCEPT !.remoteCandidates = @ \cup {r}],
                                          a.localCandidates, {r}) IN
         Kept(a, b, g, FALSE) /\ b.triggeredCheckQueue = a.triggeredCheckQueue
<1> DEFINE s == [a EXCEPT !.remoteCandidates = @ \cup {r}]
<1>1. /\ s \in Agent /\ SameMachine(a, s) /\ SameLists(a, s) /\ s.handles = a.handles
      /\ s.cand = a.cand /\ s.triggeredCheckQueue = a.triggeredCheckQueue
  BY ZenonT(60) DEF Agent, SameMachine, SameLists
<1> HIDE DEF s
<1>2. Kept(a, s, g, FALSE)
  BY <1>1, AsideKept
<1>3. a.localCandidates \in SUBSET s.localCandidates /\ {r} \in SUBSET Remotes
  BY <1>1 DEF SameLists
<1> DEFINE b == createIceCandidatePairs(s, a.localCandidates, {r})
<1>4. Kept(s, b, g, FALSE) /\ b.triggeredCheckQueue = s.triggeredCheckQueue
  BY <1>1, <1>3, CreateKept
<1> HIDE DEF b
<1>5. Kept(a, b, g, FALSE) /\ b.triggeredCheckQueue = a.triggeredCheckQueue
  BY <1>1, <1>2, <1>4, KeptTransitive
<1> QED BY <1>5 DEF b, s

LEMMA AddRemoteStep ==
  ASSUME IceInv, NEW r \in Remotes, iceAgentAddRemoteCandidate(r)
  PROVE  IceInv'
<1>1. ag \in Agent /\ closed \subseteq Locals
  BY IceParts DEF RestType
<1>2. Kept(ag, ag', generation, FALSE)
  BY <1>1, RemoteKept DEF iceAgentAddRemoteCandidate
<1>3. Kept(ag, ag', generation, shutdownPhase = "done")
  BY <1>2 DEF Kept, Preserved, ListInv, iceAgentAddRemoteCandidate
<1> QED BY <1>1, <1>3, KeptFinish DEF iceAgentAddRemoteCandidate

LEMMA PairFails ==
  ASSUME NEW a \in Agent, NEW p \in Pairs, NEW s \in PairStates
  PROVE  LET b == [a EXCEPT !.pairState[p] = s] IN
         /\ b \in Agent /\ SameMachine(a, b) /\ SameLists(a, b) /\ b.handles = a.handles
         /\ b.cand = a.cand /\ b.triggeredCheckQueue = a.triggeredCheckQueue
BY DEF Agent, SameMachine, SameLists, PairStates

LEMMA SendPacketStep ==
  ASSUME IceInv, iceAgentSendPacket
  PROVE  IceInv'
<1> DEFINE a == IF ag.pairState[ag.data] = "FREED" THEN ag
                ELSE [ag EXCEPT !.pairState[ag.data] = "FAILED"]
<1>1. ag \in Agent /\ closed \subseteq Locals /\ ag.data \in Pairs
  BY IceParts DEF RestType, iceAgentSendPacket, Agent
<1>2. /\ a \in Agent /\ SameMachine(ag, a) /\ SameLists(ag, a) /\ a.handles = ag.handles
      /\ a.cand = ag.cand /\ a.triggeredCheckQueue = ag.triggeredCheckQueue
  <2>1. CASE ag.pairState[ag.data] = "FREED"
    BY <1>1, <2>1 DEF SameMachine, SameLists
  <2>2. CASE ag.pairState[ag.data] # "FREED"
    BY <1>1, <2>2, PairFails DEF PairStates
  <2> QED BY <2>1, <2>2
<1>3. ag' = iceAgentFatalError(a)
  BY DEF iceAgentSendPacket
<1> HIDE DEF a
<1>4. /\ ag' \in Agent /\ SameMachine(a, ag') /\ SameLists(a, ag') /\ ag'.handles = a.handles
      /\ ag'.cand = a.cand /\ ag'.triggeredCheckQueue = a.triggeredCheckQueue
  BY <1>2, <1>3, ZenonT(60) DEF iceAgentFatalError, Agent, SameMachine, SameLists
<1>5. Kept(a, ag', generation, shutdownPhase = "done") /\ Kept(ag, a, generation, shutdownPhase = "done")
  BY <1>2, <1>4, AsideKept
<1>6. Kept(ag, ag', generation, shutdownPhase = "done")
  BY <1>5, KeptTransitive
<1> QED BY <1>1, <1>6, KeptFinish DEF iceAgentSendPacket

\* A restart forgets the candidates and the pairs; what it keeps is from now
\* on of an earlier session.
LEMMA ClearsKeep ==
  ASSUME NEW a \in Agent, NEW g \in Nat, MachineInv(a), ListInv(a, g, FALSE), DataInv(a, g)
  PROVE  LET b == RestartClears(a) IN
         /\ b \in Agent /\ MachineInv(b) /\ ListInv(b, g + 1, FALSE) /\ DataInv(b, g + 1)
         /\ b.handles = {} /\ b.localCandidates = {} /\ b.data = a.data /\ b.deferred = a.deferred
         /\ b.data # NoPair => GenOf(b.data) < g + 1
<1> DEFINE s == Stop(a, a.localCandidates)
           f == FreePairs(s, a.iceCandidatePairs \ {a.data})
           m == [f EXCEPT !.restart = TRUE, !.handles = {}, !.iceAgentStatus = "OK", !.lastData = "never",
                          !.stopGathering = FALSE]
           b == [m EXCEPT !.localCandidates = {}, !.iceCandidatePairs = {}]
<1>1. /\ s \in Agent /\ SameMachine(a, s) /\ s.data = a.data /\ s.deferred = a.deferred
      /\ \A l \in Locals : s.turn[l] \in Leaving => a.turn[l] \in Leaving \/ Kind(l) = "relay"
  BY StopFields
<1> HIDE DEF s
<1>2. f \in Agent /\ SameMachine(s, f) /\ SameLists(s, f)
  BY <1>1, FreePairsFields
<1>3. RestartClears(a) = [f EXCEPT !.restart = TRUE, !.handles = {}, !.iceAgentStatus = "OK",
                            !.lastData = "never", !.stopGathering = FALSE,
                            !.localCandidates = {}, !.iceCandidatePairs = {}]
  BY DEF RestartClears, f, s
<1> HIDE DEF f
<1>4. m \in Agent /\ m.handles = {}
  BY <1>2, ZenonT(60) DEF Agent
<1>5. SameMachine(f, m) /\ SameLists(f, m)
  BY <1>2 DEF Agent, SameMachine, SameLists
<1>6. RestartClears(a) = b
  BY <1>2, <1>3 DEF Agent
<1> HIDE DEF m
<1>7. b \in Agent /\ b.localCandidates = {} /\ b.iceCandidatePairs = {} /\ b.handles = {}
  BY <1>4 DEF Agent
<1>8. SameMachine(m, b) /\ b.data = m.data /\ b.deferred = m.deferred /\ b.turn = m.turn
  BY <1>4 DEF Agent, SameMachine
<1> HIDE DEF b
<1>9. SameMachine(a, b) /\ b.data = a.data /\ b.deferred = a.deferred /\ b.turn = s.turn
  BY <1>1, <1>2, <1>5, <1>8 DEF SameMachine, SameLists
<1>10. ListInv(b, g + 1, FALSE)
  BY <1>1, <1>7, <1>9 DEF ListInv
<1>11. /\ a.data # NoPair => GenOf(a.data) \in Nat
       /\ a.deferred # NoPair => GenOf(a.deferred) \in Nat
  BY DEF Agent, Pairs, Locals, GenOf, Gen, LocalOf
<1>12. DataInv(b, g + 1) /\ (b.data # NoPair => GenOf(b.data) < g + 1)
  BY <1>9, <1>11 DEF DataInv
<1>13. MachineInv(b)
  BY <1>9 DEF MachineInv, SameMachine
<1> QED BY <1>6, <1>7, <1>9, <1>10, <1>12, <1>13

LEMMA RestartBeginsStep ==
  ASSUME IceInv, RestartBegins
  PROVE  IceInv'
<1>1. /\ ag \in Agent /\ RestType /\ TimerInv /\ MachineInv(ag)
      /\ ListInv(ag, generation, shutdownPhase = "done") /\ DataInv(ag, generation)
      /\ generation \in Nat
  BY IceParts
<1>2. /\ shutdownPhase = "none" /\ restartPhase' = "sleeping" /\ generation' = generation + 1 /\ pc = "idle"
      /\ generation < MaxRestarts /\ oldLocals' = ag.localCandidates /\ ag' = RestartClears(ag)
      /\ UNCHANGED <<pc, shutdownVars, closed, sessionVars>>
  BY DEF RestartBegins, AppMayCall
<1>3. ListInv(ag, generation, FALSE)
  BY <1>1, <1>2 DEF ListInv
<1>4. /\ ag' \in Agent /\ MachineInv(ag') /\ ListInv(ag', generation', FALSE) /\ DataInv(ag', generation')
      /\ ag'.handles = {} /\ ag'.localCandidates = {} /\ (ag'.data # NoPair => GenOf(ag'.data) < generation')
  BY <1>1, <1>2, <1>3, ClearsKeep
<1>5. RestType'
  BY <1>1, <1>2, IceAssumption DEF RestType, Agent, shutdownVars, sessionVars
<1>6. TimerInv'
  BY <1>1, <1>2, <1>4 DEF TimerInv, shutdownVars
<1> QED BY <1>2, <1>4, <1>5, <1>6, IceJoin DEF ListInv, shutdownVars

LEMMA FreesKeep ==
  ASSUME NEW a \in Agent, NEW g \in Nat, NEW S, MachineInv(a), ListInv(a, g, FALSE), DataInv(a, g),
         a.localCandidates = {}, a.data # NoPair => GenOf(a.data) < g
  PROVE  LET b == RestartFrees(a, S) IN
         /\ b \in Agent /\ MachineInv(b) /\ ListInv(b, g, FALSE) /\ DataInv(b, g) /\ QueueInv(b)
         /\ b.handles = {} /\ b.deferred = a.deferred
<1> DEFINE f == FreeLocals(a, S)
           m == [f EXCEPT !.triggeredCheckQueue = <<>>, !.handles = {}]
           e == [m EXCEPT !.detectedDisconnection = FALSE]
           n == [e EXCEPT !.iceAgentState = "NEW"]
           b == [n EXCEPT !.sm = "NEW"]
<1>1. /\ f \in Agent /\ SameMachine(a, f) /\ f.localCandidates = a.localCandidates
      /\ f.iceCandidatePairs = a.iceCandidatePairs /\ f.data = a.data /\ f.deferred = a.deferred
      /\ \A l \in Locals : f.turn[l] \in Leaving => a.turn[l] \in Leaving
  BY FreeLocalsFields
<1>2. RestartFrees(a, S) = [f EXCEPT !.triggeredCheckQueue = <<>>, !.handles = {},
                              !.detectedDisconnection = FALSE, !.iceAgentState = "NEW", !.sm = "NEW"]
  BY DEF RestartFrees
<1> HIDE DEF f
<1>3. RestartFrees(a, S) = b
  BY <1>1, <1>2 DEF Agent
<1>4. m \in Agent /\ m.handles = {} /\ m.triggeredCheckQueue = <<>>
  <2>1. <<>> \in {q \in Seq(Pairs) : Len(q) <= MaxTriggered}
    BY IceAssumption
  <2> QED BY <1>1, <2>1 DEF Agent
<1>5. SameMachine(f, m) /\ SameLists(f, m)
  BY <1>1 DEF Agent, SameMachine, SameLists
<1> HIDE DEF m
<1>a. /\ e \in Agent /\ e.detectedDisconnection = FALSE /\ e.rejected = m.rejected /\ SameLists(m, e)
      /\ e.handles = {} /\ e.triggeredCheckQueue = <<>>
  BY <1>4, ZenonT(60) DEF Agent, SameLists
<1> HIDE DEF e
<1>b. /\ n \in Agent /\ n.iceAgentState = "NEW" /\ n.detectedDisconnection = FALSE
      /\ n.rejected = m.rejected /\ SameLists(m, n)
      /\ n.handles = {} /\ n.triggeredCheckQueue = <<>>
  BY <1>a, ZenonT(60) DEF Agent, SameLists, States
<1> HIDE DEF n
<1>6. /\ b \in Agent /\ b.detectedDisconnection = FALSE /\ b.iceAgentState = "NEW" /\ b.sm = "NEW"
      /\ b.rejected = m.rejected
  <2>1. b \in Agent
    BY <1>b, ZenonT(60) DEF Agent, States
  <2>2. b.detectedDisconnection = FALSE /\ b.iceAgentState = "NEW" /\ b.rejected = m.rejected
    BY <1>b DEF Agent
  <2>3. b.sm = "NEW"
    BY <1>b DEF Agent
  <2> QED BY <2>1, <2>2, <2>3
<1>7. SameLists(m, b) /\ b.handles = {} /\ b.triggeredCheckQueue = <<>>
  BY <1>b DEF Agent, SameLists
<1> HIDE DEF b
<1>8. a.iceCandidatePairs = {}
  BY DEF ListInv
<1>9. /\ b.localCandidates = {} /\ b.iceCandidatePairs = {} /\ b.data = a.data /\ b.deferred = a.deferred
      /\ b.turn = f.turn /\ b.rejected = a.rejected
  BY <1>1, <1>5, <1>6, <1>7, <1>8 DEF SameMachine, SameLists
<1>10. ListInv(b, g, FALSE)
  BY <1>1, <1>9 DEF ListInv
<1>11. MachineInv(b) /\ QueueInv(b) /\ DataInv(b, g)
  BY <1>6, <1>7, <1>9 DEF MachineInv, QueueInv, DataInv
<1> QED BY <1>3, <1>6, <1>7, <1>9, <1>10, <1>11

LEMMA RestartEndsStep ==
  ASSUME IceInv, RestartEnds
  PROVE  IceInv'
<1>1. /\ ag \in Agent /\ RestType /\ TimerInv /\ MachineInv(ag)
      /\ ListInv(ag, generation, shutdownPhase = "done") /\ DataInv(ag, generation)
      /\ generation \in Nat
  BY IceParts
<1>2. /\ restartPhase = "sleeping" /\ restartPhase' = "none" /\ oldLocals' = {}
      /\ UNCHANGED <<pc, generation, shutdownVars, closed>>
      /\ remoteCredentialReceived' = FALSE /\ agentStartGathering' = FALSE
  BY DEF RestartEnds
<1>3. /\ pc = "idle" /\ shutdownPhase = "none" /\ ag.localCandidates = {}
      /\ ag.data # NoPair => GenOf(ag.data) < generation
  BY <1>1, <1>2 DEF TimerInv
<1>4. ListInv(ag, generation, FALSE)
  BY <1>1, <1>3 DEF ListInv
<1>5. /\ ag' \in Agent /\ MachineInv(ag') /\ ListInv(ag', generation, FALSE) /\ DataInv(ag', generation)
      /\ QueueInv(ag') /\ ag'.handles = {} /\ ag'.deferred = ag.deferred
  BY <1>1, <1>3, <1>4, FreesKeep DEF RestartEnds
<1>6. remoteCredentialReceived' \in BOOLEAN /\ agentStartGathering' \in BOOLEAN
  BY <1>2, Zenon
<1>7. RestType'
  BY <1>1, <1>2, <1>6 DEF RestType, shutdownVars
<1>8. TimerInv'
  BY <1>1, <1>2, <1>3, <1>5 DEF TimerInv, shutdownVars
<1> QED BY <1>2, <1>3, <1>5, <1>7, <1>8, IceJoin DEF ListInv, shutdownVars

LEMMA ShutdownBeginsStep ==
  ASSUME IceInv, ShutdownBegins
  PROVE  IceInv'
<1>1. /\ ag \in Agent /\ RestType /\ TimerInv /\ MachineInv(ag)
      /\ ListInv(ag, generation, shutdownPhase = "done")
      /\ (restartPhase = "none" => QueueInv(ag)) /\ DataInv(ag, generation)
  BY IceParts
<1>2. /\ shutdownPhase = "none" /\ restartPhase = "none" /\ shutdownPhase' = "cancelling"
      /\ captured' = ag.handles /\ ag' = [ag EXCEPT !.handles = {}]
      /\ UNCHANGED <<pc, restartVars, closed, sessionVars>>
  BY DEF ShutdownBegins, AppMayCall
<1>3. /\ ag' \in Agent /\ SameMachine(ag, ag') /\ SameLists(ag, ag')
      /\ ag'.cand = ag.cand /\ ag'.triggeredCheckQueue = ag.triggeredCheckQueue /\ ag'.handles = {}
  BY <1>1, <1>2, HandlesFields
<1>4. Preserved(ag, ag', generation, shutdownPhase = "done")
  BY <1>3, AsidePreserved
<1>5. RestType'
  BY <1>1, <1>2 DEF RestType, Agent, restartVars, sessionVars
<1>6. TimerInv'
  BY <1>1, <1>2, <1>3, <1>4 DEF TimerInv, Preserved, restartVars
<1>7. ListInv(ag', generation', shutdownPhase' = "done")
  BY <1>1, <1>2, <1>4 DEF Preserved, ListInv, restartVars
<1> QED BY <1>1, <1>2, <1>4, <1>5, <1>6, <1>7, IceJoin DEF Preserved, restartVars

LEMMA ShutdownEndsStep ==
  ASSUME IceInv, ShutdownEnds
  PROVE  IceInv'
<1>1. /\ ag \in Agent /\ RestType /\ TimerInv /\ MachineInv(ag)
      /\ ListInv(ag, generation, shutdownPhase = "done")
      /\ (restartPhase = "none" => QueueInv(ag)) /\ DataInv(ag, generation)
  BY IceParts
<1>2. /\ shutdownPhase = "cancelling" /\ pc = "idle" /\ shutdownPhase' = "done" /\ captured' = {}
      /\ ag' = Stop(ag, ag.localCandidates)
      /\ closed' = closed \cup {l \in ag.localCandidates : Kind(l) = "host"}
      /\ UNCHANGED <<pc, restartVars, sessionVars>>
  BY DEF ShutdownEnds
<1>3. /\ ag' \in Agent /\ SameMachine(ag, ag') /\ ag'.handles = ag.handles
      /\ ag'.localCandidates = ag.localCandidates /\ ag'.iceCandidatePairs = ag.iceCandidatePairs
      /\ ag'.data = ag.data /\ ag'.deferred = ag.deferred /\ ag'.cand = ag.cand
      /\ ag'.triggeredCheckQueue = ag.triggeredCheckQueue
      /\ \A l \in Locals : ag'.turn[l] \in Leaving => ag.turn[l] \in Leaving \/ Kind(l) = "relay"
  BY <1>1, <1>2, StopFields
<1>4. restartPhase = "none" /\ generation' = generation /\ restartPhase' = "none"
  BY <1>1, <1>2 DEF TimerInv, RestType, restartVars
<1>5. RestType'
  BY <1>1, <1>2 DEF RestType, Agent, restartVars, sessionVars
<1>6. TimerInv'
  BY <1>1, <1>2, <1>3, <1>4 DEF TimerInv
<1>7. ListInv(ag', generation', shutdownPhase' = "done")
  BY <1>1, <1>2, <1>3, <1>4 DEF ListInv
<1>8. MachineInv(ag') /\ QueueInv(ag') /\ DataInv(ag', generation')
  BY <1>1, <1>3, <1>4 DEF MachineInv, QueueInv, DataInv, SameMachine
<1> QED BY <1>3, <1>5, <1>6, <1>7, <1>8, IceJoin

-----------------------------------------------------------------------------
(* The listener thread and the environment                                 *)

LEMMA ReceivesKept ==
  ASSUME NEW a \in Agent, NEW g, NEW over
  PROVE  LET b == Receives(a) IN
         /\ Kept(a, b, g, over) /\ b \in Agent /\ b.triggeredCheckQueue = a.triggeredCheckQueue
         /\ b.localCandidates = a.localCandidates
<1> DEFINE b == Receives(a)
<1>1. /\ b \in Agent /\ SameMachine(a, b) /\ SameLists(a, b) /\ b.handles = a.handles
      /\ b.cand = a.cand /\ b.triggeredCheckQueue = a.triggeredCheckQueue
  BY DEF Receives, Agent, SameMachine, SameLists
<1> HIDE DEF b
<1> QED BY <1>1, AsideKept DEF b, SameLists

LEMMA DataStep ==
  ASSUME IceInv, ReceiveData
  PROVE  IceInv'
<1>1. ag \in Agent /\ closed \subseteq Locals
  BY IceParts DEF RestType
<1>2. Kept(ag, ag', generation, shutdownPhase = "done")
  BY <1>1, ReceivesKept DEF ReceiveData
<1> QED BY <1>1, <1>2, KeptFinish DEF ReceiveData

LEMMA ResponseStep ==
  ASSUME IceInv, NEW p \in Pairs, ReceiveResponse(p)
  PROVE  IceInv'
<1> DEFINE a == Receives(ag)
<1>1. ag \in Agent /\ closed \subseteq Locals
  BY IceParts DEF RestType
<1>2. Kept(ag, a, generation, shutdownPhase = "done") /\ a \in Agent
  BY <1>1, ReceivesKept
<1>3. ag' = SetPairs(a, {p}, "SUCCEEDED")
  BY DEF ReceiveResponse
<1> HIDE DEF a
<1>4. Checked(a, ag')
  BY <1>2, <1>3, SetPairsChecked DEF PairStates
<1>5. Kept(a, ag', generation, shutdownPhase = "done")
  BY <1>2, <1>4, CheckedKept
<1>6. Kept(ag, ag', generation, shutdownPhase = "done")
  BY <1>2, <1>5, KeptTransitive
<1> QED BY <1>1, <1>6, KeptFinish DEF ReceiveResponse

\* Sending leaves the triggered checks alone.
LEMMA SendQueue ==
  ASSUME NEW a \in Agent, NEW L
  PROVE  iceAgentSendStunPacket(a, L).triggeredCheckQueue = a.triggeredCheckQueue
<1> DEFINE b == SetLocals(a, L \cap closed, "INVALID")
           S == {p \in b.iceCandidatePairs : b.cand[LocalOf(p)] # "VALID"}
<1>1. b \in Agent /\ b.triggeredCheckQueue = a.triggeredCheckQueue
  BY DEF SetLocals, Agent
<1> HIDE DEF b
<1>2. SetPairs(b, S, "FAILED").triggeredCheckQueue = b.triggeredCheckQueue
  BY <1>1, SetPairsFields DEF PairStates
<1>3. iceAgentInvalidateCandidatePair(b) = SetPairs(b, S, "FAILED")
  BY DEF iceAgentInvalidateCandidatePair
<1> HIDE DEF S
<1>4. iceAgentSendStunPacket(a, L) \in {a, iceAgentInvalidateCandidatePair(b)}
  BY DEF iceAgentSendStunPacket, b
<1> QED BY <1>1, <1>2, <1>3, <1>4

\* A binding request marks its pair, or puts it, a listed pair, in the queue.
LEMMA RequestKept ==
  ASSUME NEW a \in Agent, NEW g, NEW p \in a.iceCandidatePairs, NEW u \in BOOLEAN,
         Len(a.triggeredCheckQueue) < MaxTriggered
  PROVE  Kept(a, HandleRequest(a, p, u), g, FALSE)
<1> DEFINE n == [a EXCEPT !.nominated[p] = TRUE]
           b == IF u THEN n ELSE a
           q == Append(b.triggeredCheckQueue, p)
           e == [b EXCEPT !.triggeredCheckQueue = q]
<1>0. p \in Pairs /\ a.triggeredCheckQueue \in Seq(Pairs)
  BY DEF Agent
<1>1. /\ n \in Agent /\ SameMachine(a, n) /\ SameLists(a, n) /\ n.handles = a.handles
      /\ n.cand = a.cand /\ n.triggeredCheckQueue = a.triggeredCheckQueue
  <2> DEFINE m == [a.nominated EXCEPT ![p] = TRUE]
  <2>1. m \in [Pairs -> BOOLEAN]
    BY <1>0 DEF Agent
  <2>2. n = [a EXCEPT !.nominated = m]
    BY DEF Agent
  <2> HIDE DEF m, n
  <2> QED BY <2>1, <2>2, ZenonT(60) DEF Agent, SameMachine, SameLists
<1> HIDE DEF n
<1>2. /\ b \in Agent /\ SameMachine(a, b) /\ SameLists(a, b) /\ b.handles = a.handles
      /\ b.cand = a.cand /\ b.triggeredCheckQueue = a.triggeredCheckQueue
  BY <1>1 DEF SameMachine, SameLists
<1>3. HandleRequest(a, p, u) \in {SetPairs(b, {p}, "SUCCEEDED"), e, b}
  BY DEF HandleRequest, n
<1> HIDE DEF b
<1>4. Kept(a, b, g, FALSE)
  BY <1>2, AsideKept
<1>5. Kept(b, SetPairs(b, {p}, "SUCCEEDED"), g, FALSE)
  BY <1>2, SetPairsChecked, CheckedKept DEF PairStates
<1>6. q \in Seq(Pairs) /\ Len(q) = Len(a.triggeredCheckQueue) + 1 /\ Len(a.triggeredCheckQueue) \in Nat
  BY <1>0, <1>2
<1>7. \A i \in DOMAIN q : q[i] = p \/ \E j \in DOMAIN a.triggeredCheckQueue : q[i] = a.triggeredCheckQueue[j]
  BY <1>0, <1>2
<1> HIDE DEF q
<1>8. q \in {z \in Seq(Pairs) : Len(z) <= MaxTriggered}
  BY <1>6, IceAssumption
<1>9. /\ e \in Agent /\ SameMachine(b, e) /\ SameLists(b, e) /\ e.handles = b.handles
      /\ e.cand = b.cand /\ e.triggeredCheckQueue = q
  BY <1>2, <1>8 DEF Agent, SameMachine, SameLists
<1> HIDE DEF e
<1>10. Kept(b, e, g, FALSE)
  <2>1. QueueInv(b) => QueueInv(e)
    BY <1>2, <1>7, <1>9 DEF QueueInv, SameMachine, SameLists
  <2>2. /\ MachineInv(b) => MachineInv(e)
        /\ ListInv(b, g, FALSE) => ListInv(e, g, FALSE)
        /\ DataInv(b, g) => DataInv(e, g)
    BY <1>9 DEF MachineInv, ListInv, DataInv, SameMachine, SameLists
  <2> QED BY <1>9, <2>1, <2>2 DEF Kept, Preserved, SameLists
<1>11. Kept(a, SetPairs(b, {p}, "SUCCEEDED"), g, FALSE) /\ Kept(a, e, g, FALSE)
  BY <1>4, <1>5, <1>10, KeptTransitive
<1> QED BY <1>3, <1>4, <1>11

LEMMA RequestStep ==
  ASSUME IceInv, NEW l \in Locals, NEW r \in Remotes, NEW u \in BOOLEAN, ReceiveRequest(l, r, u)
  PROVE  IceInv'
<1> DEFINE p == <<l, r>>
           a == Receives(ag)
           b == iceAgentCheckPeerReflexiveCandidate(a, r)
           c == iceAgentSendStunPacket(b, {l})
<1>1. ag \in Agent /\ closed \subseteq Locals
  BY IceParts DEF RestType
<1>2. /\ ag' = IF p \in c.iceCandidatePairs /\ c.pairState[p] # "FAILED" THEN HandleRequest(c, p, u) ELSE c
      /\ shutdownPhase # "done" /\ Len(ag.triggeredCheckQueue) < MaxTriggered
      /\ UNCHANGED <<pc, restartVars, shutdownVars, closed, sessionVars>>
  BY DEF ReceiveRequest, MayReceive
<1>3. /\ Kept(ag, a, generation, FALSE) /\ a \in Agent /\ a.triggeredCheckQueue = ag.triggeredCheckQueue
  BY <1>1, ReceivesKept
<1> HIDE DEF a
<1>4. Kept(a, b, generation, FALSE) /\ b.triggeredCheckQueue = a.triggeredCheckQueue
  <2>1. CASE b = a
    BY <1>3, <2>1, CheckedReflexive, CheckedKept
  <2>2. CASE b # a
    BY <1>3, <2>2, RemoteKept DEF iceAgentCheckPeerReflexiveCandidate
  <2> QED BY <2>1, <2>2
<1> HIDE DEF b
<1>5. b \in Agent
  BY <1>4 DEF Kept, Preserved
<1>6. Checked(b, c) /\ c.triggeredCheckQueue = b.triggeredCheckQueue
  BY <1>5, SendChecked, SendQueue
<1> HIDE DEF c
<1>7. c \in Agent /\ Kept(b, c, generation, FALSE)
  BY <1>5, <1>6, CheckedKept DEF Checked
<1>8. Kept(c, ag', generation, FALSE)
  <2>1. CASE p \in c.iceCandidatePairs /\ c.pairState[p] # "FAILED"
    BY <1>2, <1>3, <1>4, <1>6, <1>7, <2>1, RequestKept
  <2>2. CASE ~(p \in c.iceCandidatePairs /\ c.pairState[p] # "FAILED")
    BY <1>2, <1>7, <2>2, CheckedReflexive, CheckedKept
  <2> QED BY <2>1, <2>2
<1>9. Kept(ag, ag', generation, FALSE)
  BY <1>3, <1>4, <1>7, <1>8, KeptTransitive
<1>10. Kept(ag, ag', generation, shutdownPhase = "done")
  BY <1>2, <1>9 DEF Kept, Preserved, ListInv
<1> QED BY <1>1, <1>2, <1>10, KeptFinish

\* A TURN connection changes state; it does not begin to leave.
LEMMA TurnKept ==
  ASSUME NEW a \in Agent, NEW g, NEW over, NEW l \in Locals,
         NEW s \in {"active", "failed", "complete"}, s = "complete" => a.turn[l] = "stopping"
  PROVE  LET b == [a EXCEPT !.turn[l] = s] IN Kept(a, b, g, over) /\ b \in Agent
<1> DEFINE t == [a.turn EXCEPT ![l] = s]
           b == [a EXCEPT !.turn = t]
<1>1. b = [a EXCEPT !.turn[l] = s]
  BY DEF Agent
<1>2. t \in [Locals -> {"none", "allocating", "active", "failed", "stopping", "complete"}]
  BY DEF Agent
<1>3. \A k \in Locals : t[k] \in Leaving => a.turn[k] \in Leaving
  BY DEF Agent, Leaving
<1> HIDE DEF t
<1>4. b \in Agent /\ b.turn = t
  BY <1>2 DEF Agent
<1>5. /\ SameMachine(a, b) /\ b.handles = a.handles /\ b.cand = a.cand
      /\ b.triggeredCheckQueue = a.triggeredCheckQueue
      /\ b.localCandidates = a.localCandidates /\ b.iceCandidatePairs = a.iceCandidatePairs
      /\ b.data = a.data /\ b.deferred = a.deferred
  BY DEF Agent, SameMachine
<1> HIDE DEF b
<1>6. ListInv(a, g, over) => ListInv(b, g, over)
  <2>1. a.localCandidates \subseteq Locals /\ \A p \in a.iceCandidatePairs : LocalOf(p) \in Locals
    BY DEF Agent, Pairs, LocalOf
  <2> QED BY <1>3, <1>4, <1>5, <2>1 DEF ListInv
<1>7. (QueueInv(a) => QueueInv(b)) /\ (MachineInv(a) => MachineInv(b)) /\ (DataInv(a, g) => DataInv(b, g))
  BY <1>5 DEF QueueInv, MachineInv, DataInv, SameMachine
<1> QED BY <1>1, <1>4, <1>5, <1>6, <1>7 DEF Kept, Preserved

LEMMA TurnFailsStep ==
  ASSUME IceInv, NEW l \in Locals, turnStateFailedFn(l)
  PROVE  IceInv'
<1> DEFINE a == [ag EXCEPT !.turn[l] = "failed"]
           c == IF a.cand[l] = "NEW" THEN "INVALID" ELSE a.cand[l]
<1>1. ag \in Agent /\ closed \subseteq Locals
  BY IceParts DEF RestType
<1>2. Kept(ag, a, generation, shutdownPhase = "done") /\ a \in Agent
  BY <1>1, TurnKept
<1>3. ag' = [a EXCEPT !.cand[l] = c]
  BY DEF turnStateFailedFn, SetTurn
<1> HIDE DEF a
<1>4. Checked(a, ag')
  <2> DEFINE d == [a.cand EXCEPT ![l] = c]
  <2>1. d \in [Locals -> CandStates] /\ \A k \in Locals : d[k] \in {a.cand[k], "INVALID"}
    BY <1>2 DEF Agent, CandStates
  <2>2. ag' = [a EXCEPT !.cand = d]
    BY <1>2, <1>3 DEF Agent
  <2> HIDE DEF d
  <2>3. ag' \in Agent /\ ag'.cand = d
    BY <1>2, <2>1, <2>2, ZenonT(60) DEF Agent, CandStates
  <2>4. /\ SameMachine(a, ag') /\ SameLists(a, ag')
        /\ ag'.iceAgentStatus = a.iceAgentStatus /\ ag'.handles = a.handles
        /\ ag'.isLiteAgent = a.isLiteAgent /\ ag'.isControlling = a.isControlling
        /\ ag'.triggeredCheckQueue = a.triggeredCheckQueue
    BY <1>2, <2>2 DEF Agent, SameMachine, SameLists
  <2> QED BY <2>1, <2>3, <2>4 DEF Checked
<1>5. Kept(a, ag', generation, shutdownPhase = "done")
  BY <1>2, <1>4, CheckedKept
<1>6. Kept(ag, ag', generation, shutdownPhase = "done")
  BY <1>2, <1>5, KeptTransitive
<1> QED BY <1>1, <1>6, KeptFinish DEF turnStateFailedFn

LEMMA EnvironmentStep ==
  ASSUME IceInv, Environment
  PROVE  IceInv'
<1>1. ag \in Agent /\ closed \subseteq Locals
  BY IceParts DEF RestType
<1>2. PICK l \in Locals : \/ TurnObtainsAddress(l) \/ turnStateFailedFn(l)
                          \/ TurnShutdownCompletes(l) \/ SocketCloses(l)
  BY DEF Environment
<1>3. CASE TurnObtainsAddress(l)
  <2>1. Kept(ag, ag', generation, shutdownPhase = "done")
    BY <1>1, <1>3, TurnKept DEF TurnObtainsAddress, SetTurn
  <2> QED BY <1>1, <1>3, <2>1, KeptFinish DEF TurnObtainsAddress
<1>4. CASE turnStateFailedFn(l)
  BY <1>4, TurnFailsStep
<1>5. CASE TurnShutdownCompletes(l)
  <2>1. Kept(ag, ag', generation, shutdownPhase = "done")
    BY <1>1, <1>5, TurnKept DEF TurnShutdownCompletes, SetTurn
  <2> QED BY <1>1, <1>5, <2>1, KeptFinish DEF TurnShutdownCompletes
<1>6. CASE SocketCloses(l)
  <2>1. Kept(ag, ag', generation, shutdownPhase = "done") /\ closed' \subseteq Locals
    BY <1>1, <1>6, CheckedReflexive, CheckedKept DEF SocketCloses
  <2> QED BY <1>6, <2>1, KeptFinish DEF SocketCloses
<1> QED BY <1>2, <1>3, <1>4, <1>5, <1>6

-----------------------------------------------------------------------------
(* The theorems                                                            *)

LEMMA IceInit ==
  Init => IceInv
<1> SUFFICES ASSUME Init PROVE IceInv
  OBVIOUS
<1>1. PICK lite \in LiteModes :
        ag = [isLiteAgent |-> lite, sm |-> "NEW", iceAgentState |-> "NEW", iceAgentStatus |-> "OK",
              rejected |-> FALSE, notified |-> "NEW", handles |-> {},
              isControlling |-> FALSE, restart |-> FALSE, stopGathering |-> FALSE,
              localCandidates |-> {}, cand |-> [l \in Locals |-> "NONE"],
              turn |-> [l \in Locals |-> "none"], remoteCandidates |-> {},
              iceCandidatePairs |-> {}, pairState |-> [p \in Pairs |-> "NONE"],
              nominated |-> [p \in Pairs |-> FALSE],
              transactionIds |-> [p \in Pairs |-> FALSE], triggeredCheckQueue |-> <<>>,
              data |-> NoPair, deferred |-> NoPair,
              lastData |-> "never", detectedDisconnection |-> FALSE]
  BY DEF Init
<1>2. <<>> \in {q \in Seq(Pairs) : Len(q) <= MaxTriggered}
  BY IceAssumption
<1>3. [p \in Pairs |-> FALSE] \in [Pairs -> BOOLEAN]
  BY Zenon
<1>4. ag \in Agent
  BY <1>1, <1>2, <1>3 DEF Agent, States
<1>5. /\ pc = "idle" /\ generation = 0
      /\ restartPhase = "none" /\ oldLocals = {} /\ shutdownPhase = "none" /\ captured = {} /\ closed = {}
      /\ remoteCredentialReceived = FALSE /\ agentStartGathering = FALSE
  BY DEF Init
<1>6. remoteCredentialReceived \in BOOLEAN /\ agentStartGathering \in BOOLEAN
  BY <1>5, Zenon
<1>7. TypeOK
  BY <1>4, <1>5, <1>6, IceAssumption DEF TypeOK
<1>8. TimerInv
  BY <1>1, <1>5 DEF TimerInv
<1>9. ListInv(ag, generation, shutdownPhase = "done")
  BY <1>1, <1>5 DEF ListInv, Leaving
<1>10. MachineInv(ag) /\ QueueInv(ag) /\ DataInv(ag, generation)
  BY <1>1 DEF MachineInv, QueueInv, DataInv
<1> QED BY <1>7, <1>8, <1>9, <1>10 DEF IceInv

LEMMA IceStutter ==
  ASSUME IceInv, UNCHANGED vars
  PROVE  IceInv'
<1>1. ag \in Agent /\ closed \subseteq Locals
  BY IceParts DEF RestType
<1>2. ag' = ag /\ closed' = closed /\ UNCHANGED <<pc, restartVars, shutdownVars, sessionVars>>
  BY DEF vars, restartVars, shutdownVars, sessionVars
<1>3. Kept(ag, ag', generation, shutdownPhase = "done")
  BY <1>1, <1>2, CheckedReflexive, CheckedKept
<1> QED BY <1>1, <1>2, <1>3, KeptFinish

LEMMA IceStep ==
  IceInv /\ [Next]_vars => IceInv'
<1> SUFFICES ASSUME IceInv, [Next]_vars PROVE IceInv'
  OBVIOUS
<1>1. CASE Timer
  BY <1>1, TurnStep, CleanupStep, KeepAliveStep, GatherStep DEF Timer
<1>2. CASE Application
  BY <1>2, StartAgentStep, GatheringStep, AddRemoteStep, SendPacketStep, RestartBeginsStep,
     RestartEndsStep, ShutdownBeginsStep, ShutdownEndsStep DEF Application
<1>3. CASE Listener
  BY <1>3, DataStep, RequestStep, ResponseStep DEF Listener
<1>4. CASE Environment
  BY <1>4, EnvironmentStep
<1>5. CASE UNCHANGED vars
  BY <1>5, IceStutter
<1> QED BY <1>1, <1>2, <1>3, <1>4, <1>5 DEF Next

LEMMA IceInvariant ==
  Spec => []IceInv
BY IceInit, IceStep, PTL DEF Spec

(* The agent and its threads keep their types: in particular the queue of    *)
(* triggered checks stays within its bound and iceAgentState never becomes   *)
(* DISCONNECTED, the state that the state machine passes through.            *)
THEOREM TypeCorrect ==
  Spec => []TypeOK
<1>1. IceInv => TypeOK
  BY DEF IceInv
<1> QED BY IceInvariant, <1>1, PTL

(* No transition of iceAgentStateMachine is refused, and between two         *)
(* callbacks the application has last been told the state the agent is in:   *)
(* across loss and recovery of the connection, restarts and errors, in       *)
(* whatever order packets and timers come.                                   *)
THEOREM StaysInStep ==
  Spec => []MachineInStep
<1>1. IceInv => MachineInStep
  BY DEF IceInv, MachineInv, MachineInStep, TransitionsAccepted, NotifiedStateIsCurrent
<1> QED BY IceInvariant, <1>1, PTL

(* Nothing the agent uses refers to a candidate or a pair that it has freed  *)
(* or that the deferred clean-up is about to free, for any number of         *)
(* candidates and restarts: listed candidates are of the present session,    *)
(* what is kept from before a restart is of an earlier one.                  *)
THEOREM NothingLeftDangling ==
  Spec => []NothingDangles
<1>1. IceInv => NothingDangles
  <2> SUFFICES ASSUME IceInv PROVE NothingDangles
    OBVIOUS
  <2>1. /\ ag \in Agent /\ RestType /\ TimerInv
        /\ ListInv(ag, generation, shutdownPhase = "done")
        /\ (restartPhase = "none" => QueueInv(ag)) /\ DataInv(ag, generation) /\ generation \in Nat
    BY IceParts
  <2>2. PairsHaveLocals
    BY <2>1 DEF PairsHaveLocals, ListInv
  <2>3. ChecksOnListedPairs
    BY <2>1 DEF ChecksOnListedPairs, QueueInv, TimerInv, RestType, armed
  <2>4. DeferredIsUnused
    <3> SUFFICES ASSUME ag.deferred # NoPair PROVE ag.data # ag.deferred
                   /\ LocalOf(ag.deferred) \notin ag.localCandidates
                   /\ ag.deferred \notin ag.iceCandidatePairs
      BY DEF DeferredIsUnused
    <3>1. GenOf(ag.deferred) < generation /\ ag.data # ag.deferred
      BY <2>1 DEF DataInv
    <3>2. LocalOf(ag.deferred) \notin ag.localCandidates
      BY <2>1, <3>1 DEF ListInv, GenOf
    <3> QED BY <2>1, <3>1, <3>2 DEF ListInv
  <2> QED BY <2>2, <2>3, <2>4 DEF NothingDangles
<1> QED BY IceInvariant, <1>1, PTL

(* Timers that iceAgentRestart or iceAgentShutdown has cancelled stay off,   *)
(* though a step that was under way when the handles were taken may still    *)
(* add one: only the keep-alive timer, and only to a shutdown.               *)
THEOREM CancelledStayOff ==
  Spec => []CancelledTimersStayOff
<1>1. IceInv => CancelledTimersStayOff
  <2> SUFFICES ASSUME IceInv PROVE CancelledTimersStayOff
    OBVIOUS
  <2>1. TimerInv /\ ListInv(ag, generation, shutdownPhase = "done")
    BY IceParts
  <2>2. QuietRestart
    BY <2>1 DEF QuietRestart, TimerInv, ListInv, armed
  <2>3. ShutdownStopsTimers
    BY <2>1 DEF ShutdownStopsTimers, TimerInv, armed
  <2> QED BY <2>2, <2>3 DEF CancelledTimersStayOff
<1> QED BY IceInvariant, <1>1, PTL
=============================================================================
