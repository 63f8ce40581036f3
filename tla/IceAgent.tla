------------------------------ MODULE IceAgent ------------------------------
(***************************************************************************)
(* The ICE agent (src/src/source/Ice/IceAgent.c, IceAgentStateMachine.c):  *)
(* candidates, candidate pairs and their checks, nomination, the state     *)
(* machine, loss and recovery of the connection, ICE restart, shutdown.    *)
(*                                                                         *)
(* The struct IceAgent is one record, ag.  The state machine callbacks are *)
(* operators from one value of that record to the next, because one turn   *)
(* of the loop in stepIceAgentStateMachine runs several of them without    *)
(* releasing the lock; between two turns (pc = "again") any other thread   *)
(* may run.  Timer callbacks never overlap, and cancelling a timer waits   *)
(* for the callback in progress: both are promises of the timer queue.     *)
(*                                                                         *)
(* Abstractions.  A local candidate is the restart that created it and its *)
(* kind, a remote candidate is its priority.  A transaction id store is    *)
(* the question whether an answer to the pair's checks would be accepted.  *)
(* A deadline may have passed whenever the code compares it with the       *)
(* clock: late is the outcome of that comparison.  Server reflexive        *)
(* candidates, statistics and the texts of candidates are left out, and so *)
(* is the last bit of a pair's priority, which only separates a pair from  *)
(* its mirror image.                                                       *)
(***************************************************************************)
EXTENDS Integers, Sequences, FiniteSets

CONSTANTS
  Kinds,          \* kinds of local candidates gathered: "host", "relay"
  Remotes,        \* remote candidates, each named by its priority
  LiteModes,      \* values of isLiteAgent to consider
  KVS_ICE_MAX_REMOTE_CANDIDATE_COUNT,
  MaxRestarts,    \* bound: ICE restarts
  MaxTriggered,   \* bound: triggered checks that wait
  MaxClosed       \* bound: sockets that fail

ASSUME IceAssumption ==
  /\ Kinds \subseteq {"host", "relay"}
  /\ IsFiniteSet(Remotes) /\ Remotes \subseteq Nat
  /\ LiteModes \subseteq BOOLEAN
  /\ KVS_ICE_MAX_REMOTE_CANDIDATE_COUNT \in Nat
  /\ MaxRestarts \in Nat /\ MaxTriggered \in Nat /\ MaxClosed \in Nat

Locals == (0..MaxRestarts) \X Kinds
Pairs  == Locals \X Remotes
NoPair == <<>>
Kind(l)     == l[2]
LocalOf(p)  == p[1]
RemoteOf(p) == p[2]

States == {"NEW", "CHECK_CONNECTION", "CONNECTED", "NOMINATING", "READY",
           "DISCONNECTED", "FAILED"}
Checking == {"CHECK_CONNECTION", "CONNECTED", "NOMINATING"}

(* ICE_AGENT_STATE_MACHINE_STATES: who may be left for a state. *)
AcceptStates ==
  [NEW              |-> {"NEW"},
   CHECK_CONNECTION |-> {"NEW", "CHECK_CONNECTION"},
   CONNECTED        |-> {"CHECK_CONNECTION", "CONNECTED"},
   NOMINATING       |-> {"CONNECTED", "NOMINATING"},
   READY            |-> {"CONNECTED", "NOMINATING", "READY", "DISCONNECTED"},
   DISCONNECTED     |-> Checking \cup {"READY", "DISCONNECTED"},
   FAILED           |-> Checking \cup {"READY", "DISCONNECTED", "FAILED"}]

VARIABLES
  ag,             \* the fields of struct IceAgent that the state machine uses
  pc,             \* the timer thread inside iceAgentStateTransitionTimerCallback
  generation,     \* ICE restarts begun
  restartPhase,   \* the application inside iceAgentRestart
  oldLocals,      \* localCandidates[] of iceAgentRestart
  shutdownPhase,  \* the application inside iceAgentShutdown
  captured,       \* the timer handles iceAgentShutdown has taken
  closed,         \* local candidates whose socket is closed
  remoteCredentialReceived, agentStartGathering

vars == <<ag, pc, generation, restartPhase, oldLocals, shutdownPhase, captured, closed,
          remoteCredentialReceived, agentStartGathering>>

Timers == {"state", "keepAlive", "gather"}

(* The timers in the timer queue: those the agent knows, and those whose     *)
(* handles iceAgentShutdown has taken and not yet cancelled.                 *)
armed == ag.handles \cup captured

(* processStun is FALSE only while iceAgentRestart waits. *)
processStun == restartPhase = "none"

Agent ==
  [sm : States, iceAgentState : States \ {"DISCONNECTED"}, iceAgentStatus : {"OK", "ERR"},
   rejected : BOOLEAN, notified : States, handles : SUBSET Timers,
   isLiteAgent : LiteModes, isControlling : BOOLEAN, restart : BOOLEAN, stopGathering : BOOLEAN,
   localCandidates : SUBSET Locals,
   cand : [Locals -> {"NONE", "NEW", "VALID", "INVALID", "FREED"}],
   turn : [Locals -> {"none", "allocating", "active", "failed", "stopping", "complete"}],
   remoteCandidates : SUBSET Remotes,
   iceCandidatePairs : SUBSET Pairs,
   pairState : [Pairs -> {"NONE", "FROZEN", "WAITING", "IN_PROGRESS", "SUCCEEDED",
                          "FAILED", "FREED"}],
   nominated : [Pairs -> BOOLEAN], transactionIds : [Pairs -> BOOLEAN],
   triggeredCheckQueue : {q \in Seq(Pairs) : Len(q) <= MaxTriggered},
   data : Pairs \cup {NoPair}, deferred : Pairs \cup {NoPair},
   lastData : {"never", "fresh", "stale"}, detectedDisconnection : BOOLEAN]

TypeOK ==
  /\ ag \in Agent
  /\ pc \in {"idle", "again", "cleanup"}
  /\ captured \subseteq Timers
  /\ generation \in 0..MaxRestarts
  /\ restartPhase \in {"none", "sleeping"} /\ oldLocals \subseteq Locals
  /\ shutdownPhase \in {"none", "cancelling", "done"}
  /\ closed \subseteq Locals
  /\ remoteCredentialReceived \in BOOLEAN /\ agentStartGathering \in BOOLEAN

Init ==
  /\ \E lite \in LiteModes :
     ag = [isLiteAgent |-> lite, sm |-> "NEW", iceAgentState |-> "NEW", iceAgentStatus |-> "OK",
           rejected |-> FALSE, notified |-> "NEW", handles |-> {},
           isControlling |-> FALSE, restart |-> FALSE, stopGathering |-> FALSE,
           localCandidates |-> {}, cand |-> [l \in Locals |-> "NONE"],
           turn |-> [l \in Locals |-> "none"], remoteCandidates |-> {},
           iceCandidatePairs |-> {}, pairState |-> [p \in Pairs |-> "NONE"],
           nominated |-> [p \in Pairs |-> FALSE],
           transactionIds |-> [p \in Pairs |-> FALSE], triggeredCheckQueue |-> <<>>,
           data |-> NoPair, deferred |-> NoPair,
           lastData |-> "never", detectedDisconnection |-> FALSE]
  /\ pc = "idle" /\ generation = 0
  /\ restartPhase = "none" /\ oldLocals = {} /\ shutdownPhase = "none" /\ captured = {}
  /\ closed = {}
  /\ remoteCredentialReceived = FALSE /\ agentStartGathering = FALSE

(***************************************************************************)
(* Candidates and pairs                                                    *)
(***************************************************************************)
(* computeCandidatePriority: the order of the kinds is all that counts. *)
computeCandidatePriority(l) == IF Kind(l) = "host" THEN 4 ELSE 1

(* computeCandidatePairPriority, on priorities below 50. *)
computeCandidatePairPriority(p) ==
  LET G == computeCandidatePriority(LocalOf(p))
      D == RemoteOf(p)
  IN IF G < D THEN 100 * G + 2 * D ELSE 100 * D + 2 * G

(* The pair that a walk along the sorted list meets first. *)
First(S) ==
  CHOOSE p \in S : \A q \in S :
    computeCandidatePairPriority(q) <= computeCandidatePairPriority(p)

InState(a, S) == {p \in a.iceCandidatePairs : a.pairState[p] \in S}
Usable(a) == {p \in InState(a, {"SUCCEEDED"}) : a.nominated[p]}

SetPairs(a, S, s) ==
  [a EXCEPT !.pairState = [p \in Pairs |-> IF p \in S THEN s ELSE a.pairState[p]]]
SetLocals(a, S, s) ==
  [a EXCEPT !.cand = [l \in Locals |-> IF l \in S THEN s ELSE a.cand[l]]]
Stop(a, S) ==   \* turnConnectionShutdown(.., 0) of the relayed candidates in S
  [a EXCEPT !.turn = [l \in Locals |->
     IF l \in S /\ Kind(l) = "relay" /\ a.turn[l] # "complete" THEN "stopping"
     ELSE a.turn[l]]]

FreePairs(a, S) ==
  [SetPairs(a, S, "FREED") EXCEPT
     !.nominated = [p \in Pairs |-> p \notin S /\ @[p]],
     !.transactionIds = [p \in Pairs |-> p \notin S /\ @[p]]]
FreeLocals(a, S) ==
  [SetLocals(a, S, "FREED") EXCEPT
     !.turn = [l \in Locals |-> IF l \in S THEN "none" ELSE @[l]]]

(* createIceCandidatePairs and insertIceCandidatePair: valid candidates only. *)
createIceCandidatePairs(a, L, R) ==
  LET new == {l \in L : a.cand[l] = "VALID"} \X R
  IN [SetPairs(a, new, "WAITING") EXCEPT
        !.iceCandidatePairs = @ \cup new,
        !.nominated = [p \in Pairs |-> p \notin new /\ @[p]],
        !.transactionIds = [p \in Pairs |-> p \notin new /\ @[p]]]

iceAgentInvalidateCandidatePair(a) ==
  SetPairs(a, {p \in a.iceCandidatePairs : a.cand[LocalOf(p)] # "VALID"}, "FAILED")

(* iceAgentSendStunPacket from each candidate in L. *)
iceAgentSendStunPacket(a, L) ==
  IF L \cap closed = {} THEN a
  ELSE iceAgentInvalidateCandidatePair(SetLocals(a, L \cap closed, "INVALID"))

(* iceCandidatePairCheckConnection for each pair in S. *)
iceCandidatePairCheckConnection(a, S) ==
  iceAgentSendStunPacket(
    [a EXCEPT !.transactionIds = [p \in Pairs |-> p \in S \/ @[p]]],
    {LocalOf(p) : p \in S})

iceAgentCheckCandidatePairConnection(a) ==
  IF a.triggeredCheckQueue # <<>>
  THEN iceCandidatePairCheckConnection([a EXCEPT !.triggeredCheckQueue = Tail(@)],
                                       {Head(a.triggeredCheckQueue)})
  ELSE LET S == InState(a, {"WAITING", "IN_PROGRESS"})
       IN iceCandidatePairCheckConnection(SetPairs(a, S, "IN_PROGRESS"), S)

(* iceAgentFatalError, and what the state machine makes of an error. *)
iceAgentFatalError(a) == [a EXCEPT !.iceAgentStatus = "ERR"]

(***************************************************************************)
(* What each state does when it is entered and whenever it is polled       *)
(***************************************************************************)
iceAgentCheckConnectionStateSetup(a) ==
  SetPairs(a, a.iceCandidatePairs, "WAITING")

ExecuteCheckConnection(a) ==
  LET b == IF a.iceAgentState = "CHECK_CONNECTION" THEN a
           ELSE [iceAgentCheckConnectionStateSetup(a) EXCEPT
                   !.iceAgentState = "CHECK_CONNECTION"]
  IN IF b.isLiteAgent THEN b ELSE iceAgentCheckCandidatePairConnection(b)

(* The pair kept through a restart is put aside, then the first usable one   *)
(* carries the data.                                                         *)
iceAgentConnectedStateSetup(a) ==
  LET b == IF a.data = NoPair THEN a
           ELSE [a EXCEPT !.restart = FALSE, !.deferred = a.data, !.data = NoPair]
  IN [b EXCEPT !.data = IF Usable(b) # {} THEN First(Usable(b)) ELSE @,
               !.handles = @ \cup {"keepAlive"}]

ExecuteConnected(a) ==
  [iceAgentConnectedStateSetup(a) EXCEPT !.iceAgentState = "CONNECTED"]

iceAgentNominateCandidatePair(a) ==
  LET p == First(InState(a, {"SUCCEEDED"}))
      b == [a EXCEPT !.nominated[p] = TRUE, !.transactionIds[p] = FALSE]
  IN SetPairs(b, {q \in a.iceCandidatePairs : ~b.nominated[q]}, "FROZEN")

iceAgentSendCandidateNomination(a) ==
  iceCandidatePairCheckConnection(a, {p \in a.iceCandidatePairs : a.nominated[p]})

NominatingPoll(a) ==
  IF a.isLiteAgent THEN a
  ELSE IF a.isControlling THEN iceAgentSendCandidateNomination(a)
  ELSE iceAgentCheckCandidatePairConnection(a)

(* iceAgentNominatingStateSetup fails when no check has succeeded. *)
ExecuteNominating(a) ==
  IF a.iceAgentState = "NOMINATING" THEN NominatingPoll(a)
  ELSE IF a.isControlling /\ InState(a, {"SUCCEEDED"}) = {} THEN iceAgentFatalError(a)
  ELSE NominatingPoll(
         [(IF a.isControlling THEN iceAgentNominateCandidatePair(a) ELSE a) EXCEPT
            !.iceAgentState = "NOMINATING"])

(* The second half of iceAgentReadyStateSetup: drop what was not selected. *)
DropUnselected(a) ==
  LET others == a.localCandidates \ {LocalOf(a.data)}
      b == iceAgentInvalidateCandidatePair(SetLocals(Stop(a, others), others, "INVALID"))
      dead == InState(b, {"FAILED"})
  IN [FreePairs(b, dead) EXCEPT !.iceCandidatePairs = @ \ dead]

(* iceAgentReadyStateSetup; its first call needs the timer's handle. *)
iceAgentReadyStateSetup(a) ==
  IF "state" \notin a.handles \/ (a.data = NoPair /\ Usable(a) = {})
  THEN iceAgentFatalError(a)
  ELSE LET b == IF a.data # NoPair THEN a
                ELSE [a EXCEPT !.data = First(Usable(a)), !.stopGathering = TRUE]
       IN [DropUnselected(b) EXCEPT !.iceAgentState = "READY"]

(* The loop of executeReadyIceAgentState. *)
FreeTurnConnections(a) ==
  LET done == {l \in a.localCandidates : Kind(l) = "relay" /\ a.turn[l] = "complete"}
  IN [FreeLocals(a, done) EXCEPT !.localCandidates = @ \ done]

ExecuteReady(a) ==
  LET b == IF a.iceAgentState = "READY" THEN a ELSE iceAgentReadyStateSetup(a)
  IN IF b.iceAgentState = "READY" THEN FreeTurnConnections(b) ELSE b

ExecuteFailed(a) == [a EXCEPT !.iceAgentState = "FAILED"]

(***************************************************************************)
(* Where each state goes next: the getNextState functions.  The result is  *)
(* the next state and the agent, which the function may have changed.      *)
(***************************************************************************)
Failing(a) == <<"FAILED", iceAgentFatalError(a)>>

FromNew(a) == <<"CHECK_CONNECTION", a>>

FromCheckConnection(a, late) ==
  IF a.iceAgentStatus = "ERR" THEN Failing(a)
  ELSE IF InState(a, {"SUCCEEDED"}) # {} THEN <<"CONNECTED", a>>
  ELSE IF late THEN Failing(a)
  ELSE <<"CHECK_CONNECTION", a>>

FromConnected(a) ==
  IF a.iceAgentStatus = "ERR" THEN Failing(a) ELSE <<"NOMINATING", a>>

(* Mutant: nomination has no time limit. *)
NominatesForever(a, late) ==
  IF a.iceAgentStatus = "ERR" THEN Failing(a)
  ELSE IF Usable(a) # {} THEN <<"READY", a>>
  ELSE <<"NOMINATING", a>>

FromNominating(a, late) ==
  IF a.iceAgentStatus = "ERR" THEN Failing(a)
  ELSE IF Usable(a) # {} THEN <<"READY", a>>
  ELSE IF late THEN Failing(a)
  ELSE <<"NOMINATING", a>>

(* Mutant: the grace period has no end. *)
GraceNeverEnds(a, late) ==
  CASE ~a.detectedDisconnection /\ late /\ a.lastData # "never" ->
         <<"DISCONNECTED", [a EXCEPT !.lastData = "stale"]>>
    [] a.detectedDisconnection /\ a.lastData = "fresh" ->
         <<"READY", [a EXCEPT !.detectedDisconnection = FALSE, !.notified = a.iceAgentState]>>
    [] OTHER -> <<"READY", a>>

(* The error of iceAgentStateMachineCheckDisconnection leads to FAILED.      *)
iceAgentStateMachineCheckDisconnection(a, late) ==
  CASE ~a.detectedDisconnection /\ late /\ a.lastData # "never" ->
         <<"DISCONNECTED", [a EXCEPT !.lastData = "stale"]>>
    [] a.detectedDisconnection /\ a.lastData = "fresh" ->
         <<"READY", [a EXCEPT !.detectedDisconnection = FALSE, !.notified = a.iceAgentState]>>
    [] a.detectedDisconnection /\ a.lastData # "fresh" /\ late -> Failing(a)
    [] OTHER -> <<"READY", a>>

FromReady(a, late) ==
  IF a.iceAgentStatus = "ERR" THEN Failing(a)
  ELSE iceAgentStateMachineCheckDisconnection(a, late)

FromDisconnected(a) ==
  IF a.iceAgentStatus = "ERR" THEN Failing(a) ELSE <<a.iceAgentState, a>>

FromFailed(a) == <<"FAILED", a>>

(***************************************************************************)
(* stepStateMachine of the generic state machine                           *)
(***************************************************************************)
ExecuteOther(s, a) ==
  CASE s = "CHECK_CONNECTION" -> ExecuteCheckConnection(a)
    [] s = "CONNECTED"        -> ExecuteConnected(a)
    [] s = "NOMINATING"       -> ExecuteNominating(a)
    [] s = "READY"            -> ExecuteReady(a)
    [] s = "FAILED"           -> ExecuteFailed(a)

Reject(a) == [iceAgentFatalError(a) EXCEPT !.rejected = TRUE]

EnterOther(go) ==
  IF go[2].sm \in AcceptStates[go[1]]
  THEN ExecuteOther(go[1], [go[2] EXCEPT !.sm = go[1]])
  ELSE Reject(go[2])

(* Mutant: the state to return to is overwritten. *)
StoresDisconnected(a) ==
  [EnterOther(FromDisconnected([a EXCEPT !.detectedDisconnection = TRUE,
                                         !.notified = "DISCONNECTED"]))
     EXCEPT !.iceAgentState = "DISCONNECTED"]

(* Mutant: the loss of the connection is not reported. *)
DisconnectsSilently(a) ==
  EnterOther(FromDisconnected([a EXCEPT !.detectedDisconnection = TRUE]))

(* executeDisconnectedIceAgentState steps the machine once more, back into   *)
(* the state it came from.                                                   *)
ExecuteDisconnected(a) ==
  EnterOther(FromDisconnected([a EXCEPT !.detectedDisconnection = TRUE,
                                        !.notified = "DISCONNECTED"]))

From(a, late) ==
  CASE a.sm = "NEW"              -> FromNew(a)
    [] a.sm = "CHECK_CONNECTION" -> FromCheckConnection(a, late)
    [] a.sm = "CONNECTED"        -> FromConnected(a)
    [] a.sm = "NOMINATING"       -> FromNominating(a, late)
    [] a.sm = "READY"            -> FromReady(a, late)
    [] a.sm = "DISCONNECTED"     -> FromDisconnected(a)
    [] a.sm = "FAILED"           -> FromFailed(a)

Step(a, late) ==
  LET go == From(a, late)
  IN IF go[1] # "DISCONNECTED" THEN EnterOther(go)
     ELSE IF a.sm \in AcceptStates["DISCONNECTED"]
     THEN ExecuteDisconnected([go[2] EXCEPT !.sm = "DISCONNECTED"])
     ELSE Reject(a)

(***************************************************************************)
(* The timer thread                                                        *)
(***************************************************************************)
restartVars  == <<generation, restartPhase, oldLocals>>
shutdownVars == <<shutdownPhase, captured>>
sessionVars  == <<remoteCredentialReceived, agentStartGathering>>

(* One turn of the loop of stepIceAgentStateMachine. *)
stepIceAgentStateMachine(late) ==
  /\ pc = "again" \/ (pc = "idle" /\ "state" \in armed)
  /\ LET a == Step(ag, late)
         b == IF ~a.rejected /\ a.iceAgentStatus = "ERR" /\ a.iceAgentState # "FAILED"
              THEN Step(a, late) ELSE a
         changed == b.iceAgentState # ag.iceAgentState
     IN /\ ag' = [b EXCEPT !.notified = IF changed /\ ~b.rejected THEN b.iceAgentState ELSE @]
        /\ pc' = CASE b.rejected -> "idle"
                   [] ~b.rejected /\ changed -> "again"
                   [] ~b.rejected /\ ~changed /\ b.deferred # NoPair -> "cleanup"
                   [] OTHER -> "idle"
  /\ UNCHANGED <<restartVars, shutdownVars, closed, sessionVars>>

(* The end of iceAgentStateTransitionTimerCallback: the pair that carried    *)
(* the data before the restart is freed, its local candidate with it.        *)
DeferredCleanup ==
  /\ pc = "cleanup"
  /\ pc' = "idle"
  /\ ag' = [FreeLocals(FreePairs(ag, {ag.deferred}), {LocalOf(ag.deferred)})
              EXCEPT !.deferred = NoPair]
  /\ UNCHANGED <<restartVars, shutdownVars, closed, sessionVars>>

iceAgentSendKeepAliveTimerCallback ==
  /\ pc = "idle" /\ "keepAlive" \in armed
  /\ ag' = iceAgentSendStunPacket(ag, {LocalOf(p) : p \in InState(ag, {"SUCCEEDED"})})
  /\ UNCHANGED <<pc, restartVars, shutdownVars, closed, sessionVars>>

(* addedRelayCandidate is never set, so that a full agent gathers until the  *)
(* READY state stops it or the time is up.                                   *)
GatheringOver(late) ==
  \/ ag.stopGathering
  \/ ag.isLiteAgent /\ ag.localCandidates # {} /\ \A l \in ag.localCandidates : ag.cand[l] # "NEW"
  \/ late

iceAgentGatherCandidateTimerCallback(late) ==
  /\ pc = "idle" /\ "gather" \in armed
  /\ LET got == {l \in ag.localCandidates : ag.cand[l] = "NEW" /\ ag.turn[l] = "active"}
         a == createIceCandidatePairs(SetLocals(ag, got, "VALID"), got, ag.remoteCandidates)
     IN ag' = IF GatheringOver(late) THEN [a EXCEPT !.handles = @ \ {"gather"}] ELSE a
  /\ captured' = IF GatheringOver(late) THEN captured \ {"gather"} ELSE captured
  /\ UNCHANGED <<pc, restartVars, shutdownPhase, closed, sessionVars>>

(***************************************************************************)
(* The application                                                         *)
(***************************************************************************)
AppMayCall == restartPhase = "none" /\ shutdownPhase = "none"

iceAgentStartAgent(isControlling) ==
  /\ AppMayCall
  /\ ~remoteCredentialReceived /\ remoteCredentialReceived' = TRUE
  /\ ag' = [ag EXCEPT !.isControlling = IF ag.restart THEN @ ELSE isControlling,
                      !.handles = @ \cup {"state"}]
  /\ UNCHANGED <<pc, restartVars, shutdownVars, closed, agentStartGathering>>

NewLocals(kind) == {l \in Locals : l[1] = generation /\ Kind(l) = kind}

(* A host candidate is valid and paired at once. *)
iceAgentInitHostCandidate(a) ==
  LET new == NewLocals("host")
  IN createIceCandidatePairs([SetLocals(a, new, "VALID") EXCEPT !.localCandidates = @ \cup new],
                             new, a.remoteCandidates)

(* A relayed candidate starts its TURN connection and waits for an address;  *)
(* a lite agent has none.                                                    *)
iceAgentInitRelayCandidates(a) ==
  LET new == IF a.isLiteAgent THEN {} ELSE NewLocals("relay")
  IN [SetLocals(a, new, "NEW") EXCEPT
        !.localCandidates = @ \cup new,
        !.turn = [l \in Locals |-> IF l \in new THEN "allocating" ELSE @[l]]]

iceAgentStartGathering ==
  /\ AppMayCall
  /\ ~agentStartGathering /\ agentStartGathering' = TRUE
  /\ ag' = [iceAgentInitRelayCandidates(iceAgentInitHostCandidate(ag)) EXCEPT
              !.handles = @ \cup {"gather"}]
  /\ UNCHANGED <<pc, restartVars, shutdownVars, closed, remoteCredentialReceived>>

iceAgentAddRemoteCandidate(r) ==
  /\ shutdownPhase = "none"
  /\ r \notin ag.remoteCandidates
  /\ Cardinality(ag.remoteCandidates) < KVS_ICE_MAX_REMOTE_CANDIDATE_COUNT
  /\ ag' = createIceCandidatePairs([ag EXCEPT !.remoteCandidates = @ \cup {r}],
                                   ag.localCandidates, {r})
  /\ UNCHANGED <<pc, restartVars, shutdownVars, closed, sessionVars>>

(* iceAgentSendPacket changes the agent only when the socket turns out to be *)
(* closed.                                                                   *)
iceAgentSendPacket ==
  /\ shutdownPhase = "none"
  /\ ag.data # NoPair /\ ag.pairState[ag.data] \in {"SUCCEEDED", "FREED"}
  /\ LocalOf(ag.data) \in closed
  /\ ag' = iceAgentFatalError(IF ag.pairState[ag.data] = "FREED" THEN ag
                              ELSE [ag EXCEPT !.pairState[ag.data] = "FAILED"])
  /\ UNCHANGED <<pc, restartVars, shutdownVars, closed, sessionVars>>

(* iceAgentRestart empties the agent before its sleep ...                    *)
RestartClears(a) ==
  [FreePairs(Stop(a, a.localCandidates), a.iceCandidatePairs \ {a.data}) EXCEPT
     !.restart = TRUE, !.handles = {}, !.iceAgentStatus = "OK", !.lastData = "never",
     !.stopGathering = FALSE, !.localCandidates = {}, !.iceCandidatePairs = {}]

(* Mutant: the queue of triggered checks is not cleared. *)
RestartKeepsQueue(a, old) ==
  [FreeLocals(a, old) EXCEPT
     !.handles = {}, !.detectedDisconnection = FALSE,
     !.iceAgentState = "NEW", !.sm = "NEW"]

(* ... and frees the old candidates and resets the state machine after it.   *)
RestartFrees(a, old) ==
  [FreeLocals(a, old) EXCEPT
     !.triggeredCheckQueue = <<>>, !.handles = {}, !.detectedDisconnection = FALSE,
     !.iceAgentState = "NEW", !.sm = "NEW"]

(* Cancelling the timers waits for a callback in progress; a call during a   *)
(* restart does nothing.                                                     *)
RestartBegins ==
  /\ AppMayCall /\ ~ag.restart /\ pc = "idle" /\ generation < MaxRestarts
  /\ restartPhase' = "sleeping" /\ generation' = generation + 1
  /\ oldLocals' = ag.localCandidates
  /\ ag' = RestartClears(ag)
  /\ UNCHANGED <<pc, shutdownVars, closed, sessionVars>>

RestartEnds ==
  /\ restartPhase = "sleeping" /\ restartPhase' = "none"
  /\ ag' = RestartFrees(ag, {l \in oldLocals : ag.data = NoPair \/ l # LocalOf(ag.data)})
  /\ oldLocals' = {}
  /\ remoteCredentialReceived' = FALSE /\ agentStartGathering' = FALSE
  /\ UNCHANGED <<pc, generation, shutdownVars, closed>>

(* Mutant: the gathering timer is not cancelled. *)
ShutdownForgetsGathering ==
  /\ AppMayCall
  /\ shutdownPhase' = "cancelling"
  /\ captured' = ag.handles \ {"gather"}
  /\ ag' = [ag EXCEPT !.handles = @ \cap {"gather"}]
  /\ UNCHANGED <<pc, restartVars, closed, sessionVars>>

(* iceAgentShutdown takes the handles, then cancels the timers and closes    *)
(* the sockets.                                                              *)
ShutdownBegins ==
  /\ AppMayCall
  /\ shutdownPhase' = "cancelling"
  /\ captured' = ag.handles /\ ag' = [ag EXCEPT !.handles = {}]
  /\ UNCHANGED <<pc, restartVars, closed, sessionVars>>

ShutdownEnds ==
  /\ shutdownPhase = "cancelling" /\ pc = "idle"
  /\ shutdownPhase' = "done"
  /\ captured' = {}
  /\ ag' = Stop(ag, ag.localCandidates)
  /\ closed' = closed \cup {l \in ag.localCandidates : Kind(l) = "host"}
  /\ UNCHANGED <<pc, restartVars, sessionVars>>

(***************************************************************************)
(* The listener thread: incomingDataHandler and handleStunPacket           *)
(***************************************************************************)
Receives(a) == [a EXCEPT !.lastData = "fresh"]
MayReceive == shutdownPhase # "done"

(* A packet that is not STUN, or a STUN packet that changes nothing else. *)
ReceiveData ==
  /\ MayReceive /\ \E l \in Locals : ag.cand[l] \in {"VALID", "INVALID"}
  /\ ag' = Receives(ag)
  /\ UNCHANGED <<pc, restartVars, shutdownVars, closed, sessionVars>>

(* iceAgentCheckPeerReflexiveCandidate for the source of a request. *)
iceAgentCheckPeerReflexiveCandidate(a, r) ==
  IF r \in a.remoteCandidates
     \/ Cardinality(a.remoteCandidates) >= KVS_ICE_MAX_REMOTE_CANDIDATE_COUNT
  THEN a
  ELSE createIceCandidatePairs([a EXCEPT !.remoteCandidates = @ \cup {r}],
                               a.localCandidates, {r})

(* The rest of a binding request once its pair is known. *)
HandleRequest(a, p, useCandidate) ==
  LET b == IF useCandidate THEN [a EXCEPT !.nominated[p] = TRUE] ELSE a
  IN IF b.isLiteAgent THEN SetPairs(b, {p}, "SUCCEEDED")
     ELSE IF b.pairState[p] \in {"FROZEN", "WAITING", "IN_PROGRESS"}
     THEN [b EXCEPT !.triggeredCheckQueue = Append(@, p)]
     ELSE b

(* A binding request from remote address r on the socket of candidate l. *)
ReceiveRequest(l, r, useCandidate) ==
  /\ MayReceive /\ processStun
  /\ l \in ag.localCandidates /\ ag.cand[l] # "NEW"
  /\ Len(ag.triggeredCheckQueue) < MaxTriggered
  /\ LET a == iceAgentSendStunPacket(
                iceAgentCheckPeerReflexiveCandidate(Receives(ag), r), {l})
         p == <<l, r>>
     IN ag' = IF p \in a.iceCandidatePairs /\ a.pairState[p] # "FAILED"
              THEN HandleRequest(a, p, useCandidate) ELSE a
  /\ UNCHANGED <<pc, restartVars, shutdownVars, closed, sessionVars>>

(* A response to a connectivity check whose transaction id is still stored. *)
ReceiveResponse(p) ==
  /\ MayReceive /\ processStun
  /\ p \in ag.iceCandidatePairs /\ ag.pairState[p] # "FAILED" /\ ag.transactionIds[p]
  /\ ag' = SetPairs(Receives(ag), {p}, "SUCCEEDED")
  /\ UNCHANGED <<pc, restartVars, shutdownVars, closed, sessionVars>>

(***************************************************************************)
(* TURN connections and sockets                                            *)
(***************************************************************************)
SetTurn(l, s) == [ag EXCEPT !.turn[l] = s]

TurnObtainsAddress(l) ==
  /\ ag.turn[l] = "allocating" /\ ag' = SetTurn(l, "active")
  /\ UNCHANGED <<pc, restartVars, shutdownVars, closed, sessionVars>>

(* turnStateFailedFn: the candidate is given up if it never became valid. *)
turnStateFailedFn(l) ==
  /\ ag.turn[l] = "allocating"
  /\ ag' = [SetTurn(l, "failed") EXCEPT !.cand[l] = IF @ = "NEW" THEN "INVALID" ELSE @]
  /\ UNCHANGED <<pc, restartVars, shutdownVars, closed, sessionVars>>

TurnShutdownCompletes(l) ==
  /\ ag.turn[l] = "stopping" /\ l \in ag.localCandidates /\ ag' = SetTurn(l, "complete")
  /\ UNCHANGED <<pc, restartVars, shutdownVars, closed, sessionVars>>

SocketCloses(l) ==
  /\ ag.cand[l] \in {"NEW", "VALID"} /\ l \notin closed
  /\ Cardinality(closed) < MaxClosed
  /\ closed' = closed \cup {l}
  /\ UNCHANGED <<ag, pc, restartVars, shutdownVars, sessionVars>>

(***************************************************************************)
(* The specification                                                       *)
(***************************************************************************)
Timer ==
  \/ \E late \in BOOLEAN : stepIceAgentStateMachine(late)
  \/ DeferredCleanup
  \/ iceAgentSendKeepAliveTimerCallback
  \/ \E late \in BOOLEAN : iceAgentGatherCandidateTimerCallback(late)

Application ==
  \/ \E c \in BOOLEAN : iceAgentStartAgent(c)
  \/ iceAgentStartGathering
  \/ \E r \in Remotes : iceAgentAddRemoteCandidate(r)
  \/ iceAgentSendPacket
  \/ RestartBegins
  \/ RestartEnds
  \/ ShutdownBegins
  \/ ShutdownEnds

Listener ==
  \/ ReceiveData
  \/ \E l \in Locals, r \in Remotes, u \in BOOLEAN : ReceiveRequest(l, r, u)
  \/ \E p \in Pairs : ReceiveResponse(p)

Environment ==
  \/ \E l \in Locals : TurnObtainsAddress(l) \/ turnStateFailedFn(l)
                       \/ TurnShutdownCompletes(l) \/ SocketCloses(l)

Next == Timer \/ Application \/ Listener \/ Environment

Spec == Init /\ [][Next]_vars

(* The timer queue runs a due callback again and again, and every deadline   *)
(* passes in the end.  iceAgentRestart returns from its sleep.               *)
FairSpec ==
  /\ Spec
  /\ WF_vars(stepIceAgentStateMachine(TRUE))
  /\ WF_vars(DeferredCleanup)
  /\ WF_vars(RestartEnds)

(***************************************************************************)
(* Properties                                                              *)
(***************************************************************************)
(* No transition that a getNextState function asks for is refused by         *)
(* ICE_AGENT_STATE_MACHINE_STATES: stepStateMachine would return an error    *)
(* and the agent would stay where it is without a notification.              *)
TransitionsAccepted == ~ag.rejected

(* Between two timer callbacks the state last given to                       *)
(* connectionStateChangedFn is the agent's state: DISCONNECTED while a READY *)
(* agent hears nothing, iceAgentState otherwise.  The notification is made   *)
(* in three places, one of them inside the state machine's callbacks.        *)
NotifiedStateIsCurrent ==
  pc = "idle" /\ restartPhase = "none" /\ ag.iceAgentState # "NEW" =>
    ag.notified = IF ag.iceAgentState = "READY" /\ ag.detectedDisconnection
                  THEN "DISCONNECTED" ELSE ag.iceAgentState

(* The state machine and the application agree: no transition is refused,    *)
(* and what the application was told last is so.                             *)
MachineInStep == TransitionsAccepted /\ NotifiedStateIsCurrent

(* Every pair in the list has a local candidate that is listed and not       *)
(* freed, although the READY state frees the relayed candidates one by one   *)
(* as their TURN connections finish and a restart empties both lists.        *)
PairsHaveLocals ==
  \A p \in ag.iceCandidatePairs :
    LocalOf(p) \in ag.localCandidates /\ ag.cand[LocalOf(p)] # "FREED"

(* While checks are or will be made, the queue of triggered checks holds     *)
(* only pairs of the list: a restart frees the pairs first and clears the    *)
(* queue a second later.                                                     *)
ChecksOnListedPairs ==
  "state" \in armed /\ ag.iceAgentState \in Checking \cup {"NEW"} =>
    \A i \in DOMAIN ag.triggeredCheckQueue :
      ag.triggeredCheckQueue[i] \in ag.iceCandidatePairs

(* What the deferred clean-up is about to free, nothing else refers to: the  *)
(* old pair is neither selected nor listed, and its candidate is not listed. *)
DeferredIsUnused ==
  ag.deferred # NoPair =>
    /\ ag.data # ag.deferred
    /\ LocalOf(ag.deferred) \notin ag.localCandidates
    /\ ag.deferred \notin ag.iceCandidatePairs

(* Nothing the agent still uses refers to what it has freed or is about to   *)
(* free, through restarts, READY's clean-up of relayed candidates and the    *)
(* deferred clean-up of the session before.                                  *)
NothingDangles == PairsHaveLocals /\ ChecksOnListedPairs /\ DeferredIsUnused

(* While iceAgentRestart waits for the TURN servers, no timer of the agent   *)
(* runs and no pair is made: it frees the old candidates without the lock    *)
(* ("there should be no thread accessing anything in iceAgent").             *)
QuietRestart ==
  restartPhase = "sleeping" => armed = {} /\ ag.iceCandidatePairs = {}

(* After iceAgentShutdown the state timer and the gathering timer are gone.  *)
(* The keep-alive timer may survive: iceAgentConnectedStateSetup adds it if  *)
(* the handles were taken while the step was under way.                      *)
ShutdownStopsTimers ==
  shutdownPhase = "done" => armed \subseteq {"keepAlive"}

(* Timers that a restart or a shutdown has cancelled stay off, though their  *)
(* handles are taken under the lock and the timers cancelled without it.     *)
CancelledTimersStayOff == QuietRestart /\ ShutdownStopsTimers

Left == restartPhase # "none" \/ shutdownPhase # "none"

(* Connectivity checks end: READY or FAILED is reached whatever the network  *)
(* does, unless the application restarts or shuts down the agent.            *)
ChecksEnd == ag.iceAgentState \in Checking ~> ag.iceAgentState \in {"READY", "FAILED"} \/ Left

(* A lost connection is recovered or reported as failed. *)
DisconnectionResolves ==
  ag.detectedDisconnection ~> ~ag.detectedDisconnection \/ ag.iceAgentState = "FAILED" \/ Left

(* Once a restarted agent is READY again the restart is over: a further      *)
(* iceAgentRestart resets the agent as its documentation says.  Only         *)
(* iceAgentConnectedStateSetup clears the flag, and only if a pair was       *)
(* selected before the restart.                                              *)
RestartIsHonoured ==
  restartPhase = "none" /\ ag.iceAgentState = "READY" => ~ag.restart

=============================================================================
