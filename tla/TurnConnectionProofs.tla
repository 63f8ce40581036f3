------------------------ MODULE TurnConnectionProofs ------------------------
(***************************************************************************)
(* Proofs about TurnConnection for any number of peers, of nonce changes   *)
(* and of replies in flight: the type invariant and the four safety        *)
(* invariants that the run turn_lifecycle checks.                          *)
(*                                                                         *)
(* Three of the four are not inductive.  That data leaves on bound         *)
(* channels needs the replies in flight to tell the truth (PeersInv).      *)
(* That a failure is reported once, and that a shutdown leaves nothing     *)
(* behind, need where the timer callback stands once a failure has been    *)
(* reported (FailedInv), what a connection that has not failed looks like  *)
(* (HealthyInv), and that the machine leaves NEW for good (MachineInv).    *)
(***************************************************************************)
EXTENDS TurnConnection, SequenceTheorems, TLAPS

\* No step is refused, and the machine leaves NEW before anything can happen.
MachineInv ==
  /\ status # "STATUS_INVALID_STREAM_STATE"
  /\ machineState = "NEW" => state = "NEW" /\ pc \in {"idle", "from"} /\ status = SUCCESS
  /\ state = "NEW" => machineState = "NEW" \/ pc = "execute"
  /\ pc \in {"idle", "from", "execute"} => status = SUCCESS

\* While nothing has failed, FAILED is never entered, CLEAN_UP means that a
\* shutdown was asked for, and the fix-up that a shutdown starts does not meet
\* a clean-up that is over.
HealthyInv ==
  failures = 0 =>
    /\ errorStatus = SUCCESS
    /\ state # "FAILED" /\ machineState # "FAILED" /\ oldState # "FAILED"
    /\ pc # "callback"
    /\ "CLEAN_UP" \in {state, machineState} => stopTurnConnection
    /\ pc \in {"idle", "check"} => state = machineState
    /\ pc = "from" /\ phase = "first" => state = machineState
    /\ pc = "from" /\ phase = "fixup" => state = "CLEAN_UP" /\ machineState # "CLEAN_UP"
    /\ shutdownComplete =>
         /\ machineState = "CLEAN_UP" /\ state = "CLEAN_UP" /\ phase = "first"
         /\ connectionClosed /\ \A k \in Packets : packets[k] = NULL
         /\ pc \in {"from", "idle"} => ~hasAllocation
         /\ pc = "check" /\ hasAllocation => status # SUCCESS

\* After the failure has been reported: the callback that reported it enters
\* FAILED, which forgets the allocation, cleans up without one, and is never
\* scheduled again.
Reported ==
  /\ state = "FAILED" /\ machineState # "FAILED" /\ oldState # "FAILED"
  /\ \/ pc = "callback" /\ phase = "first"
     \/ pc = "from" /\ phase = "fixup"

EntersFailed ==
  /\ pc = "execute" /\ phase = "fixup"
  /\ state = "FAILED" /\ machineState = "FAILED" /\ oldState # "FAILED"

CleansUp ==
  /\ pc \in {"from", "execute", "check"} /\ status = SUCCESS
  /\ ~hasAllocation
  /\ machineState \in {"FAILED", "CLEAN_UP"} /\ state \in {"FAILED", "CLEAN_UP"}
  /\ ~shutdownComplete =>
       \/ pc = "check" /\ phase = "fixup" /\ machineState = "FAILED" /\ state = "FAILED" /\ oldState # "FAILED"
       \/ pc = "from" /\ phase = "first" /\ machineState = "FAILED" /\ state = "FAILED" /\ oldState = "FAILED"
       \/ pc = "execute" /\ phase = "first" /\ machineState = "CLEAN_UP" /\ oldState = "FAILED"
       \/ pc = "check" /\ phase = "first" /\ machineState = "CLEAN_UP" /\ state = "CLEAN_UP" /\ oldState = "FAILED"
       \/ pc = "from" /\ machineState = "CLEAN_UP" /\ state = "CLEAN_UP"

Over == pc = "idle" /\ ~timer /\ shutdownComplete /\ state \in {"FAILED", "CLEAN_UP"}

FailedInv ==
  failures # 0 =>
    /\ failures = 1 /\ errorStatus # SUCCESS
    /\ machineState # "NEW"
    /\ Reported \/ EntersFailed \/ CleansUp \/ Over

\* The answers in flight concern peers of the list, and a channel that an
\* answer or a peer calls bound is one the server has bound to that address.
PeersInv ==
  /\ \A i \in PeerIds : turnPeerList[i].ready => <<i, turnPeerList[i].address>> \in bound
  /\ \A r \in replies :
       /\ r.type \in {"permitted", "bound", "refused"} => r.peer \in PeerIds
       /\ r.type = "bound" => <<r.peer, turnPeerList[r.peer].address>> \in bound

TurnInv == TypeOK /\ MachineInv /\ HealthyInv /\ FailedInv /\ NoncesInStep /\ PeersInv


Control == MachineInv /\ HealthyInv /\ FailedInv

-----------------------------------------------------------------------------
(* Where the callback stands.                                              *)

\* The steps of the other threads and of the clock leave the callback alone.
LEMMA ControlOthers ==
  ASSUME TypeOK, Control,
         \/ Start \/ Shutdown \/ SocketCloses \/ ServerChangesNonce
         \/ StateTimeout \/ AllocationExpires
         \/ \E a \in Addresses : AddPeer(a)
         \/ \E i \in PeerIds : PermissionExpires(i)
         \/ \E r \in replies : Lose(r)
  PROVE  Control'
<1> USE DEF Control, MachineInv, HealthyInv, FailedInv, Reported, EntersFailed,
            CleansUp, Over, stepVars, flagVars, serverVars, histVars, Unlocked
<1>1. CASE Start
  BY <1>1 DEF Start
<1>2. CASE Shutdown
  BY <1>2 DEF Shutdown
<1>3. CASE SocketCloses
  BY <1>3 DEF SocketCloses
<1>4. CASE ServerChangesNonce
  BY <1>4 DEF ServerChangesNonce
<1>5. CASE StateTimeout
  BY <1>5 DEF StateTimeout
<1>6. CASE AllocationExpires
  BY <1>6 DEF AllocationExpires
<1>7. CASE \E a \in Addresses : AddPeer(a)
  BY <1>7 DEF AddPeer
<1>8. CASE \E i \in PeerIds : PermissionExpires(i)
  BY <1>8 DEF PermissionExpires
<1>9. CASE \E r \in replies : Lose(r)
  BY <1>9 DEF Lose
<1> QED BY <1>1, <1>2, <1>3, <1>4, <1>5, <1>6, <1>7, <1>8, <1>9

\* A reply may bring back the allocation, but not after a shutdown was asked
\* for, and not while the callback that reports a failure holds the lock.
LEMMA ControlReplies ==
  ASSUME TypeOK, Control, NEW r \in replies, HandleReply(r)
  PROVE  Control'
<1> USE DEF Control, MachineInv, HealthyInv, FailedInv, Reported, EntersFailed,
            CleansUp, Over, Receives, stepVars, histVars, Unlocked, TypeOK
<1>1. CASE HandleAllocateSuccess(r)
  BY <1>1 DEF HandleAllocateSuccess
<1>2. CASE HandleRefreshSuccess(r)
  BY <1>2 DEF HandleRefreshSuccess
<1>3. CASE HandleCreatePermissionSuccess(r)
  BY <1>3 DEF HandleCreatePermissionSuccess
<1>4. CASE HandleChannelBindSuccess(r)
  BY <1>4 DEF HandleChannelBindSuccess
<1>5. CASE HandleStunError(r)
  BY <1>5 DEF HandleStunError, UpdateNonce
<1> QED BY <1>1, <1>2, <1>3, <1>4, <1>5 DEF HandleReply

\* What the peers decide in CREATE_PERMISSION and in BIND_CHANNEL.
LEMMA CreatePermissionOutcome ==
  ASSUME FromCreatePermission
  PROVE  /\ From("CREATE_PERMISSION")
         /\ UNCHANGED <<shutdownComplete, packets, turnPeerList, connectionClosed>>
         /\ \/ Overridden /\ Enter(state)
            \/ ~Overridden /\ Enter("CREATE_PERMISSION")
            \/ ~Overridden /\ Enter("BIND_CHANNEL")
            \/ ~Overridden /\ Refuse("FAILED_TO_CREATE_PERMISSION")
         /\ stateTimedOut' \in {stateTimedOut, FALSE}
BY Zenon DEF FromCreatePermission, Follow

LEMMA BindChannelOutcome ==
  ASSUME FromBindChannel
  PROVE  /\ From("BIND_CHANNEL")
         /\ UNCHANGED <<shutdownComplete, packets, turnPeerList, connectionClosed>>
         /\ \/ Overridden /\ Enter(state)
            \/ ~Overridden /\ Enter("BIND_CHANNEL")
            \/ ~Overridden /\ Enter("READY")
            \/ ~Overridden /\ Refuse("FAILED_TO_BIND_CHANNEL")
         /\ UNCHANGED stateTimedOut
BY Zenon DEF FromBindChannel, Follow

\* Every state that a getNextState function returns is accepted.
LEMMA ControlFrom ==
  ASSUME TypeOK, Control,
         \/ FromNew \/ FromCheckSocketConnection
         \/ FromGetCredentials \/ FromAllocation
         \/ FromCreatePermission \/ FromBindChannel \/ FromReady
         \/ FromCleanUp \/ FromFailed
  PROVE  Control'
<1> USE DEF Control, MachineInv, HealthyInv, FailedInv, Reported, EntersFailed,
            CleansUp, Over, TypeOK, From, Enter, Refuse, Follow, Onward, Overridden,
            AcceptStates, Working, States, histVars, serverVars, SUCCESS
<1>1. CASE FromNew
  BY <1>1 DEF FromNew
<1>2. CASE FromCheckSocketConnection
  BY <1>2 DEF FromCheckSocketConnection
<1>3. CASE FromGetCredentials
  BY <1>3 DEF FromGetCredentials
<1>4. CASE FromAllocation
  BY <1>4 DEF FromAllocation
<1>5. CASE FromCreatePermission
  BY <1>5, CreatePermissionOutcome
<1>6. CASE FromBindChannel
  BY <1>6, BindChannelOutcome
<1>7. CASE FromReady
  BY <1>7 DEF FromReady
<1>8. CASE FromCleanUp
  BY <1>8 DEF FromCleanUp
<1>9. CASE FromFailed
  BY <1>9 DEF FromFailed
<1> QED BY <1>1, <1>2, <1>3, <1>4, <1>5, <1>6, <1>7, <1>8, <1>9

\* The execute functions record the state they run in; in CLEAN_UP they need
\* the refresh packet, which is gone once the shutdown is complete.
LEMMA ControlExecute ==
  ASSUME TypeOK, Control,
         \/ ExecuteCheckSocketConnection \/ ExecuteGetCredentials
         \/ ExecuteAllocation \/ ExecuteCreatePermission
         \/ ExecuteBindChannel \/ ExecuteReady \/ ExecuteCleanUp
         \/ ExecuteFailed
  PROVE  Control'
<1> USE DEF Control, MachineInv, HealthyInv, FailedInv, Reported, EntersFailed,
            CleansUp, Over, TypeOK, Execute, histVars, SUCCESS, first, States
<1>1. CASE ExecuteCheckSocketConnection
  BY <1>1 DEF ExecuteCheckSocketConnection
<1>2. CASE ExecuteGetCredentials
  BY <1>2 DEF ExecuteGetCredentials, SendTurnPacket
<1>3. CASE ExecuteAllocation
  BY <1>3 DEF ExecuteAllocation, SendTurnPacket
<1>4. CASE ExecuteCreatePermission
  BY <1>4 DEF ExecuteCreatePermission, CheckTurnPeerConnections
<1>5. CASE ExecuteBindChannel
  BY <1>5 DEF ExecuteBindChannel, CheckTurnPeerConnections
<1>6. CASE ExecuteReady
  BY <1>6 DEF ExecuteReady, CheckTurnPeerConnections
<1>7. CASE ExecuteCleanUp
  BY <1>7 DEF ExecuteCleanUp
<1>8. CASE ExecuteFailed
  BY <1>8 DEF ExecuteFailed
<1> QED BY <1>1, <1>2, <1>3, <1>4, <1>5, <1>6, <1>7, <1>8

\* A failure is reported from a callback that has not reported one, and once
\* it has been reported nothing fails again.
LEMMA ControlCheck ==
  ASSUME TypeOK, Control,
         \/ TimerFires \/ CheckStop \/ CheckFailed
         \/ StateFailedFnReturns \/ CheckAgain \/ CheckFixupFailed
  PROVE  Control'
<1> USE DEF Control, MachineInv, HealthyInv, FailedInv, Reported, EntersFailed,
            CleansUp, Over, TypeOK, Check, histVars, flagVars, SUCCESS, Failing, Stopping
<1>1. CASE TimerFires
  BY <1>1 DEF TimerFires
<1>2. CASE CheckStop
  BY <1>2 DEF CheckStop
<1>3. CASE CheckFailed
  BY <1>3 DEF CheckFailed
<1>4. CASE StateFailedFnReturns
  BY <1>4 DEF StateFailedFnReturns
<1>5. CASE CheckAgain
  BY <1>5 DEF CheckAgain
<1>6. CASE CheckFixupFailed
  BY <1>6 DEF CheckFixupFailed
<1> QED BY <1>1, <1>2, <1>3, <1>4, <1>5, <1>6

-----------------------------------------------------------------------------
(* The peers and the replies.                                              *)

\* An answer that the server may give while `bound` is what it has bound.
Truthful(r) ==
  /\ r \in Reply
  /\ r.type \in {"permitted", "bound", "refused"} => r.peer \in PeerIds
  /\ r.type = "bound" => <<r.peer, turnPeerList[r.peer].address>> \in bound'

PeersType ==
  /\ turnPeerList \in Seq(Peer) /\ Len(turnPeerList) <= DEFAULT_TURN_MAX_PEER_COUNT
  /\ \A i, j \in PeerIds : turnPeerList[i].address = turnPeerList[j].address => i = j
  /\ bound \subseteq (1..DEFAULT_TURN_MAX_PEER_COUNT) \X Addresses
  /\ replies \subseteq Reply

\* A step that leaves every peer its place and its address, makes one ready
\* only on a bound channel, and adds only truthful answers.
KeepsPeers ==
  /\ turnPeerList' = [i \in PeerIds |-> turnPeerList'[i]]
  /\ \A i \in PeerIds :
       /\ turnPeerList'[i] \in Peer
       /\ turnPeerList'[i].address = turnPeerList[i].address
       /\ turnPeerList'[i].ready => turnPeerList[i].ready \/ <<i, turnPeerList[i].address>> \in bound'
  /\ bound \subseteq bound'
  /\ bound' \subseteq bound \cup {<<i, turnPeerList[i].address>> : i \in PeerIds}
  /\ \A r \in replies' : r \in replies \/ Truthful(r)

\* The peers are the entries 1..Len of the list.
LEMMA PeerIdsType ==
  ASSUME TypeOK
  PROVE  /\ PeerIds = 1..Len(turnPeerList)
         /\ Len(turnPeerList) \in Nat
         /\ PeerIds \subseteq 1..DEFAULT_TURN_MAX_PEER_COUNT
         /\ \A i \in PeerIds : turnPeerList[i] \in Peer /\ turnPeerList[i].address \in Addresses
<1>1. turnPeerList \in Seq(Peer) /\ Len(turnPeerList) <= DEFAULT_TURN_MAX_PEER_COUNT
  BY DEF TypeOK
<1>2. PeerIds = 1..Len(turnPeerList) /\ Len(turnPeerList) \in Nat
  BY <1>1 DEF PeerIds
<1>3. \A i \in PeerIds : turnPeerList[i] \in Peer
  BY <1>1, <1>2
<1> QED BY <1>1, <1>2, <1>3, TurnAssumption DEF Peer

\* Such a step keeps the list well-formed and the claims about channels true.
LEMMA PeersKept ==
  ASSUME TypeOK, PeersInv, KeepsPeers
  PROVE  PeersType' /\ PeersInv'
<1>1. /\ PeerIds' = PeerIds
      /\ turnPeerList' \in Seq(Peer)
      /\ Len(turnPeerList') = Len(turnPeerList)
  <2>1. turnPeerList' \in [1..Len(turnPeerList) -> Peer]
    BY PeerIdsType, Zenon DEF KeepsPeers
  <2>2. turnPeerList' \in Seq(Peer) /\ Len(turnPeerList') = Len(turnPeerList)
    BY <2>1, PeerIdsType
  <2> QED BY <2>1, <2>2, PeerIdsType DEF PeerIds
<1>2. \A i \in PeerIds : turnPeerList'[i].address = turnPeerList[i].address
  BY DEF KeepsPeers
<1>3. /\ Len(turnPeerList') <= DEFAULT_TURN_MAX_PEER_COUNT
      /\ \A i, j \in PeerIds' : turnPeerList'[i].address = turnPeerList'[j].address => i = j
  BY <1>1, <1>2 DEF TypeOK
<1>4. bound' \subseteq (1..DEFAULT_TURN_MAX_PEER_COUNT) \X Addresses
  BY PeerIdsType DEF KeepsPeers, TypeOK
<1>5. replies' \subseteq Reply
  BY DEF KeepsPeers, TypeOK, Truthful
<1>6. \A i \in PeerIds' : turnPeerList'[i].ready => <<i, turnPeerList'[i].address>> \in bound'
  BY <1>1, <1>2 DEF KeepsPeers, PeersInv
<1>7. \A r \in replies' :
        /\ r.type \in {"permitted", "bound", "refused"} => r.peer \in PeerIds'
        /\ r.type = "bound" => <<r.peer, turnPeerList'[r.peer].address>> \in bound'
  <2> SUFFICES ASSUME NEW r \in replies'
               PROVE  /\ r.type \in {"permitted", "bound", "refused"} => r.peer \in PeerIds'
                      /\ r.type = "bound" => <<r.peer, turnPeerList'[r.peer].address>> \in bound'
    OBVIOUS
  <2>1. /\ r.type \in {"permitted", "bound", "refused"} => r.peer \in PeerIds
        /\ r.type = "bound" => <<r.peer, turnPeerList[r.peer].address>> \in bound'
    BY Zenon DEF KeepsPeers, PeersInv, Truthful
  <2> QED BY <1>1, <1>2, <2>1
<1> QED BY <1>1, <1>3, <1>4, <1>5, <1>6, <1>7 DEF PeersType, PeersInv

\* What the server answers is truthful when what it would grant is.
LEMMA AnswerTruthful ==
  ASSUME TypeOK, NEW n, NEW g, Truthful(g)
  PROVE  Truthful(Answer(n, g))
BY DEF TypeOK, Truthful, Answer, Reply

\* A single request leaves the peers alone.
LEMMA RequestKeepsPeers ==
  ASSUME TypeOK, UNCHANGED turnPeerList, NEW n, NEW g \in {"allocated", "refreshed", "deallocated"},
         Request(n, [type |-> g])
  PROVE  KeepsPeers
<1>1. Truthful([type |-> g])
  BY DEF Truthful, Reply
<1>2. Truthful(Answer(n, [type |-> g]))
  BY <1>1, AnswerTruthful
<1>3. \A r \in replies' : r \in replies \/ Truthful(r)
  BY <1>2 DEF Request
<1>4. turnPeerList = [i \in PeerIds |-> turnPeerList[i]]
  BY DEF TypeOK, PeerIds
<1> QED BY <1>3, <1>4, PeerIdsType DEF KeepsPeers, Request

\* So does a step that at most takes replies out of flight.
LEMMA QuietKeepsPeers ==
  ASSUME TypeOK, UNCHANGED <<turnPeerList, bound>>, replies' \subseteq replies
  PROVE  KeepsPeers
<1>1. turnPeerList = [i \in PeerIds |-> turnPeerList[i]]
  BY DEF TypeOK, PeerIds
<1> QED BY <1>1, PeerIdsType DEF KeepsPeers

\* A change of the peers' other fields.
LEMMA UpdateKeepsPeers ==
  ASSUME TypeOK, UNCHANGED bound, replies' \subseteq replies,
         turnPeerList' = [i \in PeerIds |-> turnPeerList'[i]],
         \A i \in PeerIds :
           /\ turnPeerList'[i] \in Peer
           /\ turnPeerList'[i].address = turnPeerList[i].address
           /\ turnPeerList'[i].ready => turnPeerList[i].ready
  PROVE  KeepsPeers
BY DEF KeepsPeers

\* checkTurnPeerConnections: a channel bind request that is granted binds the
\* channel before the answer leaves.
LEMMA CheckKeepsPeers ==
  ASSUME TypeOK, NEW pk, CheckTurnPeerConnections(pk)
  PROVE  KeepsPeers
<1>1. PICK got \in SUBSET (IF connectionClosed THEN {} ELSE In("CREATE_PERMISSION") \cup In("BIND_CHANNEL")),
           bad \in SUBSET (IF connectionClosed THEN {} ELSE In("CREATE_PERMISSION") \cup In("BIND_CHANNEL")) :
        /\ turnPeerList' = [i \in PeerIds |->
             IF i \in In("CREATE_PERMISSION") \cup In("BIND_CHANNEL")
             THEN [turnPeerList[i] EXCEPT !.known = TRUE] ELSE turnPeerList[i]]
        /\ bound' = bound \cup {<<a.peer, turnPeerList[a.peer].address>> :
                                  a \in {b \in {PeerAnswer(i, pk, bad) : i \in got} : b.type = "bound"}}
        /\ \/ replies' = replies \cup {PeerAnswer(i, pk, bad) : i \in got}
           \/ replies' = replies \cup {PeerAnswer(i, pk, bad) : i \in got} \cup
                           {Answer(pk["pTurnAllocationRefreshPacket"], [type |-> "refreshed"])}
  <2>1. PICK got \in SUBSET (IF connectionClosed THEN {} ELSE In("CREATE_PERMISSION") \cup In("BIND_CHANNEL")) :
        \E bad \in SUBSET got, due \in BOOLEAN :
          LET answers == {PeerAnswer(i, pk, bad) : i \in got}
              refresh == allocation = "expiring" /\ due
          IN /\ turnPeerList' = [i \in PeerIds |->
                  IF i \in In("CREATE_PERMISSION") \cup In("BIND_CHANNEL")
                  THEN [turnPeerList[i] EXCEPT !.known = TRUE] ELSE turnPeerList[i]]
             /\ bound' = bound \cup {<<a.peer, turnPeerList[a.peer].address>> :
                                       a \in {b \in answers : b.type = "bound"}}
             /\ replies' \in {replies \cup answers} \cup
                  (IF refresh /\ ~connectionClosed
                   THEN {replies \cup answers \cup
                           {Answer(pk["pTurnAllocationRefreshPacket"], [type |-> "refreshed"])}}
                   ELSE {})
    BY ZenonT(60) DEF CheckTurnPeerConnections
  <2>2. PICK bad \in SUBSET got, due \in BOOLEAN :
             /\ turnPeerList' = [i \in PeerIds |->
                  IF i \in In("CREATE_PERMISSION") \cup In("BIND_CHANNEL")
                  THEN [turnPeerList[i] EXCEPT !.known = TRUE] ELSE turnPeerList[i]]
             /\ bound' = bound \cup {<<a.peer, turnPeerList[a.peer].address>> :
                                       a \in {b \in {PeerAnswer(i, pk, bad) : i \in got} : b.type = "bound"}}
             /\ replies' \in {replies \cup {PeerAnswer(i, pk, bad) : i \in got}} \cup
                  (IF (allocation = "expiring" /\ due) /\ ~connectionClosed
                   THEN {replies \cup {PeerAnswer(i, pk, bad) : i \in got} \cup
                           {Answer(pk["pTurnAllocationRefreshPacket"], [type |-> "refreshed"])}}
                   ELSE {})
    BY <2>1, Zenon
  <2> QED BY <2>2, ZenonT(60)
<1>2. got \subseteq PeerIds
  BY DEF In
<1>3. \A i \in got : /\ PeerAnswer(i, pk, bad) \in Reply
                     /\ PeerAnswer(i, pk, bad).type \in {"permitted", "bound", "refused"}
                          => PeerAnswer(i, pk, bad).peer = i
  <2> SUFFICES ASSUME NEW i \in got
               PROVE  /\ PeerAnswer(i, pk, bad) \in Reply
                      /\ PeerAnswer(i, pk, bad).type \in {"permitted", "bound", "refused"}
                           => PeerAnswer(i, pk, bad).peer = i
    OBVIOUS
  <2>1. i \in 1..DEFAULT_TURN_MAX_PEER_COUNT
    BY <1>2, PeerIdsType
  <2> QED BY <2>1 DEF PeerAnswer, Answer, Reply, TypeOK
<1>4. \A i \in got : Truthful(PeerAnswer(i, pk, bad))
  <2> SUFFICES ASSUME NEW i \in got PROVE Truthful(PeerAnswer(i, pk, bad))
    OBVIOUS
  <2> DEFINE a == PeerAnswer(i, pk, bad)
  <2>1. a \in Reply /\ (a.type \in {"permitted", "bound", "refused"} => a.peer = i)
    BY <1>3
  <2>2. a \in {PeerAnswer(j, pk, bad) : j \in got}
    OBVIOUS
  <2> HIDE DEF a
  <2>3. a.type = "bound" => <<a.peer, turnPeerList[a.peer].address>> \in bound'
    BY <1>1, <2>2
  <2>4. Truthful(a)
    BY <1>2, <2>1, <2>3 DEF Truthful
  <2> QED BY <2>4 DEF a
<1>5. Truthful(Answer(pk["pTurnAllocationRefreshPacket"], [type |-> "refreshed"]))
  <2>1. Truthful([type |-> "refreshed"])
    BY DEF Truthful, Reply
  <2> QED BY <2>1, AnswerTruthful
<1>6. \A r \in replies' : r \in replies \/ Truthful(r)
  BY <1>1, <1>4, <1>5
<1>7. bound' \subseteq bound \cup {<<i, turnPeerList[i].address>> : i \in PeerIds}
  BY <1>1, <1>2, <1>3
<1>8. /\ turnPeerList' = [i \in PeerIds |-> turnPeerList'[i]]
      /\ \A i \in PeerIds : /\ turnPeerList'[i] \in Peer
                            /\ turnPeerList'[i].address = turnPeerList[i].address
                            /\ turnPeerList'[i].ready => turnPeerList[i].ready
  BY <1>1, PeerIdsType DEF Peer
<1> QED BY <1>1, <1>6, <1>7, <1>8 DEF KeepsPeers

\* The reply handlers: only an answer that says "bound" makes a peer ready.
LEMMA PeersReplies ==
  ASSUME TypeOK, PeersInv, NEW r \in replies, HandleReply(r)
  PROVE  KeepsPeers
<1>0. UNCHANGED bound /\ replies' \subseteq replies
  BY DEF HandleReply, HandleAllocateSuccess, HandleRefreshSuccess, HandleCreatePermissionSuccess,
         HandleChannelBindSuccess, HandleStunError, Receives
<1>1. r.type \in {"permitted", "bound", "refused"} => r.peer \in PeerIds
  BY DEF PeersInv
<1>2. CASE HandleAllocateSuccess(r) \/ HandleRefreshSuccess(r)
  BY <1>0, <1>2, QuietKeepsPeers DEF HandleAllocateSuccess, HandleRefreshSuccess
<1>3. CASE HandleCreatePermissionSuccess(r)
  <2>1. \/ turnPeerList' = turnPeerList
        \/ turnPeerList' = [turnPeerList EXCEPT
               ![r.peer].connectionState = IF @ = "CREATE_PERMISSION" THEN "BIND_CHANNEL" ELSE @,
               ![r.peer].permission = "valid"]
    BY <1>3 DEF HandleCreatePermissionSuccess
  <2>2. CASE turnPeerList' = turnPeerList
    BY <1>0, <2>2, QuietKeepsPeers
  <2>3. CASE turnPeerList' # turnPeerList
    <3>1. /\ turnPeerList' = [i \in PeerIds |-> turnPeerList'[i]]
          /\ \A i \in PeerIds : /\ turnPeerList'[i] \in Peer
                                /\ turnPeerList'[i].address = turnPeerList[i].address
                                /\ turnPeerList'[i].ready => turnPeerList[i].ready
      BY <2>1, <2>3, PeerIdsType DEF Peer, PeerStates
    <3> QED BY <1>0, <3>1, UpdateKeepsPeers
  <2> QED BY <2>2, <2>3
<1>4. CASE HandleChannelBindSuccess(r)
  <2>1. \/ turnPeerList' = turnPeerList
        \/ turnPeerList' = [turnPeerList EXCEPT ![r.peer].connectionState = "READY", ![r.peer].ready = TRUE]
    BY <1>4 DEF HandleChannelBindSuccess
  <2>2. CASE turnPeerList' = turnPeerList
    BY <1>0, <2>2, QuietKeepsPeers
  <2>3. CASE turnPeerList' # turnPeerList
    <3>1. <<r.peer, turnPeerList[r.peer].address>> \in bound'
      BY <1>0, <1>4 DEF PeersInv, HandleChannelBindSuccess
    <3>2. /\ turnPeerList' = [i \in PeerIds |-> turnPeerList'[i]]
          /\ \A i \in PeerIds : /\ turnPeerList'[i] \in Peer
                                /\ turnPeerList'[i].address = turnPeerList[i].address
                                /\ turnPeerList'[i].ready => turnPeerList[i].ready \/ i = r.peer
      BY <2>1, <2>3, PeerIdsType DEF Peer, PeerStates
    <3> QED BY <1>0, <3>1, <3>2 DEF KeepsPeers
  <2> QED BY <2>2, <2>3
<1>5. CASE HandleStunError(r)
  <2>1. \/ turnPeerList' = turnPeerList
        \/ turnPeerList' = [turnPeerList EXCEPT ![r.peer].connectionState = "FAILED"]
    BY <1>5 DEF HandleStunError
  <2>2. CASE turnPeerList' = turnPeerList
    BY <1>0, <2>2, QuietKeepsPeers
  <2>3. CASE turnPeerList' # turnPeerList
    <3>1. /\ turnPeerList' = [i \in PeerIds |-> turnPeerList'[i]]
          /\ \A i \in PeerIds : /\ turnPeerList'[i] \in Peer
                                /\ turnPeerList'[i].address = turnPeerList[i].address
                                /\ turnPeerList'[i].ready => turnPeerList[i].ready
      BY <2>1, <2>3, PeerIdsType DEF Peer, PeerStates
    <3> QED BY <1>0, <3>1, UpdateKeepsPeers
  <2> QED BY <2>2, <2>3
<1> QED BY <1>2, <1>3, <1>4, <1>5 DEF HandleReply

\* The other threads, the server and the clock.
LEMMA PeersOthers ==
  ASSUME TypeOK, PeersInv,
         \/ Start \/ Shutdown \/ SocketCloses \/ ServerChangesNonce
         \/ StateTimeout \/ AllocationExpires
         \/ \E i \in PeerIds : PermissionExpires(i)
         \/ \E r \in replies : Lose(r)
  PROVE  KeepsPeers
<1>1. CASE \E i \in PeerIds : PermissionExpires(i)
  <2>1. PICK i \in PeerIds : PermissionExpires(i)
    BY <1>1
  <2>2. turnPeerList' = [turnPeerList EXCEPT ![i].permission = "expiring"] /\ UNCHANGED <<bound, replies>>
    BY <2>1 DEF PermissionExpires, serverVars
  <2>3. /\ turnPeerList' = [j \in PeerIds |-> turnPeerList'[j]]
        /\ \A j \in PeerIds : /\ turnPeerList'[j] \in Peer
                              /\ turnPeerList'[j].address = turnPeerList[j].address
                              /\ turnPeerList'[j].ready => turnPeerList[j].ready
    <3>1. turnPeerList[i] \in Peer /\ [turnPeerList[i] EXCEPT !.permission = "expiring"] \in Peer
      BY PeerIdsType DEF Peer
    <3>2. \A j \in PeerIds : turnPeerList'[j] =
            IF j = i THEN [turnPeerList[i] EXCEPT !.permission = "expiring"] ELSE turnPeerList[j]
      BY <2>2 DEF PeerIds
    <3>3. turnPeerList' = [j \in PeerIds |-> turnPeerList'[j]]
      BY <2>2 DEF PeerIds
    <3> QED BY <3>1, <3>2, <3>3, PeerIdsType DEF Peer
  <2> QED BY <2>2, <2>3, UpdateKeepsPeers
<1>2. CASE ~\E i \in PeerIds : PermissionExpires(i)
  <2>1. UNCHANGED <<turnPeerList, bound>> /\ replies' \subseteq replies
    BY <1>2 DEF Start, Shutdown, SocketCloses, ServerChangesNonce, StateTimeout, AllocationExpires,
                Lose, serverVars
  <2> QED BY <2>1, QuietKeepsPeers
<1> QED BY <1>1, <1>2

\* turnConnectionAddPeer appends an address that is not listed yet.
LEMMA PeersAdd ==
  ASSUME TypeOK, PeersInv, NEW a \in Addresses, AddPeer(a)
  PROVE  PeersType' /\ PeersInv'
<1> DEFINE n == Len(turnPeerList) + 1
<1>1. /\ turnPeerList' = Append(turnPeerList, NewPeer(a))
      /\ \A i \in PeerIds : turnPeerList[i].address # a
      /\ Len(turnPeerList) < DEFAULT_TURN_MAX_PEER_COUNT
      /\ UNCHANGED <<bound, replies>>
  BY DEF AddPeer, serverVars
<1>2. NewPeer(a) \in Peer
  BY DEF NewPeer, Peer, PeerStates
<1>3. turnPeerList \in Seq(Peer)
  BY DEF TypeOK
<1>4. /\ turnPeerList' \in Seq(Peer) /\ Len(turnPeerList') = n
      /\ \A i \in PeerIds : turnPeerList'[i] = turnPeerList[i]
      /\ turnPeerList'[n] = NewPeer(a)
      /\ PeerIds' = PeerIds \cup {n} /\ n \notin PeerIds
  BY <1>1, <1>2, <1>3 DEF PeerIds
<1>5. Len(turnPeerList') <= DEFAULT_TURN_MAX_PEER_COUNT
  BY <1>1, <1>4, PeerIdsType, TurnAssumption
<1>a. NewPeer(a).address = a /\ NewPeer(a).ready = FALSE
  BY DEF NewPeer
<1>b. \A i \in PeerIds' : i # n => i \in PeerIds
  BY <1>4
<1> HIDE DEF n
<1>6. \A i, j \in PeerIds' : turnPeerList'[i].address = turnPeerList'[j].address => i = j
  <2> SUFFICES ASSUME NEW i \in PeerIds', NEW j \in PeerIds',
                      turnPeerList'[i].address = turnPeerList'[j].address
               PROVE  i = j
    OBVIOUS
  <2>1. CASE i = n
    BY <1>1, <1>4, <1>a, <1>b, <2>1
  <2>2. CASE j = n
    BY <1>1, <1>4, <1>a, <1>b, <2>2
  <2>3. CASE i # n /\ j # n
    BY <1>4, <1>b, <2>3 DEF TypeOK
  <2> QED BY <2>1, <2>2, <2>3
<1>7. \A i \in PeerIds' : turnPeerList'[i].ready => <<i, turnPeerList'[i].address>> \in bound'
  BY <1>1, <1>4, <1>a, <1>b DEF PeersInv
<1>8. \A r \in replies' :
        /\ r.type \in {"permitted", "bound", "refused"} => r.peer \in PeerIds'
        /\ r.type = "bound" => <<r.peer, turnPeerList'[r.peer].address>> \in bound'
  BY <1>1, <1>4 DEF PeersInv
<1> QED BY <1>1, <1>4, <1>5, <1>6, <1>7, <1>8 DEF PeersType, PeersInv, TypeOK

\* The steps of the callback.
LEMMA PeersSteps ==
  ASSUME TypeOK, PeersInv, Step
  PROVE  KeepsPeers
<1>1. CASE \/ TimerFires \/ CheckStop \/ CheckFailed \/ StateFailedFnReturns \/ CheckAgain
           \/ CheckFixupFailed \/ FromNew \/ FromCheckSocketConnection \/ FromGetCredentials
           \/ FromAllocation \/ FromCreatePermission \/ FromBindChannel \/ FromFailed
           \/ ExecuteCheckSocketConnection \/ ExecuteFailed
  <2>1. UNCHANGED <<turnPeerList, serverVars>>
    BY <1>1 DEF TimerFires, CheckStop, CheckFailed, StateFailedFnReturns, CheckAgain, CheckFixupFailed,
                Check, From, FromNew, FromCheckSocketConnection, FromGetCredentials, FromAllocation,
                FromCreatePermission, FromBindChannel, FromFailed, ExecuteCheckSocketConnection,
                ExecuteFailed
  <2> QED BY <2>1, QuietKeepsPeers DEF serverVars
<1>2. CASE FromReady \/ FromCleanUp
  <2>1. /\ UNCHANGED serverVars
        /\ \/ turnPeerList' = turnPeerList
           \/ turnPeerList' = [i \in PeerIds |-> [turnPeerList[i] EXCEPT !.connectionState = "CREATE_PERMISSION"]]
           \/ turnPeerList' = [i \in PeerIds |-> [turnPeerList[i] EXCEPT !.known = FALSE]]
    BY <1>2 DEF FromReady, FromCleanUp, From
  <2>a. \A q \in Peer :
          /\ [q EXCEPT !.connectionState = "CREATE_PERMISSION"] \in Peer
          /\ [q EXCEPT !.known = FALSE] \in Peer
          /\ [q EXCEPT !.connectionState = "CREATE_PERMISSION"].address = q.address
          /\ [q EXCEPT !.known = FALSE].address = q.address
          /\ [q EXCEPT !.connectionState = "CREATE_PERMISSION"].ready = q.ready
          /\ [q EXCEPT !.known = FALSE].ready = q.ready
    BY DEF Peer, PeerStates
  <2>2. CASE turnPeerList' = turnPeerList
    BY <2>1, <2>2, QuietKeepsPeers DEF serverVars
  <2>3. CASE turnPeerList' # turnPeerList
    <3>1. /\ turnPeerList' = [i \in PeerIds |-> turnPeerList'[i]]
          /\ \A i \in PeerIds : /\ turnPeerList'[i] \in Peer
                                /\ turnPeerList'[i].address = turnPeerList[i].address
                                /\ turnPeerList'[i].ready => turnPeerList[i].ready
      BY <2>1, <2>3, <2>a, PeerIdsType, ZenonT(60)
    <3> QED BY <2>1, <3>1, UpdateKeepsPeers DEF serverVars
  <2> QED BY <2>2, <2>3
<1>3. CASE ExecuteGetCredentials \/ ExecuteAllocation
  <2>1. /\ UNCHANGED turnPeerList
        /\ \/ UNCHANGED serverVars
           \/ \E n : Request(n, [type |-> "allocated"])
    BY <1>3 DEF ExecuteGetCredentials, ExecuteAllocation, SendTurnPacket
  <2> QED BY <2>1, QuietKeepsPeers, RequestKeepsPeers DEF serverVars
<1>4. CASE ExecuteCreatePermission \/ ExecuteBindChannel \/ ExecuteReady
  BY <1>4, CheckKeepsPeers DEF ExecuteCreatePermission, ExecuteBindChannel, ExecuteReady
<1>5. CASE ExecuteCleanUp
  <2>1. /\ UNCHANGED turnPeerList
        /\ \/ UNCHANGED serverVars
           \/ \E n : Request(n, [type |-> "deallocated"])
    BY <1>5 DEF ExecuteCleanUp
  <2> QED BY <2>1, QuietKeepsPeers, RequestKeepsPeers DEF serverVars
<1> QED BY <1>1, <1>2, <1>3, <1>4, <1>5 DEF Step

-----------------------------------------------------------------------------
(* The other types, and the nonces.                                        *)

RestType ==
  /\ state \in States /\ machineState \in States /\ oldState \in States
  /\ pc \in {"idle", "from", "execute", "check", "callback"}
  /\ phase \in {"first", "fixup"}
  /\ status \in Statuses /\ errorStatus \in Statuses
  /\ turnNonce \in Nonces \cup {NoNonce}
  /\ packets \in [Packets -> Nonces \cup {NoNonce, NULL}]
  /\ allocation \in {"none", "valid", "expiring"}
  /\ serverNonce \in Nonces
  /\ failures \in 0..3 /\ expiries \in 0..MaxUpsets

\* The other threads, the server and the clock.
LEMMA RestOthers ==
  ASSUME TypeOK, Control, NoncesInStep,
         \/ Start \/ Shutdown \/ SocketCloses \/ ServerChangesNonce
         \/ StateTimeout \/ AllocationExpires
         \/ \E a \in Addresses : AddPeer(a)
         \/ \E i \in PeerIds : PermissionExpires(i)
         \/ \E r \in replies : Lose(r)
  PROVE  RestType' /\ NoncesInStep'
<1> USE TurnAssumption DEF TypeOK, RestType, NoncesInStep, Nonces, stepVars, flagVars, serverVars, histVars,
        Upsets, Statuses, SUCCESS, NULL, NoNonce
<1>1. CASE Start
  BY <1>1 DEF Start
<1>2. CASE Shutdown
  BY <1>2 DEF Shutdown
<1>3. CASE SocketCloses
  BY <1>3 DEF SocketCloses
<1>4. CASE ServerChangesNonce
  BY <1>4 DEF ServerChangesNonce
<1>5. CASE StateTimeout
  BY <1>5 DEF StateTimeout
<1>6. CASE AllocationExpires
  BY <1>6 DEF AllocationExpires
<1>7. CASE \E a \in Addresses : AddPeer(a)
  BY <1>7 DEF AddPeer
<1>8. CASE \E i \in PeerIds : PermissionExpires(i)
  BY <1>8 DEF PermissionExpires
<1>9. CASE \E r \in replies : Lose(r)
  BY <1>9 DEF Lose
<1> QED BY <1>1, <1>2, <1>3, <1>4, <1>5, <1>6, <1>7, <1>8, <1>9

\* The getNextState functions.
LEMMA RestFrom ==
  ASSUME TypeOK, Control, NoncesInStep,
         \/ TimerFires \/ FromNew \/ FromCheckSocketConnection
         \/ FromGetCredentials \/ FromAllocation \/ FromCreatePermission
         \/ FromBindChannel \/ FromReady \/ FromCleanUp \/ FromFailed
  PROVE  RestType' /\ NoncesInStep'
<1> USE TurnAssumption DEF TypeOK, RestType, NoncesInStep, Nonces, stepVars, flagVars, serverVars, histVars,
        Upsets, Statuses, SUCCESS, NULL, NoNonce, From, Enter, Refuse, Overridden, States
<1>1. CASE TimerFires
  BY <1>1 DEF TimerFires
<1>2. CASE FromNew
  BY <1>2 DEF FromNew
<1>3. CASE FromCheckSocketConnection
  BY <1>3 DEF FromCheckSocketConnection, Onward, Follow
<1>4. CASE FromGetCredentials
  BY <1>4 DEF FromGetCredentials, Onward, Follow
<1>5. CASE FromAllocation
  BY <1>5 DEF FromAllocation, Onward, Follow
<1>6. CASE FromCreatePermission
  BY <1>6, CreatePermissionOutcome
<1>7. CASE FromBindChannel
  BY <1>7, BindChannelOutcome
<1>8. CASE FromReady
  BY <1>8 DEF FromReady, Follow
<1>9. CASE FromCleanUp
  BY <1>9 DEF FromCleanUp
<1>10. CASE FromFailed
  BY <1>10 DEF FromFailed
<1> QED BY <1>1, <1>2, <1>3, <1>4, <1>5, <1>6, <1>7, <1>8, <1>9, <1>10

\* The execute functions build packets with the nonce of the connection.
LEMMA RestExecute ==
  ASSUME TypeOK, Control, NoncesInStep,
         \/ ExecuteCheckSocketConnection \/ ExecuteGetCredentials
         \/ ExecuteAllocation \/ ExecuteCreatePermission
         \/ ExecuteBindChannel \/ ExecuteReady \/ ExecuteCleanUp
         \/ ExecuteFailed
  PROVE  RestType' /\ NoncesInStep'
<1> USE TurnAssumption DEF TypeOK, RestType, NoncesInStep, Nonces, stepVars, flagVars, serverVars, histVars,
        Upsets, Statuses, SUCCESS, NULL, NoNonce, Execute, States, Packets
<1>1. CASE ExecuteCheckSocketConnection
  BY <1>1 DEF ExecuteCheckSocketConnection
<1>2. CASE ExecuteGetCredentials
  BY <1>2 DEF ExecuteGetCredentials, SendTurnPacket, Request
<1>3. CASE ExecuteAllocation
  BY <1>3 DEF ExecuteAllocation, SendTurnPacket, Request
<1>4. CASE ExecuteCreatePermission
  BY <1>4 DEF ExecuteCreatePermission, CheckTurnPeerConnections
<1>5. CASE ExecuteBindChannel
  BY <1>5 DEF ExecuteBindChannel, CheckTurnPeerConnections
<1>6. CASE ExecuteReady
  BY <1>6 DEF ExecuteReady, CheckTurnPeerConnections
<1>7. CASE ExecuteCleanUp
  BY <1>7 DEF ExecuteCleanUp, Request
<1>8. CASE ExecuteFailed
  BY <1>8 DEF ExecuteFailed
<1> QED BY <1>1, <1>2, <1>3, <1>4, <1>5, <1>6, <1>7, <1>8

\* The outcome of a step.
LEMMA RestCheck ==
  ASSUME TypeOK, Control, NoncesInStep,
         \/ CheckStop \/ CheckFailed \/ StateFailedFnReturns
         \/ CheckAgain \/ CheckFixupFailed
  PROVE  RestType' /\ NoncesInStep'
<1> USE TurnAssumption DEF TypeOK, RestType, NoncesInStep, Nonces, stepVars, flagVars, serverVars, histVars,
        Upsets, Statuses, SUCCESS, NULL, NoNonce, Check, States, Control, FailedInv
<1>1. CASE CheckStop
  BY <1>1 DEF CheckStop
<1>2. CASE CheckFailed
  BY <1>2 DEF CheckFailed
<1>3. CASE StateFailedFnReturns
  BY <1>3 DEF StateFailedFnReturns
<1>4. CASE CheckAgain
  BY <1>4 DEF CheckAgain
<1>5. CASE CheckFixupFailed
  BY <1>5 DEF CheckFixupFailed
<1> QED BY <1>1, <1>2, <1>3, <1>4, <1>5

\* The replies: a new nonce goes into every packet that carries one.
LEMMA RestReplies ==
  ASSUME TypeOK, NoncesInStep, NEW r \in replies, HandleReply(r)
  PROVE  RestType' /\ NoncesInStep'
<1> USE TurnAssumption DEF TypeOK, RestType, NoncesInStep, Nonces, stepVars, histVars, NULL, NoNonce, Receives
<1>1. CASE HandleAllocateSuccess(r)
  BY <1>1 DEF HandleAllocateSuccess
<1>2. CASE HandleRefreshSuccess(r)
  BY <1>2 DEF HandleRefreshSuccess
<1>3. CASE HandleCreatePermissionSuccess(r)
  BY <1>3 DEF HandleCreatePermissionSuccess
<1>4. CASE HandleChannelBindSuccess(r)
  BY <1>4 DEF HandleChannelBindSuccess
<1>5. CASE HandleStunError(r)
  <2>1. r.type \in {"401", "438"} => r.nonce \in Nonces
    BY DEF Reply
  <2> QED BY <1>5, <2>1 DEF HandleStunError, UpdateNonce
<1> QED BY <1>1, <1>2, <1>3, <1>4, <1>5 DEF HandleReply

\* The flags.
FlagType ==
  /\ timer \in BOOLEAN /\ stateTimedOut \in BOOLEAN /\ stopTurnConnection \in BOOLEAN
  /\ hasAllocation \in BOOLEAN /\ shutdownComplete \in BOOLEAN
  /\ credentialObtained \in BOOLEAN /\ deallocatePacketSent \in BOOLEAN
  /\ connectionClosed \in BOOLEAN

\* Every step assigns the flags truth values.
LEMMA FlagsStep ==
  ASSUME TypeOK, Next
  PROVE  FlagType'
<1>0. FlagType
  BY Zenon DEF TypeOK, FlagType
<1> USE <1>0 DEF FlagType, stepVars, flagVars, serverVars, histVars
<1>1. CASE Start
  BY <1>1, Zenon DEF Start
<1>2. CASE Shutdown
  BY <1>2, Zenon DEF Shutdown
<1>3. CASE SocketCloses
  BY <1>3, Zenon DEF SocketCloses
<1>4. CASE ServerChangesNonce
  BY <1>4, Zenon DEF ServerChangesNonce
<1>5. CASE StateTimeout
  BY <1>5, Zenon DEF StateTimeout
<1>6. CASE AllocationExpires
  BY <1>6, Zenon DEF AllocationExpires
<1>7. CASE TimerFires
  BY <1>7, Zenon DEF TimerFires
<1>8. CASE FromNew
  BY <1>8, Zenon DEF FromNew, From
<1>9. CASE FromCheckSocketConnection
  BY <1>9, Zenon DEF FromCheckSocketConnection, From, Onward, Follow
<1>10. CASE FromGetCredentials
  BY <1>10, Zenon DEF FromGetCredentials, From, Onward, Follow
<1>11. CASE FromAllocation
  BY <1>11, Zenon DEF FromAllocation, From, Onward, Follow
<1>12. CASE FromCreatePermission
  BY <1>12, Zenon DEF FromCreatePermission, From, Follow
<1>13. CASE FromBindChannel
  BY <1>13, Zenon DEF FromBindChannel, From, Follow
<1>14. CASE FromReady
  BY <1>14, Zenon DEF FromReady, From, Follow
<1>15. CASE FromCleanUp
  BY <1>15, Zenon DEF FromCleanUp, From
<1>16. CASE FromFailed
  BY <1>16, Zenon DEF FromFailed, From
<1>17. CASE ExecuteCheckSocketConnection
  BY <1>17, Zenon DEF ExecuteCheckSocketConnection, Execute
<1>18. CASE ExecuteGetCredentials
  BY <1>18, Zenon DEF ExecuteGetCredentials, Execute
<1>19. CASE ExecuteAllocation
  BY <1>19, Zenon DEF ExecuteAllocation, Execute
<1>20. CASE ExecuteCreatePermission
  BY <1>20, Zenon DEF ExecuteCreatePermission, Execute
<1>21. CASE ExecuteBindChannel
  BY <1>21, Zenon DEF ExecuteBindChannel, Execute
<1>22. CASE ExecuteReady
  BY <1>22, Zenon DEF ExecuteReady, Execute
<1>23. CASE ExecuteCleanUp
  BY <1>23, Zenon DEF ExecuteCleanUp, Execute
<1>24. CASE ExecuteFailed
  BY <1>24, Zenon DEF ExecuteFailed, Execute
<1>25. CASE CheckStop
  BY <1>25, Zenon DEF CheckStop, Check
<1>26. CASE CheckFailed
  BY <1>26, Zenon DEF CheckFailed, Check
<1>27. CASE StateFailedFnReturns
  BY <1>27, Zenon DEF StateFailedFnReturns
<1>28. CASE CheckAgain
  BY <1>28, Zenon DEF CheckAgain, Check
<1>29. CASE CheckFixupFailed
  BY <1>29, Zenon DEF CheckFixupFailed, Check
<1>30. CASE \E a \in Addresses : AddPeer(a)
  BY <1>30, Zenon DEF AddPeer
<1>31. CASE \E i \in PeerIds : PermissionExpires(i)
  BY <1>31, Zenon DEF PermissionExpires
<1>32. CASE \E r \in replies : Lose(r)
  BY <1>32, Zenon DEF Lose
<1>33. CASE \E r \in replies : HandleReply(r)
  BY <1>33, ZenonT(60) DEF HandleReply, HandleAllocateSuccess, HandleRefreshSuccess, HandleCreatePermissionSuccess,
             HandleChannelBindSuccess, HandleStunError, Receives
<1> QED
  BY <1>1, <1>2, <1>3, <1>4, <1>5, <1>6, <1>7, <1>8, <1>9, <1>10, <1>11, <1>12,
     <1>13, <1>14, <1>15, <1>16, <1>17, <1>18, <1>19, <1>20, <1>21, <1>22, <1>23, <1>24,
     <1>25, <1>26, <1>27, <1>28, <1>29, <1>30, <1>31, <1>32, <1>33, Zenon DEF Next, Step

-----------------------------------------------------------------------------
(* The invariant, and what follows from it.                                *)

\* The type invariant, put together.
LEMMA TypeParts ==
  /\ RestType /\ FlagType /\ PeersType => TypeOK
  /\ (RestType /\ FlagType /\ PeersType)' => TypeOK'
BY Zenon DEF TypeOK, RestType, FlagType, PeersType

\* The invariant holds of a new connection,
LEMMA TurnInit == Init => TurnInv
<1> SUFFICES ASSUME Init PROVE TurnInv
  OBVIOUS
<1>1. RestType
  BY TurnAssumption DEF Init, RestType, States, Statuses, Nonces, SUCCESS, NULL, NoNonce
<1>2. FlagType
  BY Zenon DEF Init, FlagType
<1>3. PeersType /\ PeersInv
  BY TurnAssumption DEF Init, PeersType, PeersInv, PeerIds
<1>4. Control
  BY DEF Init, Control, MachineInv, HealthyInv, FailedInv, SUCCESS
<1>5. NoncesInStep
  BY DEF Init, NoncesInStep
<1> QED BY <1>1, <1>2, <1>3, <1>4, <1>5, TypeParts DEF TurnInv, Control

\* every step keeps it,
LEMMA TurnStep == TurnInv /\ [Next]_vars => TurnInv'
<1> SUFFICES ASSUME TurnInv, [Next]_vars PROVE TurnInv'
  OBVIOUS
<1>0. TypeOK /\ Control /\ NoncesInStep /\ PeersInv
  BY DEF TurnInv, Control
<1>1. CASE Next
  <2>1. Control'
    BY <1>0, <1>1, ControlOthers, ControlReplies, ControlFrom, ControlExecute, ControlCheck
       DEF Next, Step
  <2>2. RestType' /\ NoncesInStep'
    BY <1>0, <1>1, RestOthers, RestReplies, RestFrom, RestExecute, RestCheck DEF Next, Step
  <2>3. FlagType'
    BY <1>0, <1>1, FlagsStep
  <2>4. PeersType' /\ PeersInv'
    <3>1. CASE \E a \in Addresses : AddPeer(a)
      BY <1>0, <3>1, PeersAdd
    <3>2. CASE ~\E a \in Addresses : AddPeer(a)
      <4>1. KeepsPeers
        BY <1>0, <1>1, <3>2, PeersOthers, PeersReplies, PeersSteps DEF Next
      <4> QED BY <1>0, <4>1, PeersKept
    <3> QED BY <3>1, <3>2
  <2> QED BY <2>1, <2>2, <2>3, <2>4, TypeParts DEF TurnInv, Control
<1>2. CASE UNCHANGED vars
  <2>1. TypeOK'
    BY <1>0, <1>2 DEF TypeOK, PeerIds, vars, stepVars, flagVars, serverVars, histVars
  <2>2. Control'
    BY <1>0, <1>2 DEF Control, MachineInv, HealthyInv, FailedInv, Reported, EntersFailed, CleansUp,
                      Over, vars, stepVars, flagVars, serverVars, histVars
  <2>3. NoncesInStep' /\ PeersInv'
    BY <1>0, <1>2 DEF NoncesInStep, PeersInv, PeerIds, vars, serverVars
  <2> QED BY <2>1, <2>2, <2>3 DEF TurnInv, Control
<1> QED BY <1>1, <1>2

\* and so it holds throughout.
LEMMA TurnInvariant == Spec => []TurnInv
BY TurnInit, TurnStep, PTL DEF Spec

\* The variables keep their types: among them, turnPeerList[] stays within its
\* size without two entries for one address, and every reply in flight is about
\* an entry that exists or a nonce the server has had.
THEOREM TypeCorrect == Spec => []TypeOK
<1>1. TurnInv => TypeOK
  BY DEF TurnInv
<1> QED BY <1>1, TurnInvariant, PTL

\* However shutdown, socket errors, late replies and the failure callback meet
\* the steps of the state machine, no transition of it is refused, and the
\* failure of the connection is reported once.
THEOREM MachineStaysInStep == Spec => []MachineInStep
<1>1. TurnInv => MachineInStep
  BY DEF TurnInv, MachineInStep, TransitionsAccepted, FailureReportedOnce, MachineInv, FailedInv
<1> QED BY <1>1, TurnInvariant, PTL

\* turnConnectionUpdateNonce misses no packet that was built in advance.
THEOREM NoncesStayInStep == Spec => []NoncesInStep
<1>1. TurnInv => NoncesInStep
  BY DEF TurnInv
<1> QED BY <1>1, TurnInvariant, PTL

\* turnConnectionSendData uses only channels that the server has bound to the
\* address of the peer.
THEOREM ChannelsBound == Spec => []SendsOnBoundChannels
<1>1. TurnInv => SendsOnBoundChannels
  BY DEF TurnInv, SendsOnBoundChannels, PeersInv, MaySend
<1> QED BY <1>1, TurnInvariant, PTL

\* A shutdown that completes without an error leaves no allocation, no packet
\* and no open socket behind.
THEOREM ShutdownIsClean == Spec => []CleanShutdown
<1>1. TurnInv => CleanShutdown
  BY DEF TurnInv, CleanShutdown, HealthyInv, FailedInv
<1> QED BY <1>1, TurnInvariant, PTL

=============================================================================
