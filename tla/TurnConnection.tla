--------------------------- MODULE TurnConnection ---------------------------
(***************************************************************************)
(* One TURN connection (src/src/source/Ice/TurnConnection.c and            *)
(* TurnConnectionStateMachine.c).  Three kinds of threads meet here: the   *)
(* timer queue, which steps the state machine under the connection's lock; *)
(* the connection listener, which hands over the server's replies; and     *)
(* the application, which adds peers, sends data and shuts down.           *)
(*                                                                         *)
(* A callback of the timer is a little program, pc.  Every getNextState    *)
(* and every execute function of the state machine is one action; pc is    *)
(* "idle" or "callback" exactly when the timer thread does not hold the    *)
(* lock.  The atomics stopTurnConnection and connectionClosed change at    *)
(* any moment.                                                             *)
(*                                                                         *)
(* Abstractions.  Instants are flags: a deadline has passed or has not, a  *)
(* lifetime is "valid" or within its grace period ("expiring").  A packet  *)
(* built in advance is the nonce it carries.  The server answers a request *)
(* from its state at the time the request was sent, or never; the answer   *)
(* then stays in flight for as long as it likes.  A transaction id evicted *)
(* from a peer's store is an answer lost.  The wait for a condition        *)
(* variable in turnConnectionShutdown changes no state and is left out, as *)
(* are freeing the connection and the layout of channel data messages.     *)
(***************************************************************************)
EXTENDS Integers, Sequences, FiniteSets

CONSTANTS
  Addresses,                    \* peer addresses the application may add
  DEFAULT_TURN_MAX_PEER_COUNT,  \* entries of turnPeerList[]
  MaxUpsets,                    \* bound: changes of the nonce and lifetimes that run low
  MaxReplies                    \* bound: replies in flight

ASSUME TurnAssumption ==
  /\ IsFiniteSet(Addresses)
  /\ DEFAULT_TURN_MAX_PEER_COUNT \in Nat
  /\ MaxUpsets \in Nat
  /\ MaxReplies \in Nat

NULL    == -1                   \* no packet has been built
NoNonce == 0                    \* a packet without a nonce
SUCCESS == "STATUS_SUCCESS"

Nonces == 1..MaxUpsets + 1
Packets == {"pTurnPacket", "pTurnChannelBindPacket",
            "pTurnCreatePermissionPacket", "pTurnAllocationRefreshPacket"}
States == {"NEW", "CHECK_SOCKET_CONNECTION", "GET_CREDENTIALS", "ALLOCATION",
           "CREATE_PERMISSION", "BIND_CHANNEL", "READY", "CLEAN_UP", "FAILED"}
Working == States \ {"NEW", "CLEAN_UP", "FAILED"}
PeerStates == {"CREATE_PERMISSION", "BIND_CHANNEL", "READY", "FAILED"}

(* What a step of the state machine may return. *)
Statuses ==
  {SUCCESS, "STATUS_INVALID_STREAM_STATE", "STATUS_NULL_ARG",
   "STATUS_SOCKET_CONNECTION_CLOSED_ALREADY", "GET_CREDENTIALS_FAILED",
   "ALLOCATION_FAILED", "FAILED_TO_CREATE_PERMISSION", "FAILED_TO_BIND_CHANNEL"}

(* Mutant: a refresh cannot go back from READY to CREATE_PERMISSION. *)
AcceptStatesNoRefresh ==
  [s \in States |->
     CASE s = "NEW" -> {"NEW", "CLEAN_UP"}
       [] s = "CHECK_SOCKET_CONNECTION" -> {"NEW", "CHECK_SOCKET_CONNECTION"}
       [] s = "GET_CREDENTIALS" -> {"CHECK_SOCKET_CONNECTION", "GET_CREDENTIALS"}
       [] s = "ALLOCATION" -> {"ALLOCATION", "GET_CREDENTIALS"}
       [] s = "CREATE_PERMISSION" -> {"CREATE_PERMISSION", "ALLOCATION"}
       [] s = "BIND_CHANNEL" -> {"BIND_CHANNEL", "CREATE_PERMISSION"}
       [] s = "READY" -> {"READY", "BIND_CHANNEL"}
       [] OTHER -> Working \cup {"CLEAN_UP", "FAILED"}]

(* TURN_CONNECTION_STATE_MACHINE_STATES: who may be left for a state. *)
AcceptStates ==
  [NEW                     |-> {"NEW", "CLEAN_UP"},
   CHECK_SOCKET_CONNECTION |-> {"NEW", "CHECK_SOCKET_CONNECTION"},
   GET_CREDENTIALS         |-> {"CHECK_SOCKET_CONNECTION", "GET_CREDENTIALS"},
   ALLOCATION              |-> {"ALLOCATION", "GET_CREDENTIALS"},
   CREATE_PERMISSION       |-> {"CREATE_PERMISSION", "ALLOCATION", "READY"},
   BIND_CHANNEL            |-> {"BIND_CHANNEL", "CREATE_PERMISSION"},
   READY                   |-> {"READY", "BIND_CHANNEL"},
   CLEAN_UP                |-> Working \cup {"CLEAN_UP", "FAILED"},
   FAILED                  |-> Working \cup {"CLEAN_UP", "FAILED"}]

VARIABLES
  \* pTurnConnection->state, the state of the generic state machine, and the
  \* progress of the timer callback
  state, machineState, pc, phase, oldState, status, timer,
  \* the connection
  errorStatus, stateTimedOut, stopTurnConnection, hasAllocation,
  shutdownComplete, credentialObtained, deallocatePacketSent, turnNonce,
  packets, allocation, turnPeerList,
  \* the socket
  connectionClosed,
  \* the server and the replies in flight
  serverNonce, bound, replies,
  \* history: failures reported, and lifetimes that ran low
  failures, expiries

stepVars   == <<machineState, pc, phase, oldState, status, timer>>
flagVars   == <<errorStatus, hasAllocation, shutdownComplete, credentialObtained,
                deallocatePacketSent>>
serverVars == <<serverNonce, bound, replies>>
histVars   == <<failures, expiries>>
vars == <<stepVars, state, flagVars, stateTimedOut, stopTurnConnection, turnNonce,
          packets, allocation, turnPeerList, connectionClosed, serverVars, histVars>>

Peer == [address : Addresses, connectionState : PeerStates, ready : BOOLEAN,
         permission : {"none", "valid", "expiring"}, known : BOOLEAN]
Reply == [type : {"401", "438"}, nonce : Nonces]
           \cup [type : {"allocated", "refreshed", "deallocated"}]
           \cup [type : {"permitted", "bound", "refused"},
                 peer : 1..DEFAULT_TURN_MAX_PEER_COUNT]

Unlocked == pc \in {"idle", "callback"}
PeerIds == DOMAIN turnPeerList
Upsets == serverNonce - 1 + expiries
In(s) == {i \in PeerIds : turnPeerList[i].connectionState = s}

TypeOK ==
  /\ state \in States /\ machineState \in States /\ oldState \in States
  /\ pc \in {"idle", "from", "execute", "check", "callback"}
  /\ phase \in {"first", "fixup"}
  /\ status \in Statuses /\ errorStatus \in Statuses
  /\ timer \in BOOLEAN /\ stateTimedOut \in BOOLEAN /\ stopTurnConnection \in BOOLEAN
  /\ hasAllocation \in BOOLEAN /\ shutdownComplete \in BOOLEAN
  /\ credentialObtained \in BOOLEAN /\ deallocatePacketSent \in BOOLEAN
  /\ turnNonce \in Nonces \cup {NoNonce}
  /\ packets \in [Packets -> Nonces \cup {NoNonce, NULL}]
  /\ allocation \in {"none", "valid", "expiring"}
  /\ turnPeerList \in Seq(Peer) /\ Len(turnPeerList) <= DEFAULT_TURN_MAX_PEER_COUNT
  /\ \A i, j \in PeerIds : turnPeerList[i].address = turnPeerList[j].address => i = j
  /\ connectionClosed \in BOOLEAN
  /\ serverNonce \in Nonces
  /\ bound \subseteq (1..DEFAULT_TURN_MAX_PEER_COUNT) \X Addresses
  /\ replies \subseteq Reply
  /\ failures \in 0..3 /\ expiries \in 0..MaxUpsets

Init ==
  /\ state = "NEW" /\ machineState = "NEW" /\ oldState = "NEW"
  /\ pc = "idle" /\ phase = "first" /\ status = SUCCESS /\ timer = FALSE
  /\ errorStatus = SUCCESS /\ stateTimedOut = FALSE
  /\ stopTurnConnection = FALSE /\ hasAllocation = FALSE /\ shutdownComplete = FALSE
  /\ credentialObtained = FALSE /\ deallocatePacketSent = FALSE
  /\ turnNonce = NoNonce
  /\ packets = [k \in Packets |-> NULL]
  /\ allocation = "none"
  /\ turnPeerList = <<>>
  /\ connectionClosed = FALSE
  /\ serverNonce = 1 /\ bound = {} /\ replies = {}
  /\ failures = 0 /\ expiries = 0

-----------------------------------------------------------------------------
(* The server: external.  What it answers to a request that carries nonce  *)
(* n, given that it would otherwise grant it with the reply `granted`.     *)
Answer(n, granted) ==
  IF n = NoNonce THEN [type |-> "401", nonce |-> serverNonce]
  ELSE IF n # serverNonce THEN [type |-> "438", nonce |-> serverNonce]
  ELSE granted

(* iceUtilsSendStunPacket of a single request: refused by a closed socket, *)
(* otherwise answered or lost.                                             *)
Request(n, granted) ==
  /\ replies' \in {replies, replies \cup {Answer(n, granted)}}
  /\ Cardinality(replies') <= MaxReplies
  /\ UNCHANGED <<serverNonce, bound>>

ServerChangesNonce ==
  /\ Unlocked
  /\ Upsets < MaxUpsets
  /\ serverNonce' = serverNonce + 1
  /\ UNCHANGED <<stepVars, state, flagVars, stateTimedOut, stopTurnConnection, turnNonce,
                 packets, allocation, turnPeerList, connectionClosed, bound, replies, histVars>>

Lose(r) ==
  /\ Unlocked
  /\ r \in replies
  /\ replies' = replies \ {r}
  /\ UNCHANGED <<stepVars, state, flagVars, stateTimedOut, stopTurnConnection, turnNonce,
                 packets, allocation, turnPeerList, connectionClosed, serverNonce, bound, histVars>>

-----------------------------------------------------------------------------
(* The application.                                                        *)

(* turnConnectionStart; the timer is added once, while the state is NEW. *)
Start ==
  /\ pc = "idle" /\ state = "NEW" /\ ~timer
  /\ timer' = TRUE
  /\ UNCHANGED <<machineState, pc, phase, oldState, status, state, flagVars, stateTimedOut,
                 stopTurnConnection, turnNonce, packets, allocation, turnPeerList,
                 connectionClosed, serverVars, histVars>>

NewPeer(a) ==
  [address |-> a, connectionState |-> "CREATE_PERMISSION", ready |-> FALSE,
   permission |-> "none", known |-> FALSE]

(* Mutant: an address that is listed already gets a second entry. *)
AddPeerTwice(a) ==
  /\ Unlocked
  /\ Len(turnPeerList) < DEFAULT_TURN_MAX_PEER_COUNT
  /\ turnPeerList' = Append(turnPeerList, NewPeer(a))
  /\ UNCHANGED <<stepVars, state, flagVars, stateTimedOut, stopTurnConnection, turnNonce,
                 packets, allocation, connectionClosed, serverVars, histVars>>

AddPeer(a) ==
  /\ Unlocked
  /\ \A i \in PeerIds : turnPeerList[i].address # a
  /\ Len(turnPeerList) < DEFAULT_TURN_MAX_PEER_COUNT
  /\ turnPeerList' = Append(turnPeerList, NewPeer(a))
  /\ UNCHANGED <<stepVars, state, flagVars, stateTimedOut, stopTurnConnection, turnNonce,
                 packets, allocation, connectionClosed, serverVars, histVars>>

(* turnConnectionSendData puts the data on the peer's channel, or drops it. *)
(* It writes after releasing the lock, but channel numbers never change.    *)
MaySend(i) ==
  /\ state \in {"CREATE_PERMISSION", "BIND_CHANNEL", "READY"}
  /\ turnPeerList[i].connectionState # "FAILED"
  /\ turnPeerList[i].ready

(* turnConnectionShutdown sets the flag before it takes the lock. *)
Shutdown ==
  /\ ~stopTurnConnection
  /\ stopTurnConnection' = TRUE
  /\ UNCHANGED <<stepVars, state, flagVars, stateTimedOut, turnNonce, packets, allocation,
                 turnPeerList, connectionClosed, serverVars, histVars>>

-----------------------------------------------------------------------------
(* The connection listener: replies, and errors of the socket.             *)

SocketCloses ==
  /\ ~connectionClosed
  /\ connectionClosed' = TRUE
  /\ UNCHANGED <<stepVars, state, flagVars, stateTimedOut, stopTurnConnection, turnNonce,
                 packets, allocation, turnPeerList, serverVars, histVars>>

(* Every reply handler takes the reply out of flight and runs under the    *)
(* lock; turnConnectionHandleStun and turnConnectionHandleStunError never  *)
(* look at state.                                                          *)
Receives(r) ==
  /\ Unlocked
  /\ r \in replies
  /\ replies' = replies \ {r}
  /\ UNCHANGED <<stepVars, state, stateTimedOut, stopTurnConnection, connectionClosed,
                 serverNonce, bound, histVars, errorStatus, shutdownComplete, deallocatePacketSent>>

(* Mutant: a reply after the shutdown counts. *)
HandleAllocateSuccessLate(r) ==
  /\ Receives(r) /\ r.type = "allocated"
  /\ allocation' = "valid" /\ hasAllocation' = TRUE
  /\ UNCHANGED <<credentialObtained, turnNonce, packets, turnPeerList>>

HandleAllocateSuccess(r) ==
  /\ Receives(r) /\ r.type = "allocated"
  /\ IF stopTurnConnection THEN UNCHANGED <<allocation, hasAllocation>>
     ELSE allocation' = "valid" /\ hasAllocation' = TRUE
  /\ UNCHANGED <<credentialObtained, turnNonce, packets, turnPeerList>>

HandleRefreshSuccess(r) ==
  /\ Receives(r) /\ r.type \in {"refreshed", "deallocated"}
  /\ IF r.type = "deallocated"
     THEN hasAllocation' = FALSE /\ UNCHANGED allocation
     ELSE allocation' = "valid" /\ UNCHANGED hasAllocation
  /\ UNCHANGED <<credentialObtained, turnNonce, packets, turnPeerList>>

HandleCreatePermissionSuccess(r) ==
  /\ Receives(r) /\ r.type = "permitted"
  /\ turnPeerList' =
       IF ~turnPeerList[r.peer].known THEN turnPeerList
       ELSE [turnPeerList EXCEPT
               ![r.peer].connectionState = IF @ = "CREATE_PERMISSION" THEN "BIND_CHANNEL" ELSE @,
               ![r.peer].permission = "valid"]
  /\ UNCHANGED <<allocation, hasAllocation, credentialObtained, turnNonce, packets>>

(* Mutant: the transaction id is not compared. *)
HandleChannelBindSuccessAny(r) ==
  /\ Receives(r) /\ r.type = "bound"
  /\ turnPeerList' = [i \in PeerIds |->
       IF turnPeerList[i].connectionState = "BIND_CHANNEL"
       THEN [turnPeerList[i] EXCEPT !.connectionState = "READY", !.ready = TRUE]
       ELSE turnPeerList[i]]
  /\ UNCHANGED <<allocation, hasAllocation, credentialObtained, turnNonce, packets>>

HandleChannelBindSuccess(r) ==
  /\ Receives(r) /\ r.type = "bound"
  /\ turnPeerList' =
       IF ~(turnPeerList[r.peer].known /\ turnPeerList[r.peer].connectionState = "BIND_CHANNEL")
       THEN turnPeerList
       ELSE [turnPeerList EXCEPT ![r.peer].connectionState = "READY", ![r.peer].ready = TRUE]
  /\ UNCHANGED <<allocation, hasAllocation, credentialObtained, turnNonce, packets>>

(* Mutant: one of the packets is forgotten. *)
UpdateNonceNotBind(n) ==
  /\ turnNonce' = n
  /\ packets' = [k \in Packets |->
       IF packets[k] \in {NULL, NoNonce} \/ k = "pTurnChannelBindPacket" THEN packets[k] ELSE n]

(* turnConnectionUpdateNonce: the packets that exist and carry a nonce. *)
UpdateNonce(n) ==
  /\ turnNonce' = n
  /\ packets' = [k \in Packets |-> IF packets[k] \in {NULL, NoNonce} THEN packets[k] ELSE n]

(* turnConnectionHandleStunError *)
HandleStunError(r) ==
  /\ Receives(r) /\ r.type \in {"401", "438", "refused"}
  /\ \/ /\ deallocatePacketSent
        /\ hasAllocation' = FALSE
        /\ UNCHANGED <<credentialObtained, turnNonce, packets, turnPeerList>>
     \/ /\ ~deallocatePacketSent /\ r.type \in {"401", "438"}
        /\ credentialObtained' = (credentialObtained \/ r.type = "401")
        /\ UpdateNonce(r.nonce)
        /\ UNCHANGED <<hasAllocation, turnPeerList>>
     \/ /\ ~deallocatePacketSent /\ r.type = "refused"
        /\ turnPeerList' = IF ~turnPeerList[r.peer].known THEN turnPeerList
                           ELSE [turnPeerList EXCEPT ![r.peer].connectionState = "FAILED"]
        /\ UNCHANGED <<hasAllocation, credentialObtained, turnNonce, packets>>
  /\ UNCHANGED allocation

-----------------------------------------------------------------------------
(* The clock.                                                              *)
StateTimeout ==
  /\ Unlocked
  /\ ~stateTimedOut
  /\ state \in {"GET_CREDENTIALS", "ALLOCATION", "CREATE_PERMISSION", "BIND_CHANNEL", "CLEAN_UP"}
  /\ stateTimedOut' = TRUE
  /\ UNCHANGED <<stepVars, state, flagVars, stopTurnConnection, turnNonce, packets, allocation,
                 turnPeerList, connectionClosed, serverVars, histVars>>

AllocationExpires ==
  /\ Unlocked
  /\ Upsets < MaxUpsets
  /\ allocation = "valid"
  /\ allocation' = "expiring"
  /\ expiries' = expiries + 1
  /\ UNCHANGED <<stepVars, state, flagVars, stateTimedOut, stopTurnConnection, turnNonce, packets,
                 turnPeerList, connectionClosed, serverVars, failures>>

PermissionExpires(i) ==
  /\ Unlocked
  /\ Upsets < MaxUpsets
  /\ turnPeerList[i].permission = "valid"
  /\ turnPeerList' = [turnPeerList EXCEPT ![i].permission = "expiring"]
  /\ expiries' = expiries + 1
  /\ UNCHANGED <<stepVars, state, flagVars, stateTimedOut, stopTurnConnection, turnNonce, packets,
                 allocation, connectionClosed, serverVars, failures>>

-----------------------------------------------------------------------------
(* The timer callback: stepTurnConnectionStateMachine.                     *)

TimerFires ==
  /\ pc = "idle" /\ timer
  /\ pc' = "from" /\ phase' = "first" /\ oldState' = state /\ status' = SUCCESS
  /\ UNCHANGED <<machineState, timer, state, flagVars, stateTimedOut, stopTurnConnection, turnNonce,
                 packets, allocation, turnPeerList, connectionClosed, serverVars, histVars>>

(* stepStateMachine of the generic state machine (deps/src/state): ask     *)
(* the current state for the next one, check that it may be entered,       *)
(* enter it and execute it.                                                *)
From(s) ==
  /\ pc = "from" /\ machineState = s
  /\ UNCHANGED <<phase, oldState, timer, state, errorStatus, hasAllocation, credentialObtained,
                 deallocatePacketSent, stopTurnConnection, turnNonce, allocation,
                 serverVars, histVars>>

Enter(next) ==
  IF machineState \in AcceptStates[next]
  THEN pc' = "execute" /\ machineState' = next /\ UNCHANGED status
  ELSE pc' = "check" /\ status' = "STATUS_INVALID_STREAM_STATE" /\ UNCHANGED machineState

Refuse(error) ==
  pc' = "check" /\ status' = error /\ UNCHANGED machineState

(* Every getNextState function but the ones of NEW and FAILED first follows *)
(* a state that was set from outside.                                       *)
Overridden == state \in {"CLEAN_UP", "FAILED"}
Follow == Overridden /\ Enter(state) /\ UNCHANGED stateTimedOut

Onward(ready, next) ==
  /\ ~Overridden
  /\ IF ready THEN Enter(next) /\ stateTimedOut' = FALSE
     ELSE Enter(machineState) /\ UNCHANGED stateTimedOut

FromNew ==
  /\ From("NEW")
  /\ Enter("CHECK_SOCKET_CONNECTION")
  /\ UNCHANGED <<stateTimedOut, shutdownComplete, packets, turnPeerList, connectionClosed>>

FromCheckSocketConnection ==
  /\ From("CHECK_SOCKET_CONNECTION")
  /\ Follow \/ \E isConnected \in BOOLEAN : Onward(isConnected, "GET_CREDENTIALS")
  /\ UNCHANGED <<shutdownComplete, packets, turnPeerList, connectionClosed>>

FromGetCredentials ==
  /\ From("GET_CREDENTIALS")
  /\ Follow \/ Onward(credentialObtained, "ALLOCATION")
  /\ UNCHANGED <<shutdownComplete, packets, turnPeerList, connectionClosed>>

FromAllocation ==
  /\ From("ALLOCATION")
  /\ Follow \/ Onward(hasAllocation, "CREATE_PERMISSION")
  /\ UNCHANGED <<shutdownComplete, packets, turnPeerList, connectionClosed>>

FromCreatePermission ==
  /\ From("CREATE_PERMISSION")
  /\ LET permitted == In("BIND_CHANNEL") \cup In("READY") IN
     \/ Follow
     \/ /\ ~Overridden /\ PeerIds = {}
        /\ Enter("CREATE_PERMISSION") /\ stateTimedOut' = FALSE
     \/ /\ ~Overridden /\ PeerIds # {} /\ (stateTimedOut \/ permitted = PeerIds)
        /\ IF permitted # {} THEN Enter("BIND_CHANNEL") /\ stateTimedOut' = FALSE
           ELSE Refuse("FAILED_TO_CREATE_PERMISSION") /\ UNCHANGED stateTimedOut
     \/ /\ ~Overridden /\ PeerIds # {} /\ ~(stateTimedOut \/ permitted = PeerIds)
        /\ Enter("CREATE_PERMISSION") /\ UNCHANGED stateTimedOut
  /\ UNCHANGED <<shutdownComplete, packets, turnPeerList, connectionClosed>>

(* Mutant: no timeout, wait until every channel is bound. *)
FromBindChannelAll ==
  /\ From("BIND_CHANNEL")
  /\ \/ Follow
     \/ /\ ~Overridden
        /\ UNCHANGED stateTimedOut
        /\ Enter(IF In("READY") = PeerIds THEN "READY" ELSE "BIND_CHANNEL")
  /\ UNCHANGED <<shutdownComplete, packets, turnPeerList, connectionClosed>>

FromBindChannel ==
  /\ From("BIND_CHANNEL")
  /\ \/ Follow
     \/ /\ ~Overridden
        /\ UNCHANGED stateTimedOut
        /\ IF stateTimedOut \/ In("READY") = PeerIds
           THEN IF In("READY") # {} THEN Enter("READY") ELSE Refuse("FAILED_TO_BIND_CHANNEL")
           ELSE Enter("BIND_CHANNEL")
  /\ UNCHANGED <<shutdownComplete, packets, turnPeerList, connectionClosed>>

FromReady ==
  /\ From("READY")
  /\ \/ Follow /\ UNCHANGED turnPeerList
     \/ /\ ~Overridden
        /\ IF \E i \in PeerIds : turnPeerList[i].permission = "expiring"
           THEN /\ turnPeerList' = [i \in PeerIds |->
                     [turnPeerList[i] EXCEPT !.connectionState = "CREATE_PERMISSION"]]
                /\ Enter("CREATE_PERMISSION") /\ stateTimedOut' = FALSE
           ELSE Enter("READY") /\ UNCHANGED <<turnPeerList, stateTimedOut>>
  /\ UNCHANGED <<shutdownComplete, packets, connectionClosed>>

FromCleanUp ==
  /\ From("CLEAN_UP")
  /\ UNCHANGED stateTimedOut
  /\ \/ /\ state = "FAILED" /\ Enter("FAILED")
        /\ UNCHANGED <<shutdownComplete, packets, turnPeerList, connectionClosed>>
     \/ /\ state # "FAILED"
        /\ IF connectionClosed \/ ~hasAllocation \/ stateTimedOut
           THEN /\ turnPeerList' = [i \in PeerIds |-> [turnPeerList[i] EXCEPT !.known = FALSE]]
                /\ packets' = [k \in Packets |-> NULL]
                /\ connectionClosed' = TRUE
                /\ shutdownComplete' = TRUE
                /\ Enter(IF errorStatus = SUCCESS THEN "CLEAN_UP" ELSE "FAILED")
           ELSE /\ Enter("CLEAN_UP")
                /\ UNCHANGED <<shutdownComplete, packets, turnPeerList, connectionClosed>>

FromFailed ==
  /\ From("FAILED")
  /\ IF state = "CLEAN_UP" THEN Enter("CLEAN_UP") /\ UNCHANGED stateTimedOut
     ELSE IF ~shutdownComplete THEN Enter("CLEAN_UP") /\ stateTimedOut' = FALSE
     ELSE Enter("FAILED") /\ UNCHANGED stateTimedOut
  /\ UNCHANGED <<shutdownComplete, packets, turnPeerList, connectionClosed>>

-----------------------------------------------------------------------------
(* The execute functions.  `first` is the test by which the code tells the *)
(* first execution in a state from the later ones.                         *)
Execute(s) ==
  /\ pc = "execute" /\ machineState = s
  /\ pc' = "check"
  /\ state' = s
  /\ UNCHANGED <<machineState, phase, oldState, timer, errorStatus, shutdownComplete,
                 credentialObtained, stopTurnConnection, turnNonce, connectionClosed, histVars>>
first == state # machineState

ExecuteCheckSocketConnection ==
  /\ Execute("CHECK_SOCKET_CONNECTION")
  /\ packets' = IF first THEN [packets EXCEPT !["pTurnPacket"] = NoNonce] ELSE packets
  /\ UNCHANGED <<status, stateTimedOut, hasAllocation, deallocatePacketSent, allocation,
                 turnPeerList, serverVars>>

(* Sends pTurnPacket unless the state has timed out or the socket refuses. *)
SendTurnPacket(n, error) ==
  \/ /\ ~first /\ stateTimedOut
     /\ status' = error /\ UNCHANGED serverVars
  \/ /\ first \/ ~stateTimedOut
     /\ IF connectionClosed
        THEN status' = "STATUS_SOCKET_CONNECTION_CLOSED_ALREADY" /\ UNCHANGED serverVars
        ELSE UNCHANGED status /\ Request(n, [type |-> "allocated"])

ExecuteGetCredentials ==
  /\ Execute("GET_CREDENTIALS")
  /\ SendTurnPacket(packets["pTurnPacket"], "GET_CREDENTIALS_FAILED")
  /\ UNCHANGED <<stateTimedOut, hasAllocation, deallocatePacketSent, packets, allocation, turnPeerList>>

ExecuteAllocation ==
  /\ Execute("ALLOCATION")
  /\ packets' = IF first THEN [packets EXCEPT !["pTurnPacket"] = turnNonce] ELSE packets
  /\ SendTurnPacket(packets'["pTurnPacket"], "ALLOCATION_FAILED")
  /\ UNCHANGED <<stateTimedOut, hasAllocation, deallocatePacketSent, allocation, turnPeerList>>

(* checkTurnPeerConnections with the packets pk: every peer that waits for *)
(* a permission or a channel asks for it; `got` of them are answered, and  *)
(* `bad` of those are refused.  Errors of these sends are ignored.  Then   *)
(* turnConnectionRefreshAllocation, whose minimum interval may or may not  *)
(* have passed (due).                                                      *)
PeerAnswer(i, pk, bad) ==
  LET asksPermission == turnPeerList[i].connectionState = "CREATE_PERMISSION"
  IN Answer(IF asksPermission THEN pk["pTurnCreatePermissionPacket"] ELSE pk["pTurnChannelBindPacket"],
            [type |-> IF i \in bad THEN "refused" ELSE IF asksPermission THEN "permitted" ELSE "bound",
             peer |-> i])

CheckTurnPeerConnections(pk) ==
  \E got \in SUBSET (IF connectionClosed THEN {} ELSE In("CREATE_PERMISSION") \cup In("BIND_CHANNEL")) :
  \E bad \in SUBSET got, due \in BOOLEAN :
    LET answers == {PeerAnswer(i, pk, bad) : i \in got}
        refresh == allocation = "expiring" /\ due
    IN /\ turnPeerList' = [i \in PeerIds |->
            IF i \in In("CREATE_PERMISSION") \cup In("BIND_CHANNEL")
            THEN [turnPeerList[i] EXCEPT !.known = TRUE] ELSE turnPeerList[i]]
       /\ bound' = bound \cup {<<a.peer, turnPeerList[a.peer].address>> :
                                 a \in {b \in answers : b.type = "bound"}}
       /\ status' = IF refresh /\ connectionClosed
                    THEN "STATUS_SOCKET_CONNECTION_CLOSED_ALREADY" ELSE status
       /\ replies' \in {replies \cup answers} \cup
            (IF refresh /\ ~connectionClosed
             THEN {replies \cup answers \cup
                     {Answer(pk["pTurnAllocationRefreshPacket"], [type |-> "refreshed"])}}
             ELSE {})
       /\ Cardinality(replies') <= MaxReplies
       /\ UNCHANGED serverNonce

ExecuteCreatePermission ==
  /\ Execute("CREATE_PERMISSION")
  /\ packets' = [k \in Packets |-> IF first /\ k # "pTurnPacket" THEN turnNonce ELSE packets[k]]
  /\ CheckTurnPeerConnections(packets')
  /\ stateTimedOut' = (stateTimedOut /\ PeerIds # {})
  /\ UNCHANGED <<hasAllocation, deallocatePacketSent, allocation>>

ExecuteBindChannel ==
  /\ Execute("BIND_CHANNEL")
  /\ CheckTurnPeerConnections(packets)
  /\ UNCHANGED <<stateTimedOut, hasAllocation, deallocatePacketSent, packets, allocation>>

ExecuteReady ==
  /\ Execute("READY")
  /\ CheckTurnPeerConnections(packets)
  /\ UNCHANGED <<stateTimedOut, hasAllocation, deallocatePacketSent, packets, allocation>>

ExecuteCleanUp ==
  /\ Execute("CLEAN_UP")
  /\ LET refresh == packets["pTurnAllocationRefreshPacket"] IN
     \/ /\ ~hasAllocation
        /\ UNCHANGED <<status, deallocatePacketSent, serverVars>>
     \/ /\ hasAllocation /\ refresh = NULL
        /\ status' = "STATUS_NULL_ARG"
        /\ UNCHANGED <<deallocatePacketSent, serverVars>>
     \/ /\ hasAllocation /\ refresh # NULL /\ connectionClosed
        /\ status' = "STATUS_SOCKET_CONNECTION_CLOSED_ALREADY"
        /\ UNCHANGED <<deallocatePacketSent, serverVars>>
     \/ /\ hasAllocation /\ refresh # NULL /\ ~connectionClosed
        /\ Request(refresh, [type |-> "deallocated"])
        /\ deallocatePacketSent' = TRUE
        /\ UNCHANGED status
  /\ UNCHANGED <<stateTimedOut, hasAllocation, packets, allocation, turnPeerList>>

ExecuteFailed ==
  /\ Execute("FAILED")
  /\ hasAllocation' = FALSE
  /\ UNCHANGED <<status, stateTimedOut, deallocatePacketSent, packets, allocation, turnPeerList, serverVars>>

-----------------------------------------------------------------------------
(* What stepTurnConnectionStateMachine does with the outcome of a step.    *)
Check ==
  /\ pc = "check"
  /\ UNCHANGED <<machineState, hasAllocation, shutdownComplete, credentialObtained,
                 deallocatePacketSent, stopTurnConnection, turnNonce, packets, allocation,
                 turnPeerList, connectionClosed, serverVars, expiries>>

(* Mutant: a connection that waits for its socket is not stopped. *)
StoppingConnected ==
  status = SUCCESS /\ stopTurnConnection /\ state \notin {"NEW", "CHECK_SOCKET_CONNECTION", "CLEAN_UP"}

Stopping == status = SUCCESS /\ stopTurnConnection /\ state \notin {"NEW", "CLEAN_UP"}
Failing  == status # SUCCESS /\ state # "FAILED"

CheckStop ==
  /\ Check /\ phase = "first" /\ Stopping
  /\ state' = "CLEAN_UP" /\ stateTimedOut' = FALSE
  /\ phase' = "fixup" /\ pc' = "from"
  /\ UNCHANGED <<oldState, status, timer, errorStatus, failures>>

(* The lock is released around turnStateFailedFn. *)
CheckFailed ==
  /\ Check /\ phase = "first" /\ Failing
  /\ errorStatus' = status /\ state' = "FAILED"
  /\ failures' = failures + 1
  /\ pc' = "callback"
  /\ UNCHANGED <<oldState, phase, status, timer, stateTimedOut>>

StateFailedFnReturns ==
  /\ pc = "callback"
  /\ pc' = "from" /\ phase' = "fixup" /\ status' = SUCCESS
  /\ UNCHANGED <<machineState, oldState, timer, state, flagVars, stateTimedOut, stopTurnConnection,
                 turnNonce, packets, allocation, turnPeerList, connectionClosed, serverVars, histVars>>

(* A fix-up that fails ends the callback; so does a round that changed      *)
(* nothing, and the timer is not scheduled again once all is cleaned up.    *)
CheckAgain ==
  /\ Check
  /\ phase = "first" => ~Stopping /\ ~Failing
  /\ phase = "fixup" => status = SUCCESS
  /\ phase' = "first" /\ status' = SUCCESS
  /\ IF oldState # state
     THEN pc' = "from" /\ oldState' = state /\ UNCHANGED timer
     ELSE pc' = "idle" /\ timer' = ~shutdownComplete /\ UNCHANGED oldState
  /\ UNCHANGED <<state, errorStatus, stateTimedOut, failures>>

CheckFixupFailed ==
  /\ Check /\ phase = "fixup" /\ status # SUCCESS
  /\ pc' = "idle" /\ phase' = "first" /\ status' = SUCCESS
  /\ UNCHANGED <<oldState, timer, state, errorStatus, stateTimedOut, failures>>

-----------------------------------------------------------------------------
Step ==
  \/ TimerFires
  \/ FromNew \/ FromCheckSocketConnection \/ FromGetCredentials \/ FromAllocation
  \/ FromCreatePermission \/ FromBindChannel \/ FromReady \/ FromCleanUp \/ FromFailed
  \/ ExecuteCheckSocketConnection \/ ExecuteGetCredentials
  \/ ExecuteAllocation \/ ExecuteCreatePermission \/ ExecuteBindChannel \/ ExecuteReady
  \/ ExecuteCleanUp \/ ExecuteFailed
  \/ CheckStop \/ CheckFailed \/ StateFailedFnReturns \/ CheckAgain \/ CheckFixupFailed

HandleReply(r) ==
  \/ HandleAllocateSuccess(r) \/ HandleRefreshSuccess(r) \/ HandleCreatePermissionSuccess(r)
  \/ HandleChannelBindSuccess(r) \/ HandleStunError(r)

Next ==
  \/ Step
  \/ Start \/ Shutdown
  \/ \E a \in Addresses : AddPeer(a)
  \/ \E i \in PeerIds : PermissionExpires(i)
  \/ \E r \in replies : HandleReply(r) \/ Lose(r)
  \/ SocketCloses \/ ServerChangesNonce \/ StateTimeout \/ AllocationExpires

Spec == Init /\ [][Next]_vars

(* The timer queue keeps calling back, and time passes. *)
Fairness == WF_vars(Step) /\ SF_vars(StateTimeout)
FairSpec == Spec /\ Fairness

-----------------------------------------------------------------------------
(* Every state that a getNextState function returns may be entered from    *)
(* the state the machine is in: no step is ever refused by the table of    *)
(* accepted states, not even when stop or an error overrides the state     *)
(* from outside.                                                           *)
TransitionsAccepted == status # "STATUS_INVALID_STREAM_STATE"

(* The failure of a connection is reported to the ICE agent at most once,  *)
(* however the failure, the clean-up it triggers and a shutdown meet.      *)
FailureReportedOnce == failures <= 1

(* The state machine stays in step with the flags that other threads set   *)
(* while stepTurnConnectionStateMachine has released the lock: none of its *)
(* transitions is refused and its failure is reported once.                *)
MachineInStep == TransitionsAccepted /\ FailureReportedOnce

(* After a 401 or a 438 every packet built in advance that carries a nonce *)
(* carries the latest one, so that the next retransmission is not stale    *)
(* for the same reason again.                                              *)
NoncesInStep == \A k \in Packets : packets[k] \in {NULL, NoNonce, turnNonce}

(* Data leaves for a peer only over a channel that the server has bound to *)
(* that very address: through late replies, through the refresh of all     *)
(* permissions at once and through errors for one of the peers.            *)
SendsOnBoundChannels ==
  \A i \in PeerIds : MaySend(i) => <<i, turnPeerList[i].address>> \in bound

(* A shutdown that completes without an error leaves no allocation behind: *)
(* no late reply brings it back, the packets are freed and the socket is   *)
(* closed.                                                                 *)
CleanShutdown ==
  shutdownComplete /\ errorStatus = SUCCESS /\ pc = "idle"
    => /\ ~hasAllocation /\ connectionClosed
       /\ \A k \in Packets : packets[k] = NULL

(* A shutdown of a connection whose timer was started completes, whatever  *)
(* state it interrupts and whether or not the server answers.              *)
StopCompletes == (stopTurnConnection /\ timer) ~> shutdownComplete

(* With a peer to connect to, the states on the way to READY end: each has *)
(* its timeout, and there is no way to be pushed back for ever.            *)
NoStateIsStuck ==
  (state \in {"GET_CREDENTIALS", "ALLOCATION", "CREATE_PERMISSION", "BIND_CHANNEL"} /\ PeerIds # {})
    ~> (state = "READY" \/ shutdownComplete)

=============================================================================
