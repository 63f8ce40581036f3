------------------------ MODULE PeerConnectionProofs ------------------------
(***************************************************************************)
(* Proofs about PeerConnection and the ConnectionListener it extends, for  *)
(* any number of sockets, slots, packets and restarts.                     *)
(*                                                                         *)
(* FreedIsLeftAlone needs to know, of every socket, who is to free it.     *)
(* ListInv says that what the receive thread can reach is alive and        *)
(* marked, IceInv which thread may step the ICE agent and where the socket *)
(* of a session before a restart is kept, AppInv how far the teardown has  *)
(* come, and OwnerInv that every open socket has an owner who will free    *)
(* it.                                                                     *)
(***************************************************************************)
EXTENDS PeerConnection, FiniteSetTheorems, WellFoundedInduction, TLAPS

\* No socket is listed or held twice; what is held is marked, and alive like
\* what is listed.
ListInv ==
  /\ \A i, j \in Slots : slots[i] # NULL /\ slots[i] = slots[j] => i = j
  /\ \A i, j \in Slots : rx.held[i] # NULL /\ rx.held[i] = rx.held[j] => i = j
  /\ \A s \in Batch : Open(s) /\ socket[s].inUse
  /\ \A s \in Listed : Open(s)
  /\ rx.pc \in {"recv", "callback"} => Batch # {}

\* Steps of the timer thread inside the callback of the ICE agent, and those
\* at which it waits for a socket.
IceSteps == {"ice", "readyWait", "notify", "cleanup", "cleanupWait"}
TmWaits == {"readyWait", "cleanupWait"}

\* The machine is stepped only while its timer is in the queue, the pair
\* of the session before a restart waits for the end of that callback, and the
\* selected socket is a candidate unless a restart is under way.
IceInv ==
  /\ tm.step \in IceSteps => "ice" \in timers
  /\ tm.step \in TmWaits <=> tm.socket # NULL
  /\ tm.step \in TmWaits => tm.socket \notin Listed
  /\ tm.step = "readyWait" => tm.socket \in Relays
  /\ ice.deferred # NULL => tm.step \in IceSteps \ {"cleanupWait"} /\ ice.state # "NEW"
  /\ ice.sending \notin Relays
  /\ app.step \in {"restart", "restartFree", "restartWait"} => ice.restart
  /\ app.step \in {"restartFree", "restartWait"} => "ice" \notin timers
  /\ app.step = "restart" /\ ice.state = "NEW" => ice.sending = NULL
  /\ ~ice.restart /\ ice.state = "NEW" => ice.sending = NULL
  /\ ~ice.restart /\ ice.sending # NULL => ice.sending \in ice.locals

\* What the application has left behind when it is at a step of the teardown.
Working == {"gather", "up", "restart", "restartFree", "restartWait"}
ExecutorOver == {"freeSctp", "freeDtls", "freeTurn", "turnWait", "join", "freeHosts", "done"}
Unlisted == ExecutorOver \cup {"closed", "cancelSctp", "queueShutdown", "queueWait"}
AppWaits == {"restartWait", "turnWait"}

AppInv ==
  /\ terminate <=> app.step \in {"join", "freeHosts", "done"}
  /\ app.step \in ExecutorOver => tm.step = "gone"
  /\ dtls = "freed" => tm.step = "gone"
  /\ tm.step = "ticking" => sctp = "open"
  /\ app.batch # {} => app.step \in AppWaits \cup {"restartFree", "freeTurn", "freeHosts"}
  /\ app.step \in AppWaits <=> app.socket # NULL
  /\ app.step \in AppWaits => app.socket \notin Listed
  /\ app.step \in {"freeHosts", "done"} => rx.pc \in {"off", "done"}
  /\ app.step = "done" => app.batch = {}
  /\ app.step \in Unlisted \/ (app.step = "shutdown" /\ ice.shutdown) => Listed = {}
  /\ ice.shutdown => app.step \notin Working

\* The sockets that someone is going to free, and all that are spoken of.
Owned ==
  app.batch \cup {app.socket} \cup
    (IF app.step \in {"freeHosts", "done"} THEN {} ELSE
       {ice.sending, ice.deferred, tm.socket} \cup
       (IF app.step \in {"freeTurn", "turnWait", "join"} THEN ice.locals \ Relays ELSE ice.locals))

Claimed ==
  (app.batch \cup ice.locals \cup {app.socket, tm.socket, ice.sending, ice.deferred}) \ {NULL}

OwnerInv ==
  /\ \A s \in Sockets : Open(s) => s \in Owned
  /\ \A s \in Claimed : socket[s].memory # "none"

PeerInv == TypeOK /\ ListInv /\ IceInv /\ AppInv /\ OwnerInv

-----------------------------------------------------------------------------
(* The list of the listener and the marks of the sockets                   *)

SocketRec == [memory : {"none", "open", "freed"}, connectionClosed : BOOLEAN, inUse : BOOLEAN]

\* ListenerTypeOK without the receive thread
Listing ==
  /\ socket \in [Sockets -> SocketRec]
  /\ slots \in [Slots -> Sockets \cup {NULL}]
  /\ socketCount = Cardinality({i \in Slots : slots[i] # NULL})

RxRec == [pc : RxSteps, held : [Slots -> Sockets \cup {NULL}], ready : SUBSET Sockets]

\* The slots in use are finitely many.
LEMMA SlotsFinite ==
  ASSUME NEW S \in SUBSET Slots
  PROVE  IsFiniteSet(S) /\ Cardinality(S) \in Nat
<1>1. IsFiniteSet(Slots)
  BY SlotAssumption, FS_Interval DEF Slots
<1>2. IsFiniteSet(S)
  BY <1>1, FS_Subset
<1> QED BY <1>2, FS_CardinalityType

\* Memory never comes back, and a socket that is not added stays as it is.
Aging == \A s \in Sockets : socket[s].memory # "none" => socket'[s].memory # "none"

\* createSocketConnection and connectionListenerAddConnection
LEMMA AddKeeps ==
  ASSUME Listing, NEW s \in Sockets, AddConnection(s), s \notin Listed,
         \A i, j \in Slots : slots[i] # NULL /\ slots[i] = slots[j] => i = j
  PROVE  /\ Listing' /\ Aging
         /\ \A i, j \in Slots : slots'[i] # NULL /\ slots'[i] = slots'[j] => i = j
         /\ \A u \in Sockets : u # s => socket'[u] = socket[u]
         /\ socket'[s].memory = "open" /\ socket'[s].inUse = socket[s].inUse
         /\ Listed' \subseteq Listed \cup {s}
<1>1. /\ socket' = [socket EXCEPT ![s].memory = "open"] /\ socket[s].memory = "none"
      /\ socket \in [Sockets -> SocketRec] /\ slots \in [Slots -> Sockets \cup {NULL}] /\ s # NULL
  BY SlotAssumption DEF AddConnection, Listing
<1>2. /\ socket' \in [Sockets -> SocketRec] /\ Aging
      /\ \A u \in Sockets : u # s => socket'[u] = socket[u]
      /\ socket'[s].memory = "open" /\ socket'[s].inUse = socket[s].inUse
  BY <1>1 DEF SocketRec, Aging
<1>3. CASE UNCHANGED <<slots, socketCount>>
  BY <1>2, <1>3 DEF Listing, Listed
<1>4. ASSUME NEW i \in Slots, slots[i] = NULL, slots' = [slots EXCEPT ![i] = s], socketCount' = socketCount + 1
      PROVE  /\ Listing' /\ Listed' \subseteq Listed \cup {s}
             /\ \A k, j \in Slots : slots'[k] # NULL /\ slots'[k] = slots'[j] => k = j
  <2> DEFINE Used == {k \in Slots : slots[k] # NULL}
  <2>1. slots' \in [Slots -> Sockets \cup {NULL}]
    BY <1>1, <1>4
  <2>2. {k \in Slots : slots'[k] # NULL} = Used \cup {i} /\ i \notin Used
    BY <1>1, <1>4
  <2>3. IsFiniteSet(Used)
    BY SlotsFinite
  <2>4. Cardinality(Used \cup {i}) = Cardinality(Used) + 1
    BY <2>2, <2>3, FS_AddElement
  <2>5. Listed' \subseteq Listed \cup {s}
    BY <1>1, <1>4 DEF Listed
  <2>6. \A k, j \in Slots : slots'[k] # NULL /\ slots'[k] = slots'[j] => k = j
    BY <1>1, <1>4 DEF Listed
  <2> QED BY <1>2, <1>4, <2>1, <2>2, <2>4, <2>5, <2>6 DEF Listing
<1> QED BY <1>2, <1>3, <1>4 DEF AddConnection

\* connectionListenerRemoveConnection
LEMMA RemoveKeeps ==
  ASSUME Listing, NEW s \in Sockets, RemoveConnection(s),
         \A i, j \in Slots : slots[i] # NULL /\ slots[i] = slots[j] => i = j
  PROVE  /\ Listing' /\ Aging
         /\ \A i, j \in Slots : slots'[i] # NULL /\ slots'[i] = slots'[j] => i = j
         /\ \A u \in Sockets : socket'[u].memory = socket[u].memory /\ socket'[u].inUse = socket[u].inUse
         /\ Listed' \subseteq Listed
         /\ ~terminate => s \notin Listed'
<1>1. /\ socket \in [Sockets -> SocketRec] /\ slots \in [Slots -> Sockets \cup {NULL}] /\ s # NULL
      /\ socketCount = Cardinality({i \in Slots : slots[i] # NULL})
  BY SlotAssumption DEF Listing
<1>2. CASE terminate
  BY <1>1, <1>2 DEF RemoveConnection, Listing, Listed, Aging
<1>3. CASE ~terminate
  <2>1. /\ socket' = [socket EXCEPT ![s].connectionClosed = TRUE]
        /\ slots' = [i \in Slots |-> IF slots[i] = s THEN NULL ELSE slots[i]]
        /\ socketCount' = IF s \in Listed THEN socketCount - 1 ELSE socketCount
    BY <1>3 DEF RemoveConnection
  <2>2. /\ socket' \in [Sockets -> SocketRec]
        /\ \A u \in Sockets : socket'[u].memory = socket[u].memory /\ socket'[u].inUse = socket[u].inUse
    BY <1>1, <2>1 DEF SocketRec
  <2>3. slots' \in [Slots -> Sockets \cup {NULL}] /\ Listed' \subseteq Listed /\ s \notin Listed'
    BY <1>1, <2>1, SlotAssumption DEF Listed
  <2>4. \A i, j \in Slots : slots'[i] # NULL /\ slots'[i] = slots'[j] => i = j
    BY <1>1, <2>1
  <2> DEFINE Used == {k \in Slots : slots[k] # NULL}
  <2>5. socketCount' = Cardinality({k \in Slots : slots'[k] # NULL})
    <3>1. CASE s \in Listed
      <4>1. PICK i \in Slots : slots[i] = s
        BY <3>1 DEF Listed
      <4>2. {k \in Slots : slots'[k] # NULL} = Used \ {i} /\ i \in Used
        BY <1>1, <2>1, <4>1
      <4>3. IsFiniteSet(Used)
        BY SlotsFinite
      <4>4. Cardinality(Used \ {i}) = Cardinality(Used) - 1
        BY <4>2, <4>3, FS_RemoveElement
      <4> QED BY <1>1, <2>1, <3>1, <4>2, <4>4
    <3>2. CASE s \notin Listed
      <4>1. {k \in Slots : slots'[k] # NULL} = Used
        BY <1>1, <2>1, <3>2 DEF Listed
      <4> QED BY <1>1, <2>1, <3>2, <4>1
    <3> QED BY <3>1, <3>2
  <2> QED BY <1>3, <2>2, <2>3, <2>4, <2>5 DEF Listing, Aging
<1> QED BY <1>2, <1>3

\* connectionListenerRemoveAllConnection
LEMMA RemoveAllKeeps ==
  ASSUME Listing, RemoveAllConnection, ~terminate
  PROVE  /\ Listing' /\ Aging /\ Listed' = {}
         /\ \A i \in Slots : slots'[i] = NULL
         /\ \A u \in Sockets : socket'[u].memory = socket[u].memory /\ socket'[u].inUse = socket[u].inUse
<1>1. /\ socket \in [Sockets -> SocketRec]
      /\ socket' = [s \in Sockets |-> IF s \in Listed THEN [socket[s] EXCEPT !.connectionClosed = TRUE]
                                                      ELSE socket[s]]
      /\ slots' = NoSockets /\ socketCount' = 0
  BY DEF Listing, RemoveAllConnection
<1>2. /\ socket' \in [Sockets -> SocketRec]
      /\ \A u \in Sockets : socket'[u].memory = socket[u].memory /\ socket'[u].inUse = socket[u].inUse
  BY <1>1 DEF SocketRec
<1>3. /\ slots' \in [Slots -> Sockets \cup {NULL}] /\ Listed' = {}
      /\ \A i \in Slots : slots'[i] = NULL
  BY <1>1, SlotAssumption DEF NoSockets, Listed
<1>4. {i \in Slots : slots'[i] # NULL} = {}
  BY <1>3
<1>5. Cardinality({i \in Slots : slots'[i] # NULL}) = 0
  BY <1>4, FS_EmptySet
<1> QED BY <1>1, <1>2, <1>3, <1>5 DEF Listing, Aging

\* freeSocketConnection, and a shutdown that closes the sockets of hosts
LEMMA ReleasedKeeps ==
  ASSUME Listing, NEW s \in Sockets, Released(s), UNCHANGED <<slots, socketCount>>
  PROVE  /\ Listing' /\ Aging /\ Listed' = Listed
         /\ Open(s) /\ ~socket[s].inUse /\ socket'[s].memory = "freed"
         /\ \A u \in Sockets : u # s => socket'[u] = socket[u]
<1>1. /\ socket \in [Sockets -> SocketRec] /\ Open(s) /\ ~socket[s].inUse
      /\ socket' = [socket EXCEPT ![s].memory = "freed", ![s].connectionClosed = TRUE]
  BY DEF Listing, Released
<1>2. [socket[s] EXCEPT !.memory = "freed", !.connectionClosed = TRUE] \in SocketRec
  BY <1>1 DEF SocketRec
<1>3. socket' = [socket EXCEPT ![s] = [socket[s] EXCEPT !.memory = "freed", !.connectionClosed = TRUE]]
  BY <1>1
<1>4. /\ socket' \in [Sockets -> SocketRec] /\ socket'[s].memory = "freed"
      /\ \A u \in Sockets : u # s => socket'[u] = socket[u]
  BY <1>1, <1>2, <1>3 DEF SocketRec
<1> QED BY <1>1, <1>4 DEF Listing, Aging, Listed

LEMMA CloseKeeps ==
  ASSUME Listing, NEW S, CloseSockets(S), UNCHANGED <<slots, socketCount>>
  PROVE  /\ Listing' /\ Aging /\ Listed' = Listed
         /\ \A u \in Sockets : socket'[u].memory = socket[u].memory /\ socket'[u].inUse = socket[u].inUse
<1>1. /\ socket \in [Sockets -> SocketRec]
      /\ socket' = [s \in Sockets |-> IF s \in S THEN [socket[s] EXCEPT !.connectionClosed = TRUE] ELSE socket[s]]
  BY DEF Listing, CloseSockets
<1>2. /\ socket' \in [Sockets -> SocketRec]
      /\ \A u \in Sockets : socket'[u].memory = socket[u].memory /\ socket'[u].inUse = socket[u].inUse
  BY <1>1 DEF SocketRec
<1> QED BY <1>1, <1>2 DEF Listing, Aging, Listed

\* A batch that is not empty has a first socket.
LEMMA CurrentHeld ==
  ASSUME rx \in RxRec, Batch # {}
  PROVE  /\ Turn \in Slots /\ Current \in Batch /\ Current = rx.held[Turn]
         /\ Current \in Sockets /\ Current # NULL
<1> DEFINE R == {ss \in Nat \X Nat : ss[1] < ss[2]}
           S == {i \in Slots : rx.held[i] # NULL}
<1>1. IsWellFoundedOn(R, Nat)
  BY NatLessThanWellFounded, Zenon DEF OpToRel
<1>2. S \subseteq Nat /\ S # {}
  BY SlotAssumption DEF Slots, Batch
<1> HIDE DEF R, S
<1>3. PICK i \in S : \A j \in S : ~ (<<j, i>> \in R)
  BY <1>1, <1>2, WFMin
<1>4. \A j \in S : ~(j < i)
  BY <1>2, <1>3 DEF R
<1>5. i \in Slots /\ rx.held[i] # NULL /\ \A j \in 1 .. i - 1 : rx.held[j] = NULL
  BY <1>3, <1>4, SlotAssumption DEF S, Slots
<1>6. Turn \in Slots /\ rx.held[Turn] # NULL
  BY <1>5 DEF Turn
<1>7. rx.held[Turn] \in Sockets
  BY <1>6 DEF RxRec
<1> QED BY <1>6, <1>7 DEF Current, Batch

\* What every step of the receive thread leaves behind.
Received ==
  /\ Listing' /\ rx' \in RxRec /\ ListInv'
  /\ Listed' \subseteq Listed
  /\ \A u \in Sockets : socket'[u].memory = socket[u].memory

\* A flag of a socket is changed, and nothing else.
LEMMA MarkFields ==
  ASSUME NEW f \in [Sockets -> SocketRec], NEW c \in Sockets
  PROVE  /\ [f EXCEPT ![c].inUse = FALSE] \in [Sockets -> SocketRec]
         /\ [f EXCEPT ![c].inUse = FALSE][c].memory = f[c].memory
         /\ \A u \in Sockets : u # c => [f EXCEPT ![c].inUse = FALSE][u] = f[u]
         /\ [f EXCEPT ![c].connectionClosed = TRUE] \in [Sockets -> SocketRec]
         /\ [f EXCEPT ![c].connectionClosed = TRUE][c].memory = f[c].memory
         /\ \A u \in Sockets : u # c => [f EXCEPT ![c].connectionClosed = TRUE][u] = f[u]
BY DEF SocketRec

\* The mark of the first socket is cleared, and the socket left.
LEMMA NextHeldKeeps ==
  ASSUME Listing, rx \in RxRec, ListInv, Batch # {}, rx' = NextHeld, UNCHANGED <<slots, socketCount>>,
         \/ socket' = Unmarked(Current)
         \/ socket' = [Unmarked(Current) EXCEPT ![Current].connectionClosed = TRUE]
  PROVE  Received
<1>1. /\ Turn \in Slots /\ Current \in Sockets /\ Current = rx.held[Turn] /\ Current # NULL
      /\ Current \in Batch
  BY CurrentHeld
<1> DEFINE c == Current
<1> HIDE DEF c
<1>2. /\ c \in Sockets /\ c = rx.held[Turn] /\ c # NULL /\ socket \in [Sockets -> SocketRec]
      /\ \/ socket' = [socket EXCEPT ![c].inUse = FALSE]
         \/ socket' = [[socket EXCEPT ![c].inUse = FALSE] EXCEPT ![c].connectionClosed = TRUE]
  BY <1>1 DEF c, Unmarked, Listing
<1>3. /\ socket' \in [Sockets -> SocketRec]
      /\ \A u \in Sockets : u # c => socket'[u] = socket[u]
      /\ socket'[c].memory = socket[c].memory
  <2> DEFINE f == [socket EXCEPT ![c].inUse = FALSE]
  <2>0. c \in Sockets /\ socket \in [Sockets -> SocketRec]
    BY <1>2
  <2>1. /\ f \in [Sockets -> SocketRec] /\ f[c].memory = socket[c].memory
        /\ \A u \in Sockets : u # c => f[u] = socket[u]
    BY <2>0, MarkFields, Zenon
  <2>2. socket' = f \/ socket' = [f EXCEPT ![c].connectionClosed = TRUE]
    BY <1>2
  <2> HIDE DEF f
  <2>3. /\ [f EXCEPT ![c].connectionClosed = TRUE] \in [Sockets -> SocketRec]
        /\ [f EXCEPT ![c].connectionClosed = TRUE][c].memory = f[c].memory
        /\ \A u \in Sockets : u # c => [f EXCEPT ![c].connectionClosed = TRUE][u] = f[u]
    BY <2>0, <2>1, MarkFields, Zenon
  <2> QED BY <2>1, <2>2, <2>3
<1>4. /\ rx'.held = [rx.held EXCEPT ![Turn] = NULL] /\ rx'.pc = "scan" /\ rx'.ready = rx.ready
      /\ rx' \in RxRec
  BY <1>1 DEF NextHeld, RxRec, RxSteps
<1>5. Batch' \subseteq Batch \ {c}
  <2> SUFFICES ASSUME NEW u \in Sockets, NEW i \in Slots, rx'.held[i] = u
               PROVE  u \in Batch /\ u # c
    BY DEF Batch
  <2>1. u # NULL /\ rx.held \in [Slots -> Sockets \cup {NULL}]
    BY SlotAssumption DEF RxRec
  <2>2. i # Turn /\ rx.held[i] = u
    BY <1>1, <1>4, <2>1
  <2> QED BY <1>1, <1>2, <2>1, <2>2 DEF ListInv, Batch
<1>6. \A u \in Batch' : Open(u)' /\ socket'[u].inUse
  BY <1>3, <1>5 DEF ListInv, Open, Batch
<1>7. Listed' = Listed /\ \A u \in Listed : Open(u)'
  BY <1>2, <1>3 DEF Listed, ListInv, Open
<1>8. \A i, j \in Slots : rx'.held[i] # NULL /\ rx'.held[i] = rx'.held[j] => i = j
  BY <1>1, <1>4 DEF ListInv, RxRec
<1>9. ListInv'
  BY <1>4, <1>6, <1>7, <1>8 DEF ListInv
<1> QED BY <1>3, <1>4, <1>7, <1>9 DEF Received, Listing

\* The gathering: what it marks was on the list, and what it drops is counted.
LEMMA GatherKeeps ==
  ASSUME Listing, rx \in RxRec, ListInv, GatherSockets
  PROVE  Received
<1> DEFINE G == Gathered
<1>1. /\ socket \in [Sockets -> SocketRec] /\ slots \in [Slots -> Sockets \cup {NULL}]
      /\ socketCount = Cardinality({i \in Slots : slots[i] # NULL})
  BY DEF Listing
<1>2. G \in [Slots -> Sockets \cup {NULL}] /\ \A i \in Slots : G[i] = slots[i] \/ G[i] = NULL
  BY <1>1 DEF Gathered
<1>3. /\ rx' = [rx EXCEPT !.pc = "poll", !.held = G] /\ slots' = G
      /\ socket' = [s \in Sockets |-> IF \E i \in Slots : G[i] = s
                      THEN [socket[s] EXCEPT !.inUse = TRUE] ELSE socket[s]]
      /\ socketCount' = socketCount - Cardinality({i \in Slots : slots[i] # G[i]})
  BY DEF GatherSockets
<1> HIDE DEF G
<1>4. rx' \in RxRec /\ rx'.held = G /\ rx'.pc = "poll"
  BY <1>2, <1>3 DEF RxRec, RxSteps
<1>5. /\ socket' \in [Sockets -> SocketRec]
      /\ \A s \in Sockets : socket'[s].memory = socket[s].memory
      /\ \A s \in Sockets : (\E i \in Slots : G[i] = s) => socket'[s].inUse
  BY <1>1, <1>3 DEF SocketRec
<1>6. Listed' \subseteq Listed /\ Batch' = Listed'
  BY <1>2, <1>3, <1>4, SlotAssumption DEF Listed, Batch
<1>7. \A i, j \in Slots : G[i] # NULL /\ G[i] = G[j] => i = j
  BY <1>2 DEF ListInv
<1>8. \A s \in Listed' : Open(s)' /\ socket'[s].inUse
  BY <1>3, <1>5, <1>6 DEF ListInv, Open, Listed
<1>9. ListInv'
  BY <1>3, <1>4, <1>6, <1>7, <1>8, SMTT(60) DEF ListInv
<1>10. socketCount' = Cardinality({i \in Slots : slots'[i] # NULL})
  <2> DEFINE U == {i \in Slots : slots[i] # NULL}
             D == {i \in Slots : slots[i] # G[i]}
  <2>1. {i \in Slots : slots'[i] # NULL} = U \ D /\ D \subseteq U
    BY <1>2, <1>3
  <2>2. IsFiniteSet(U) /\ Cardinality(U) \in Nat /\ Cardinality(D) \in Nat
    BY SlotsFinite
  <2>3. U \cap D = D
    BY <2>1
  <2> HIDE DEF U, D
  <2>4. Cardinality(U \ D) = Cardinality(U) - Cardinality(D)
    BY <2>2, <2>3, FS_Difference
  <2> QED BY <1>1, <1>3, <2>1, <2>4 DEF U, D
<1> QED BY <1>2, <1>3, <1>4, <1>5, <1>6, <1>9, <1>10 DEF Received, Listing

\* The receive thread keeps the list, the marks and every socket's memory.
LEMMA ReceiveKeeps ==
  ASSUME Listing, rx \in RxRec, ListInv, NEW readable,
         \/ GatherSockets \/ ReceiveEnds \/ PollIdle \/ PollData(readable) \/ ScanSocket
         \/ RecvNothing(readable) \/ RecvFails \/ RecvPacket(readable) \/ CallbackReturns
  PROVE  Received /\ UNCHANGED terminate /\ rx.pc \notin {"off", "done"}
<1>0. /\ UNCHANGED terminate /\ rx.pc \notin {"off", "done"}
  BY DEF GatherSockets, ReceiveEnds, PollIdle, PollData, ScanSocket, RecvNothing, RecvFails, RecvPacket,
         CallbackReturns
<1>1. CASE GatherSockets
  BY <1>0, <1>1, GatherKeeps
<1>2. CASE PollIdle
  <2>1. /\ socket \in [Sockets -> SocketRec] /\ UNCHANGED <<slots, socketCount>>
        /\ socket' = [s \in Sockets |-> IF s \in Batch THEN [socket[s] EXCEPT !.inUse = FALSE] ELSE socket[s]]
        /\ rx' = [rx EXCEPT !.pc = "loop", !.held = NoSockets]
    BY <1>2 DEF PollIdle, Listing
  <2>2. socket' \in [Sockets -> SocketRec] /\ \A u \in Sockets : socket'[u].memory = socket[u].memory
    BY <2>1 DEF SocketRec
  <2>3. rx' \in RxRec /\ rx'.pc = "loop" /\ rx'.held = NoSockets
    BY <2>1 DEF RxRec, RxSteps, NoSockets
  <2>4. Batch' = {} /\ \A i \in Slots : rx'.held[i] = NULL
    BY <2>3, SlotAssumption DEF Batch, NoSockets
  <2>5. Listed' = Listed /\ ListInv'
    BY <2>1, <2>2, <2>3, <2>4 DEF Listed, ListInv, Open
  <2> QED BY <1>0, <2>1, <2>2, <2>3, <2>5 DEF Received, Listing
<1>3. CASE rx' = NextHeld
  <2>1. /\ UNCHANGED <<slots, socketCount>> /\ Batch # {}
        /\ \/ socket' = Unmarked(Current)
           \/ socket' = [Unmarked(Current) EXCEPT ![Current].connectionClosed = TRUE]
    <3>1. rx'.pc = "scan"
      BY <1>3 DEF NextHeld, RxRec
    <3>2. CASE ScanSocket
      <4>1. Batch # {}
        BY <3>1, <3>2 DEF ScanSocket, RxRec
      <4>2. rx' # [rx EXCEPT !.pc = "recv"]
        BY <3>1 DEF RxRec
      <4> QED BY <3>2, <4>1, <4>2 DEF ScanSocket
    <3>3. CASE RecvNothing(readable) \/ RecvFails
      BY <3>3 DEF RecvNothing, RecvFails, ListInv
    <3>4. CASE ReceiveEnds \/ PollData(readable) \/ RecvPacket(readable) \/ CallbackReturns \/ PollIdle \/ GatherSockets
      <4>1. CASE PollData(readable)
        <5>1. Batch # {} /\ rx'.held = rx.held
          BY <4>1 DEF PollData, RxRec
        <5>2. rx'.held[Turn] = NULL /\ rx.held[Turn] # NULL
          BY <1>3, <5>1, CurrentHeld DEF NextHeld, RxRec
        <5> QED BY <5>1, <5>2
      <4>2. rx'.pc # "scan" \/ PollData(readable)
        BY <3>4 DEF ReceiveEnds, RecvPacket, CallbackReturns, PollIdle, GatherSockets, RxRec
      <4> QED BY <3>1, <4>1, <4>2
    <3> QED BY <3>2, <3>3, <3>4
  <2> QED BY <1>0, <1>3, <2>1, NextHeldKeeps
<1>4. CASE /\ UNCHANGED <<socket, slots, socketCount>> /\ rx' \in RxRec /\ rx'.held = rx.held
           /\ rx'.pc \in {"recv", "callback"} => Batch # {}
  <2>1. Batch' = Batch /\ Listed' = Listed
    BY <1>4 DEF Batch, Listed
  <2>2. ListInv'
    BY <1>4, <2>1 DEF ListInv, Open
  <2> QED BY <1>0, <1>4, <2>1, <2>2 DEF Received, Listing
<1>5. CASE ReceiveEnds \/ PollData(readable) \/ RecvPacket(readable) \/ CallbackReturns
  <2>1. \A step \in RxSteps :
           /\ [rx EXCEPT !.pc = step] \in RxRec
           /\ [rx EXCEPT !.pc = step].held = rx.held /\ [rx EXCEPT !.pc = step].pc = step
    BY DEF RxRec
  <2>2. [rx EXCEPT !.pc = "scan", !.ready = readable \cap Batch] \in RxRec
    BY DEF RxRec, RxSteps, Batch
  <2>3. UNCHANGED <<socket, slots, socketCount>> /\ rx' \in RxRec /\ rx'.held = rx.held
    BY <1>5, <2>1, <2>2 DEF ReceiveEnds, PollData, RecvPacket, CallbackReturns, RxSteps, RxRec
  <2>4. rx'.pc \in {"recv", "callback"} => Batch # {}
    BY <1>5 DEF ReceiveEnds, PollData, RecvPacket, CallbackReturns, RxRec, ListInv
  <2> QED BY <1>4, <2>3, <2>4
<1>6. CASE ScanSocket /\ rx' # NextHeld
  <2>1. /\ UNCHANGED <<socket, slots, socketCount>>
        /\ \/ rx' = [rx EXCEPT !.pc = "loop", !.ready = {}]
           \/ Batch # {} /\ rx' = [rx EXCEPT !.pc = "recv"]
    BY <1>6 DEF ScanSocket
  <2>2. rx' \in RxRec /\ rx'.held = rx.held /\ (rx'.pc \in {"recv", "callback"} => Batch # {})
    BY <2>1 DEF RxRec, RxSteps
  <2> QED BY <1>4, <2>1, <2>2
<1>7. CASE RecvNothing(readable) \/ RecvFails
  BY <1>3, <1>7 DEF RecvNothing, RecvFails
<1> QED BY <1>1, <1>2, <1>3, <1>5, <1>6, <1>7

-----------------------------------------------------------------------------
(* Types of the rest                                                       *)

IceRec == [state : IceStates, shutdown : BOOLEAN, restart : BOOLEAN, locals : SUBSET Sockets,
           sending : Sockets \cup {NULL}, deferred : Sockets \cup {NULL}]
CbRec == [step : CbSteps, data : BOOLEAN]
TmRec == [step : TmSteps, socket : Sockets \cup {NULL}]
AppRec == [step : AppSteps, next : {"closed", "cancelSctp"}, batch : SUBSET Sockets,
           socket : Sockets \cup {NULL}]

PeerType ==
  /\ pc \in [receiveEnabled : BOOLEAN, sctpIsEnabled : BOOLEAN]
  /\ ice \in IceRec
  /\ dtls \in {"new", "started", "finished", "freed"}
  /\ sctp \in {"none", "open", "freed"}
  /\ timers \subseteq Timers /\ queue \in {"running", "shutdown"}
  /\ inbox \subseteq Sockets
  /\ cb \in CbRec /\ tm \in TmRec /\ app \in AppRec
  /\ steps \in [packets : 0 .. MaxPackets, restarts : 0 .. MaxRestarts]

LEMMA TypeParts ==
  /\ TypeOK => PeerType /\ Listing /\ rx \in RxRec /\ terminate \in BOOLEAN
  /\ PeerType /\ Listing /\ rx \in RxRec /\ terminate \in BOOLEAN => TypeOK
  /\ (PeerType /\ Listing /\ rx \in RxRec /\ terminate \in BOOLEAN)' => TypeOK'
BY DEF TypeOK, ListenerTypeOK, PeerType, Listing, SocketRec, RxRec, IceRec, CbRec, TmRec, AppRec

\* A thread moves to another step, and keeps the rest of its record.
LEMMA StepFields ==
  ASSUME PeerType
  PROVE  /\ \A x \in CbSteps : CbTo(x) => cb' \in CbRec
         /\ \A x \in TmSteps : TmTo(x) => tm' \in TmRec /\ tm'.step = x /\ tm'.socket = tm.socket
         /\ \A x \in AppSteps : AppTo(x) => /\ app' \in AppRec /\ app'.step = x /\ app'.next = app.next
                                            /\ app'.batch = app.batch /\ app'.socket = app.socket
<1>1. \A x \in CbSteps : CbTo(x) => cb' \in CbRec
  BY DEF PeerType, CbTo, CbRec
<1>2. \A x \in TmSteps : TmTo(x) => tm' \in TmRec /\ tm'.step = x /\ tm'.socket = tm.socket
  BY DEF PeerType, TmTo, TmRec
<1>3. \A x \in AppSteps : AppTo(x) => /\ app' \in AppRec /\ app'.step = x /\ app'.next = app.next
                                      /\ app'.batch = app.batch /\ app'.socket = app.socket
  BY DEF PeerType, AppTo, AppRec
<1> QED BY <1>1, <1>2, <1>3

-----------------------------------------------------------------------------
(* The receive thread                                                      *)

\* What a step of the receive thread does to the others: a session of SCTP and
\* its timer may appear, the handshake may end.
Aside ==
  /\ UNCHANGED <<ice, tm, app, terminate, queue, pc, steps>>
  /\ timers' \in {timers, timers \cup {"sctp"}}
  /\ dtls' = dtls \/ (dtls # "freed" /\ dtls' = "finished")
  /\ sctp' \in {sctp, "open"}
  /\ inbox' \subseteq inbox
  /\ cb' \in CbRec

LEMMA CallbackKeeps ==
  ASSUME PeerType, Listing, rx \in RxRec, ListInv, Receive
  PROVE  Received /\ Aside /\ rx.pc \notin {"off", "done"}
<1>a. /\ \A x \in CbSteps : CbTo(x) => cb' \in CbRec
      /\ cb \in CbRec
  BY StepFields DEF PeerType
<1>b. UNCHANGED <<socket, slots, socketCount, rx>> => Received
  BY DEF Received, Listing, ListInv, Listed, Batch, Open
<1> USE <1>a DEF Aside, cbOnly, CbAt, CbSteps
<1>1. CASE Listener
  <2>1. Received /\ UNCHANGED terminate /\ rx.pc \notin {"off", "done"}
    BY <1>1, ReceiveKeeps DEF Listener
  <2> QED BY <1>1, <2>1 DEF Listener, peerVars
<1>2. CASE CbEnter
  <2>1. Received /\ UNCHANGED terminate /\ rx.pc \notin {"off", "done"}
    BY <1>2, ReceiveKeeps DEF CbEnter
  <2> QED BY <1>2, <2>1 DEF CbEnter
<1>3. CASE Relock
  <2>1. Received /\ UNCHANGED terminate /\ rx.pc \notin {"off", "done"}
    BY <1>3, ReceiveKeeps DEF Relock
  <2> QED BY <1>3, <2>1 DEF Relock
<1>4. CASE IncomingDataHandler
  BY <1>4, <1>b DEF IncomingDataHandler
<1>5. CASE OnInboundPacket
  BY <1>5, <1>b DEF OnInboundPacket
<1>6. CASE ProcessPacket
  <2>1. \A x \in BOOLEAN : [cb EXCEPT !.step = "session", !.data = x] \in CbRec
    BY DEF CbRec
  <2> QED BY <1>6, <1>b, <2>1 DEF ProcessPacket
<1>7. CASE SctpSession
  BY <1>7, <1>b DEF SctpSession
<1>8. CASE AllocateSctp
  BY <1>8, <1>b DEF AllocateSctp
<1>9. CASE AllocateSctpTimer
  BY <1>9, <1>b DEF AllocateSctpTimer, listenerVars
<1>10. CASE PutSctpPacket
  BY <1>10, <1>b DEF PutSctpPacket
<1>11. CASE PutSctpPacketEnds
  BY <1>11, <1>b DEF PutSctpPacketEnds
<1> QED BY <1>1, <1>2, <1>3, <1>4, <1>5, <1>6, <1>7, <1>8, <1>9, <1>10, <1>11 DEF Receive, Callback

\* A step of the receive thread keeps the invariant.
LEMMA ReceiveStep ==
  ASSUME PeerInv, Receive
  PROVE  PeerInv'
<1>0. PeerType /\ Listing /\ rx \in RxRec /\ terminate \in BOOLEAN /\ ListInv /\ IceInv /\ AppInv /\ OwnerInv
  BY TypeParts DEF PeerInv
<1>1. Received /\ Aside /\ rx.pc \notin {"off", "done"}
  BY <1>0, CallbackKeeps
<1>2. PeerType'
  BY <1>0, <1>1 DEF PeerType, Aside, Timers
<1>3. TypeOK' /\ ListInv'
  BY <1>0, <1>1, <1>2, TypeParts DEF Received, Aside
<1>4. \A s \in Sockets : Open(s)' = Open(s)
  BY <1>1 DEF Received, Open
<1>5. IceInv'
  BY <1>0, <1>1 DEF IceInv, Received, Aside
<1>6. AppInv'
  BY <1>0, <1>1 DEF AppInv, Received, Aside
<1>7. Owned' = Owned /\ Claimed' = Claimed /\ Claimed \subseteq Sockets
  BY <1>0, <1>1 DEF Owned, Claimed, Aside, PeerType, AppRec, TmRec, IceRec
<1>8. OwnerInv'
  BY <1>0, <1>1, <1>4, <1>7 DEF OwnerInv, Received
<1> QED BY <1>3, <1>5, <1>6, <1>8 DEF PeerInv

-----------------------------------------------------------------------------
(* The timer thread                                                        *)

\* The list and the marks after a step that changes no more of the listener
\* than a call of an owner does.
Handled ==
  /\ Listing' /\ Aging
  /\ \A i, j \in Slots : slots'[i] # NULL /\ slots'[i] = slots'[j] => i = j
  /\ \A u \in Sockets : socket'[u].inUse = socket[u].inUse \/ u \notin Batch
  /\ \A u \in Listed' \cup Batch : Open(u)'

LEMMA HandledKeeps ==
  ASSUME PeerInv, UNCHANGED terminate, Handled, PeerType',
         rx' = rx \/ (rx.pc = "off" /\ rx' = [rx EXCEPT !.pc = "loop"])
  PROVE  TypeOK' /\ ListInv'
<1>0. PeerType /\ Listing /\ rx \in RxRec /\ terminate \in BOOLEAN /\ ListInv
  BY TypeParts DEF PeerInv
<1>1. rx' \in RxRec /\ rx'.held = rx.held /\ (rx'.pc \in {"recv", "callback"} => rx.pc \in {"recv", "callback"})
  BY <1>0 DEF RxRec, RxSteps
<1>2. Batch' = Batch /\ Batch \subseteq Sockets
  BY <1>1 DEF Batch
<1>3. TypeOK'
  BY <1>0, <1>1, TypeParts DEF Handled
<1>4. ListInv'
  BY <1>0, <1>1, <1>2 DEF ListInv, Handled
<1> QED BY <1>3, <1>4

LEMMA UntouchedKeeps ==
  ASSUME PeerInv, UNCHANGED <<socket, slots, socketCount>>
  PROVE  /\ Handled /\ Listed' = Listed /\ \A u \in Sockets : Open(u)' = Open(u)
<1>0. Listing /\ ListInv
  BY TypeParts DEF PeerInv
<1> QED BY <1>0 DEF Handled, Listing, Aging, Listed, Open, ListInv

LEMMA RemovedKeeps ==
  ASSUME PeerInv, NEW s \in Sockets, RemoveConnection(s), ~terminate
  PROVE  /\ Handled /\ Listed' \subseteq Listed /\ s \notin Listed'
         /\ \A u \in Sockets : socket'[u].memory = socket[u].memory /\ Open(u)' = Open(u)
<1>0. Listing /\ ListInv
  BY TypeParts DEF PeerInv
<1>1. /\ Listing' /\ Aging
      /\ \A i, j \in Slots : slots'[i] # NULL /\ slots'[i] = slots'[j] => i = j
      /\ \A u \in Sockets : socket'[u].memory = socket[u].memory /\ socket'[u].inUse = socket[u].inUse
      /\ Listed' \subseteq Listed
      /\ s \notin Listed'
  BY <1>0, RemoveKeeps DEF ListInv
<1>2. \A u \in Sockets : Open(u)' = Open(u)
  BY <1>1 DEF Open
<1>3. Listed \subseteq Sockets /\ Batch \subseteq Sockets
  BY DEF Listed, Batch
<1> QED BY <1>0, <1>1, <1>2, <1>3 DEF Handled, ListInv

LEMMA FreedKeeps ==
  ASSUME PeerInv, NEW s \in Sockets, Released(s), UNCHANGED <<slots, socketCount>>, s \notin Listed
  PROVE  /\ Handled /\ Listed' = Listed /\ ~Open(s)' /\ Aging
         /\ \A u \in Sockets : Open(u)' => Open(u)
<1>0. Listing /\ ListInv
  BY TypeParts DEF PeerInv
<1>1. /\ Listing' /\ Aging /\ Listed' = Listed
      /\ Open(s) /\ ~socket[s].inUse /\ socket'[s].memory = "freed"
      /\ \A u \in Sockets : u # s => socket'[u] = socket[u]
  BY <1>0, ReleasedKeeps
<1>2. s \notin Batch /\ Batch \subseteq Sockets /\ Listed \subseteq Sockets
  BY <1>0, <1>1 DEF ListInv, Batch, Listed
<1>3. ~Open(s)' /\ \A u \in Sockets : u # s => Open(u)' = Open(u)
  BY <1>1 DEF Open
<1> QED BY <1>0, <1>1, <1>2, <1>3 DEF Handled, ListInv

\* The steps of the timer thread that leave the sockets alone.
LEMMA TimerUntouched ==
  ASSUME PeerInv,
         \/ TimerFires \/ TimerQueueExecutorEnds \/ (\E s \in Sockets : IceConnected(s)) \/ IceReady
         \/ IceStateStays \/ OnIceConnectionStateChange \/ SctpTimerCallback \/ SctpSessionTickTimers
         \/ DtlsTransmissionTimerCallback \/ (ice.deferred = NULL /\ DeferredOldPairCleanup)
  PROVE  PeerInv'
<1>0. PeerType /\ Listing /\ rx \in RxRec /\ terminate \in BOOLEAN /\ ListInv /\ IceInv /\ AppInv /\ OwnerInv
  BY TypeParts DEF PeerInv
<1>a. \A x \in TmSteps : TmTo(x) => tm' \in TmRec /\ tm'.step = x /\ tm'.socket = tm.socket
  BY <1>0, StepFields
<1>b. UNCHANGED <<socket, slots, socketCount, terminate, rx, app, queue, inbox, cb, steps, pc>>
  BY DEF TimerFires, TimerQueueExecutorEnds, IceConnected, IceReady, IceStateStays, OnIceConnectionStateChange,
         SctpTimerCallback, SctpSessionTickTimers, DtlsTransmissionTimerCallback, DeferredOldPairCleanup, tmOnly
<1>c. Handled /\ Listed' = Listed /\ \A u \in Sockets : Open(u)' = Open(u)
  BY <1>b, UntouchedKeeps
<1>d. /\ tm \in TmRec /\ ice \in IceRec /\ app \in AppRec /\ dtls \in {"new", "started", "finished", "freed"}
      /\ sctp \in {"none", "open", "freed"} /\ timers \subseteq Timers
  BY <1>0 DEF PeerType
<1>e. ASSUME PeerType', IceInv', AppInv', Owned \subseteq Owned' \cup {NULL}, Claimed' \subseteq Claimed
      PROVE  PeerInv'
  <2>1. TypeOK' /\ ListInv'
    BY <1>b, <1>c, <1>e, HandledKeeps
  <2>2. Claimed \subseteq Sockets
    BY <1>d DEF Claimed, TmRec, IceRec, AppRec
  <2>3. OwnerInv'
    BY <1>0, <1>b, <1>c, <1>e, <2>2, SlotAssumption DEF OwnerInv
  <2> QED BY <1>e, <2>1, <2>3 DEF PeerInv
<1>1. CASE UNCHANGED ice
  <2>1. /\ tm.step \notin TmWaits /\ tm'.step \notin TmWaits /\ tm'.socket = tm.socket /\ tm' \in TmRec
        /\ tm.step \notin {"gone"}
        /\ ice.deferred # NULL => tm'.step \in IceSteps \ {"cleanupWait"}
        /\ tm'.step \in IceSteps => "ice" \in timers'
        /\ timers' \subseteq Timers
        /\ "ice" \in timers' => "ice" \in timers
        /\ sctp' = sctp /\ dtls' \in {dtls, "started"}
        /\ tm'.step = "ticking" => sctp = "open"
        /\ dtls' # "freed" \/ dtls' = dtls
    <3> USE <1>0, <1>a, <1>d DEF TmSteps, TmWaits, IceSteps, Timers, IceInv, tmOnly
    <3>1. CASE TimerFires
      <4>1. PICK t \in timers : TmTo(CASE t = "ice" -> "ice" [] t = "dtls" -> "dtls" [] OTHER -> "tick")
        BY <3>1 DEF TimerFires
      <4>2. t = "ice" \/ t = "dtls" \/ t = "sctp"
        OBVIOUS
      <4>3. (t = "ice" /\ TmTo("ice")) \/ TmTo("dtls") \/ TmTo("tick")
        BY <4>1, <4>2
      <4>4. tm.step = "idle" /\ UNCHANGED <<sctp, dtls, timers>>
        BY <3>1 DEF TimerFires
      <4> HIDE DEF TmTo
      <4> QED BY <4>1, <4>3, <4>4
    <3>2. CASE TimerQueueExecutorEnds
      BY <3>2 DEF TimerQueueExecutorEnds
    <3>3. CASE IceStateStays
      BY <3>3 DEF IceStateStays
    <3>4. CASE OnIceConnectionStateChange
      BY <3>4 DEF OnIceConnectionStateChange
    <3>5. CASE SctpTimerCallback
      BY <3>5 DEF SctpTimerCallback
    <3>6. CASE SctpSessionTickTimers
      BY <3>6 DEF SctpSessionTickTimers
    <3>7. CASE DtlsTransmissionTimerCallback
      BY <3>7 DEF DtlsTransmissionTimerCallback
    <3>8. CASE ice.deferred = NULL /\ DeferredOldPairCleanup
      BY <3>8 DEF DeferredOldPairCleanup
    <3>9. ~IceReady /\ ~\E s \in Sockets : IceConnected(s)
      BY <1>1, ZenonT(60) DEF IceReady, IceConnected, ConnectedStateSetup, IceRec
    <3> QED BY <3>1, <3>2, <3>3, <3>4, <3>5, <3>6, <3>7, <3>8, <3>9
  <2>2. PeerType'
    BY <1>0, <1>1, <1>b, <2>1 DEF PeerType
  <2>3. tm.socket = NULL
    BY <1>0, <2>1 DEF IceInv
  <2>4. IceInv'
    BY <1>0, <1>1, <1>b, <1>c, <2>1, <2>3 DEF IceInv, TmWaits
  <2>5. AppInv'
    BY <1>0, <1>1, <1>b, <1>c, <2>1 DEF AppInv
  <2>6. Owned' = Owned /\ Claimed' = Claimed
    BY <1>1, <1>b, <2>1 DEF Owned, Claimed
  <2> QED BY <1>e, <2>2, <2>4, <2>5, <2>6
<1>2. CASE IceReady
  <2>1. /\ ice' = [ice EXCEPT !.state = "READY"] /\ tm.step = "ice" /\ ice.state = "CONNECTED"
        /\ TmTo("notify") /\ UNCHANGED <<dtls, sctp, timers>>
    BY <1>2 DEF IceReady
  <2>2. tm' \in TmRec /\ tm'.step = "notify" /\ tm'.socket = tm.socket
    BY <1>a, <2>1 DEF TmSteps
  <2>3. /\ ice' \in IceRec /\ ice'.state = "READY" /\ ice'.locals = ice.locals /\ ice'.sending = ice.sending
        /\ ice'.deferred = ice.deferred /\ ice'.restart = ice.restart /\ ice'.shutdown = ice.shutdown
    BY <1>d, <2>1 DEF IceRec, IceStates
  <2>4. PeerType'
    BY <1>0, <1>b, <2>1, <2>2, <2>3 DEF PeerType
  <2>5. IceInv'
    BY <1>0, <1>b, <1>c, <2>1, <2>2, <2>3 DEF IceInv, IceSteps, TmWaits
  <2>6. AppInv'
    BY <1>0, <1>b, <1>c, <2>1, <2>2, <2>3 DEF AppInv
  <2>7. Owned' = Owned /\ Claimed' = Claimed
    BY <1>b, <2>2, <2>3 DEF Owned, Claimed
  <2> QED BY <1>e, <2>4, <2>5, <2>6, <2>7
<1>3. ASSUME NEW s \in Sockets, IceConnected(s) PROVE PeerInv'
  <2>1. /\ ice' = ConnectedStateSetup(s) /\ tm.step = "ice" /\ ice.state = "NEW"
        /\ s \in ice.locals \ Relays /\ UNCHANGED <<tm, dtls, sctp, timers>>
    BY <1>3 DEF IceConnected
  <2>2. /\ ice' \in IceRec /\ ice'.state = "CONNECTED" /\ ice'.locals = ice.locals /\ ice'.sending = s
        /\ ice'.deferred = (IF ice.sending = NULL THEN ice.deferred ELSE ice.sending)
        /\ ice'.restart = (ice.restart /\ ice.sending = NULL) /\ ice'.shutdown = ice.shutdown
    BY <1>d, <2>1 DEF IceRec, IceStates, ConnectedStateSetup
  <2>3. ice.deferred = NULL /\ s # NULL /\ s \notin Relays
    BY <1>0, <2>1, SlotAssumption DEF IceInv
  <2>4. PeerType'
    BY <1>0, <1>b, <2>1, <2>2 DEF PeerType
  <2>5. IceInv'
    BY <1>0, <1>b, <1>c, <2>1, <2>2, <2>3 DEF IceInv, IceSteps, TmWaits
  <2>6. AppInv'
    BY <1>0, <1>b, <1>c, <2>1, <2>2 DEF AppInv
  <2>7. Owned \subseteq Owned' \cup {NULL}
    BY <1>b, <2>1, <2>2, <2>3 DEF Owned
  <2>8. Claimed' \subseteq Claimed
    BY <1>b, <2>1, <2>2, <2>3 DEF Claimed
  <2> QED BY <1>e, <2>4, <2>5, <2>6, <2>7, <2>8
<1> QED
  <2>1. UNCHANGED ice \/ IceReady \/ \E s \in Sockets : IceConnected(s)
    BY DEF TimerFires, TimerQueueExecutorEnds, IceStateStays, OnIceConnectionStateChange,
         SctpTimerCallback, SctpSessionTickTimers, DtlsTransmissionTimerCallback, DeferredOldPairCleanup
  <2> QED BY <1>1, <1>2, <1>3, <2>1

\* The steps of the timer thread that take a socket off the list or free it.
LEMMA TimerFrees ==
  ASSUME PeerInv,
         \/ (\E s \in Relays : ReadyFreesTurn(s)) \/ ReadyFreedTurn
         \/ (ice.deferred # NULL /\ DeferredOldPairCleanup) \/ DeferredOldPairFreed
  PROVE  PeerInv'
<1>0. PeerType /\ Listing /\ rx \in RxRec /\ terminate \in BOOLEAN /\ ListInv /\ IceInv /\ AppInv /\ OwnerInv
  BY TypeParts DEF PeerInv
<1>b. UNCHANGED <<terminate, rx, app, queue, inbox, cb, steps, pc, dtls, sctp, timers>>
  BY DEF ReadyFreesTurn, ReadyFreedTurn, DeferredOldPairCleanup, DeferredOldPairFreed
<1>d. tm \in TmRec /\ ice \in IceRec /\ app \in AppRec /\ Claimed \subseteq Sockets
  BY <1>0 DEF PeerType, Claimed, TmRec, IceRec, AppRec
<1>e. ~terminate /\ tm.step \in IceSteps
  BY <1>0 DEF ReadyFreesTurn, ReadyFreedTurn, DeferredOldPairCleanup, DeferredOldPairFreed, AppInv, ExecutorOver,
              IceSteps
<1>f. ASSUME PeerType', Handled, IceInv', AppInv', OwnerInv'
      PROVE  PeerInv'
  BY <1>b, <1>f, HandledKeeps DEF PeerInv
<1>1. ASSUME NEW s \in Relays, ReadyFreesTurn(s) PROVE PeerInv'
  <2>1. /\ tm.step = "ice" /\ s \in ice.locals /\ s \in Sockets /\ s # NULL /\ RemoveConnection(s)
        /\ tm' = [tm EXCEPT !.step = "readyWait", !.socket = s] /\ UNCHANGED ice
    BY <1>1, PeerAssumption, SlotAssumption DEF ReadyFreesTurn
  <2>2. /\ Handled /\ Listed' \subseteq Listed /\ s \notin Listed'
        /\ \A u \in Sockets : socket'[u].memory = socket[u].memory /\ Open(u)' = Open(u)
    BY <1>e, <2>1, RemovedKeeps
  <2>3. tm' \in TmRec /\ tm'.step = "readyWait" /\ tm'.socket = s
    BY <1>d, <2>1 DEF TmRec, TmSteps
  <2>4. PeerType'
    BY <1>0, <1>b, <2>1, <2>3 DEF PeerType
  <2>5. IceInv'
    BY <1>0, <1>b, <2>1, <2>2, <2>3 DEF IceInv, IceSteps, TmWaits
  <2>6. AppInv'
    BY <1>0, <1>b, <2>1, <2>2, <2>3 DEF AppInv
  <2>7. tm.socket = NULL
    BY <1>0, <2>1 DEF IceInv, TmWaits
  <2>8. Owned \subseteq Owned' \cup {NULL} /\ Claimed' \subseteq Claimed
    BY <1>b, <2>1, <2>3, <2>7 DEF Owned, Claimed
  <2>9. OwnerInv'
    BY <1>0, <1>d, <2>2, <2>8, SlotAssumption DEF OwnerInv
  <2> QED BY <1>f, <2>2, <2>4, <2>5, <2>6, <2>9
<1>2. CASE ReadyFreedTurn
  <2>1. /\ tm.step = "readyWait" /\ Released(tm.socket) /\ UNCHANGED <<slots, socketCount>>
        /\ ice' = [ice EXCEPT !.locals = @ \ {tm.socket}]
        /\ tm' = [tm EXCEPT !.step = "ice", !.socket = NULL]
    BY <1>2 DEF ReadyFreedTurn
  <2>2. PICK s \in Sockets : s = tm.socket /\ s \notin Listed /\ s \in Relays
    BY <1>0, <1>d, <2>1 DEF IceInv, TmWaits, TmRec
  <2>3. /\ Handled /\ Listed' = Listed /\ ~Open(s)' /\ Aging
        /\ \A u \in Sockets : Open(u)' => Open(u)
    BY <2>1, <2>2, FreedKeeps
  <2>4. tm' \in TmRec /\ tm'.step = "ice" /\ tm'.socket = NULL
    BY <1>d, <2>1 DEF TmRec, TmSteps
  <2>5. /\ ice' \in IceRec /\ ice'.state = ice.state /\ ice'.locals = ice.locals \ {tm.socket}
        /\ ice'.sending = ice.sending /\ ice'.deferred = ice.deferred /\ ice'.restart = ice.restart
        /\ ice'.shutdown = ice.shutdown
    BY <1>d, <2>1 DEF IceRec
  <2>6. PeerType'
    BY <1>0, <1>b, <2>4, <2>5 DEF PeerType
  <2>7. IceInv'
    BY <1>0, <1>b, <2>1, <2>2, <2>3, <2>4, <2>5 DEF IceInv, IceSteps, TmWaits
  <2>8. AppInv'
    BY <1>0, <1>b, <2>1, <2>3, <2>4, <2>5 DEF AppInv
  <2>9. Owned \subseteq Owned' \cup {s} /\ Claimed' \subseteq Claimed
    BY <1>b, <2>2, <2>4, <2>5 DEF Owned, Claimed
  <2>10. OwnerInv'
    BY <1>0, <1>d, <2>3, <2>9 DEF OwnerInv, Aging
  <2> QED BY <1>f, <2>3, <2>6, <2>7, <2>8, <2>10
<1>3. CASE ice.deferred # NULL /\ DeferredOldPairCleanup
  <2> DEFINE s == ice.deferred
  <2>1. /\ tm.step = "cleanup" /\ s # NULL /\ RemoveConnection(s)
        /\ tm' = [tm EXCEPT !.step = "cleanupWait", !.socket = s]
        /\ ice' = [ice EXCEPT !.deferred = NULL]
    BY <1>3 DEF DeferredOldPairCleanup
  <2>a. s \in Sockets
    BY <1>d, <2>1 DEF IceRec
  <2>2. /\ Handled /\ Listed' \subseteq Listed /\ s \notin Listed'
        /\ \A u \in Sockets : socket'[u].memory = socket[u].memory /\ Open(u)' = Open(u)
    BY <1>e, <2>1, <2>a, RemovedKeeps
  <2>3. tm' \in TmRec /\ tm'.step = "cleanupWait" /\ tm'.socket = s
    BY <1>d, <2>1 DEF TmRec, TmSteps, IceRec
  <2>4. /\ ice' \in IceRec /\ ice'.state = ice.state /\ ice'.locals = ice.locals
        /\ ice'.sending = ice.sending /\ ice'.deferred = NULL /\ ice'.restart = ice.restart
        /\ ice'.shutdown = ice.shutdown
    BY <1>d, <2>1 DEF IceRec
  <2>5. PeerType'
    BY <1>0, <1>b, <2>3, <2>4 DEF PeerType
  <2>6. IceInv'
    BY <1>0, <1>b, <2>1, <2>2, <2>3, <2>4 DEF IceInv, IceSteps, TmWaits
  <2>7. AppInv'
    BY <1>0, <1>b, <2>1, <2>2, <2>3, <2>4 DEF AppInv
  <2>8. tm.socket = NULL
    BY <1>0, <2>1 DEF IceInv, TmWaits
  <2>9. Owned \subseteq Owned' \cup {NULL} /\ Claimed' \subseteq Claimed
    BY <1>b, <2>1, <2>3, <2>4, <2>8 DEF Owned, Claimed
  <2>10. OwnerInv'
    BY <1>0, <1>d, <2>2, <2>9, SlotAssumption DEF OwnerInv
  <2> QED BY <1>f, <2>2, <2>5, <2>6, <2>7, <2>10
<1>4. CASE DeferredOldPairFreed
  <2>1. /\ tm.step = "cleanupWait" /\ Released(tm.socket) /\ UNCHANGED <<slots, socketCount, ice>>
        /\ tm' = [tm EXCEPT !.step = "idle", !.socket = NULL]
    BY <1>4 DEF DeferredOldPairFreed
  <2>2. PICK s \in Sockets : s = tm.socket /\ s \notin Listed
    BY <1>0, <1>d, <2>1 DEF IceInv, TmWaits, TmRec
  <2>3. /\ Handled /\ Listed' = Listed /\ ~Open(s)' /\ Aging
        /\ \A u \in Sockets : Open(u)' => Open(u)
    BY <2>1, <2>2, FreedKeeps
  <2>4. tm' \in TmRec /\ tm'.step = "idle" /\ tm'.socket = NULL
    BY <1>d, <2>1 DEF TmRec, TmSteps
  <2>6. PeerType'
    BY <1>0, <1>b, <2>1, <2>4 DEF PeerType
  <2>7. IceInv'
    BY <1>0, <1>b, <2>1, <2>2, <2>3, <2>4 DEF IceInv, IceSteps, TmWaits
  <2>8. AppInv'
    BY <1>0, <1>b, <2>1, <2>3, <2>4 DEF AppInv
  <2>9. Owned \subseteq Owned' \cup {s} /\ Claimed' \subseteq Claimed
    BY <1>b, <2>1, <2>2, <2>4 DEF Owned, Claimed
  <2>10. OwnerInv'
    BY <1>0, <1>d, <2>3, <2>9 DEF OwnerInv, Aging
  <2> QED BY <1>f, <2>3, <2>6, <2>7, <2>8, <2>10
<1> QED BY <1>1, <1>2, <1>3, <1>4

-----------------------------------------------------------------------------
(* The application thread                                                  *)

\* What the proofs of the steps of the application share: the timer thread
\* stands still.
LEMMA AppFinish ==
  ASSUME PeerInv, UNCHANGED <<terminate, tm>>, Handled, PeerType',
         rx' = rx \/ (rx.pc = "off" /\ rx' = [rx EXCEPT !.pc = "loop"]),
         IceInv', AppInv', OwnerInv'
  PROVE  PeerInv'
BY HandledKeeps DEF PeerInv

\* The steps that leave the sockets alone and change no more than app.step,
\* timers, queue or a session.
LEMMA AppSteps1 ==
  ASSUME PeerInv,
         \/ ClosePeerConnection \/ FreePeerConnection \/ CancelSctpTimer \/ TimerQueueShutdown
         \/ TimerQueueEnded \/ FreeSctpSession \/ FreeIceAgentEnds \/ StartAgent
  PROVE  PeerInv'
<1>0. /\ PeerType /\ Listing /\ rx \in RxRec /\ terminate \in BOOLEAN /\ ListInv /\ IceInv /\ AppInv /\ OwnerInv
      /\ app \in AppRec
  BY TypeParts DEF PeerInv, PeerType
<1>a. \A x \in AppSteps : AppTo(x) => /\ app' \in AppRec /\ app'.step = x /\ app'.next = app.next
                                      /\ app'.batch = app.batch /\ app'.socket = app.socket
  BY <1>0, StepFields
<1>b. /\ UNCHANGED <<socket, slots, socketCount, terminate, tm, ice, inbox, cb, steps>>
      /\ rx' = rx \/ (rx.pc = "off" /\ rx' = [rx EXCEPT !.pc = "loop"] /\ app.step = "gather")
  BY DEF ClosePeerConnection, FreePeerConnection, CancelSctpTimer, TimerQueueShutdown, TimerQueueEnded,
         FreeSctpSession, FreeIceAgentEnds, StartAgent, appOnly, listenerVars, ListenerStart, AppAt
<1>c. Handled /\ Listed' = Listed /\ \A u \in Sockets : Open(u)' = Open(u)
  BY <1>b, UntouchedKeeps
<1>1. /\ app' \in AppRec /\ app'.batch = app.batch /\ app'.socket = app.socket
      /\ pc' \in [receiveEnabled : BOOLEAN, sctpIsEnabled : BOOLEAN]
      /\ sctp' \in {"none", "open", "freed"}
      /\ queue' \in {"running", "shutdown"}
      /\ timers' \subseteq Timers
      /\ UNCHANGED dtls
  <2> USE <1>0, <1>a DEF AppSteps, appOnly, PeerType
  <2>1. CASE ClosePeerConnection
    BY <2>1 DEF ClosePeerConnection, AppRec
  <2>2. CASE FreePeerConnection
    BY <2>2 DEF FreePeerConnection, AppRec
  <2>3. CASE CancelSctpTimer
    BY <2>3 DEF CancelSctpTimer
  <2>4. CASE TimerQueueShutdown
    BY <2>4 DEF TimerQueueShutdown
  <2>5. CASE TimerQueueEnded
    BY <2>5 DEF TimerQueueEnded
  <2>6. CASE FreeSctpSession
    BY <2>6 DEF FreeSctpSession
  <2>7. CASE FreeIceAgentEnds
    BY <2>7 DEF FreeIceAgentEnds
  <2>8. CASE StartAgent
    BY <2>8 DEF StartAgent, Timers
  <2> QED BY <2>1, <2>2, <2>3, <2>4, <2>5, <2>6, <2>7, <2>8
<1>2. \/ app.step \in {"gather", "up", "closed"} /\ app'.step = "shutdown" /\ UNCHANGED <<timers, sctp, rx>>
      \/ /\ <<app.step, app'.step>> \in {<<"cancelSctp", "queueShutdown">>, <<"queueShutdown", "queueWait">>}
         /\ timers' \in {timers, timers \ {"sctp"}} /\ UNCHANGED <<sctp, rx>>
      \/ app.step = "queueWait" /\ app'.step = "freeSctp" /\ tm.step = "gone" /\ UNCHANGED <<timers, sctp, rx>>
      \/ app.step = "freeSctp" /\ app'.step = "freeDtls" /\ UNCHANGED <<timers, rx>>
      \/ app.step = "freeHosts" /\ app'.step = "done" /\ app.batch = {} /\ UNCHANGED <<timers, sctp, rx>>
      \/ /\ app.step = "gather" /\ app'.step = "up" /\ timers' = timers \cup {"ice"} /\ UNCHANGED sctp
  <2> USE <1>0, <1>a DEF AppSteps, appOnly, AppAt, listenerVars
  <2>1. CASE ClosePeerConnection
    BY <2>1 DEF ClosePeerConnection, AppRec
  <2>2. CASE FreePeerConnection
    BY <2>2 DEF FreePeerConnection, AppRec
  <2>3. CASE CancelSctpTimer
    BY <2>3 DEF CancelSctpTimer
  <2>4. CASE TimerQueueShutdown
    BY <2>4 DEF TimerQueueShutdown
  <2>5. CASE TimerQueueEnded
    BY <2>5 DEF TimerQueueEnded
  <2>6. CASE FreeSctpSession
    BY <2>6 DEF FreeSctpSession
  <2>7. CASE FreeIceAgentEnds
    BY <2>7 DEF FreeIceAgentEnds
  <2>8. CASE StartAgent
    BY <2>8 DEF StartAgent
  <2> QED BY <2>1, <2>2, <2>3, <2>4, <2>5, <2>6, <2>7, <2>8
<1>3. PeerType'
  BY <1>0, <1>b, <1>1 DEF PeerType
<1>4. IceInv'
  BY <1>0, <1>b, <1>c, <1>1, <1>2 DEF IceInv
<1>5. AppInv'
  <2>1. rx'.pc = rx.pc \/ app.step = "gather"
    BY <1>b
  <2> QED BY <1>0, <1>b, <1>c, <1>1, <1>2, <2>1 DEF AppInv, Unlisted, ExecutorOver, AppWaits, Working
<1>6. OwnerInv'
  <2>1. Claimed' = Claimed /\ Claimed \subseteq Sockets
    BY <1>0, <1>b, <1>1 DEF Claimed, PeerType, AppRec, TmRec, IceRec
  <2>2. Owned \subseteq Owned'
    BY <1>b, <1>1, <1>2 DEF Owned
  <2> QED BY <1>0, <1>b, <1>c, <2>1, <2>2 DEF OwnerInv
<1> QED BY <1>b, <1>c, <1>3, <1>4, <1>5, <1>6, AppFinish

\* The steps that take a socket off the list or free it.
LEMMA AppFrees ==
  ASSUME PeerInv,
         \/ (\E s \in Sockets : RestartFrees(s)) \/ RestartFreed
         \/ (\E s \in Sockets : FreeTurnConnection(s)) \/ TurnConnectionFreed
         \/ (\E s \in Sockets : FreeHosts(s))
  PROVE  PeerInv'
<1>0. /\ PeerType /\ Listing /\ rx \in RxRec /\ terminate \in BOOLEAN /\ ListInv /\ IceInv /\ AppInv /\ OwnerInv
      /\ app \in AppRec /\ ice \in IceRec /\ tm \in TmRec
  BY TypeParts DEF PeerInv, PeerType
<1>d. Claimed \subseteq Sockets
  BY <1>0 DEF Claimed, TmRec, IceRec, AppRec
<1>b. UNCHANGED <<terminate, tm, rx, ice, queue, inbox, cb, steps, pc, dtls, sctp, timers>>
  BY DEF RestartFrees, RestartFreed, FreeTurnConnection, TurnConnectionFreed, FreeHosts, appOnly
<1>1. ASSUME NEW s \in Sockets, RestartFrees(s) PROVE PeerInv'
  <2>1. /\ app.step = "restartFree" /\ s \in app.batch /\ RemoveConnection(s)
        /\ app' = [app EXCEPT !.step = "restartWait", !.socket = s, !.batch = @ \ {s}]
    BY <1>1 DEF RestartFrees, AppAt
  <2>2. ~terminate /\ app.socket = NULL /\ s # NULL
    BY <1>0, <2>1, SlotAssumption DEF AppInv, AppWaits
  <2>3. /\ Handled /\ Listed' \subseteq Listed /\ s \notin Listed'
        /\ \A u \in Sockets : socket'[u].memory = socket[u].memory /\ Open(u)' = Open(u)
    BY <2>1, <2>2, RemovedKeeps
  <2>4. /\ app' \in AppRec /\ app'.step = "restartWait" /\ app'.socket = s /\ app'.batch = app.batch \ {s}
    BY <1>0, <2>1 DEF AppRec, AppSteps
  <2>5. PeerType'
    BY <1>0, <1>b, <2>4 DEF PeerType
  <2>6. IceInv'
    BY <1>0, <1>b, <2>1, <2>3, <2>4 DEF IceInv
  <2>7. AppInv'
    BY <1>0, <1>b, <2>1, <2>2, <2>3, <2>4 DEF AppInv, AppWaits, Unlisted, ExecutorOver, Working
  <2>8. Owned \subseteq Owned' \cup {NULL} /\ Claimed' \subseteq Claimed
    BY <1>b, <2>1, <2>2, <2>4 DEF Owned, Claimed
  <2>9. OwnerInv'
    BY <1>0, <1>d, <2>3, <2>8, SlotAssumption DEF OwnerInv
  <2> QED BY <1>b, <2>3, <2>5, <2>6, <2>7, <2>9, AppFinish
<1>2. CASE RestartFreed
  <2>1. /\ app.step = "restartWait" /\ Released(app.socket) /\ UNCHANGED <<slots, socketCount>>
        /\ app' = [app EXCEPT !.step = "restartFree", !.socket = NULL]
    BY <1>2 DEF RestartFreed, AppAt
  <2>2. PICK s \in Sockets : s = app.socket /\ s \notin Listed
    BY <1>0, <2>1 DEF AppInv, AppWaits, AppRec
  <2>3. /\ Handled /\ Listed' = Listed /\ ~Open(s)' /\ Aging
        /\ \A u \in Sockets : Open(u)' => Open(u)
    BY <2>1, <2>2, FreedKeeps
  <2>4. /\ app' \in AppRec /\ app'.step = "restartFree" /\ app'.socket = NULL /\ app'.batch = app.batch
    BY <1>0, <2>1 DEF AppRec, AppSteps
  <2>5. PeerType'
    BY <1>0, <1>b, <2>4 DEF PeerType
  <2>6. IceInv'
    BY <1>0, <1>b, <2>1, <2>3, <2>4 DEF IceInv
  <2>7. AppInv'
    BY <1>0, <1>b, <2>1, <2>3, <2>4 DEF AppInv, AppWaits, Unlisted, ExecutorOver, Working
  <2>8. Owned \subseteq Owned' \cup {s} /\ Claimed' \subseteq Claimed
    BY <1>b, <2>1, <2>2, <2>4 DEF Owned, Claimed
  <2>9. OwnerInv'
    BY <1>0, <1>d, <2>3, <2>8 DEF OwnerInv, Aging
  <2> QED BY <1>b, <2>3, <2>5, <2>6, <2>7, <2>9, AppFinish
<1>3. ASSUME NEW s \in Sockets, FreeTurnConnection(s) PROVE PeerInv'
  <2>1. /\ app.step = "freeTurn" /\ s \in app.batch /\ RemoveConnection(s)
        /\ app' = [app EXCEPT !.step = "turnWait", !.socket = s, !.batch = @ \ {s}]
    BY <1>3 DEF FreeTurnConnection, AppAt
  <2>2. ~terminate /\ app.socket = NULL /\ s # NULL
    BY <1>0, <2>1, SlotAssumption DEF AppInv, AppWaits
  <2>3. /\ Handled /\ Listed' \subseteq Listed /\ s \notin Listed'
        /\ \A u \in Sockets : socket'[u].memory = socket[u].memory /\ Open(u)' = Open(u)
    BY <2>1, <2>2, RemovedKeeps
  <2>4. /\ app' \in AppRec /\ app'.step = "turnWait" /\ app'.socket = s /\ app'.batch = app.batch \ {s}
    BY <1>0, <2>1 DEF AppRec, AppSteps
  <2>5. PeerType'
    BY <1>0, <1>b, <2>4 DEF PeerType
  <2>6. IceInv'
    BY <1>0, <1>b, <2>1, <2>3, <2>4 DEF IceInv
  <2>7. AppInv'
    BY <1>0, <1>b, <2>1, <2>2, <2>3, <2>4 DEF AppInv, AppWaits, Unlisted, ExecutorOver, Working
  <2>8. Owned \subseteq Owned' \cup {NULL} /\ Claimed' \subseteq Claimed
    BY <1>b, <2>1, <2>2, <2>4 DEF Owned, Claimed
  <2>9. OwnerInv'
    BY <1>0, <1>d, <2>3, <2>8, SlotAssumption DEF OwnerInv
  <2> QED BY <1>b, <2>3, <2>5, <2>6, <2>7, <2>9, AppFinish
<1>4. CASE TurnConnectionFreed
  <2>1. /\ app.step = "turnWait" /\ Released(app.socket) /\ UNCHANGED <<slots, socketCount>>
        /\ app' = [app EXCEPT !.step = "freeTurn", !.socket = NULL]
    BY <1>4 DEF TurnConnectionFreed, AppAt
  <2>2. PICK s \in Sockets : s = app.socket /\ s \notin Listed
    BY <1>0, <2>1 DEF AppInv, AppWaits, AppRec
  <2>3. /\ Handled /\ Listed' = Listed /\ ~Open(s)' /\ Aging
        /\ \A u \in Sockets : Open(u)' => Open(u)
    BY <2>1, <2>2, FreedKeeps
  <2>4. /\ app' \in AppRec /\ app'.step = "freeTurn" /\ app'.socket = NULL /\ app'.batch = app.batch
    BY <1>0, <2>1 DEF AppRec, AppSteps
  <2>5. PeerType'
    BY <1>0, <1>b, <2>4 DEF PeerType
  <2>6. IceInv'
    BY <1>0, <1>b, <2>1, <2>3, <2>4 DEF IceInv
  <2>7. AppInv'
    BY <1>0, <1>b, <2>1, <2>3, <2>4 DEF AppInv, AppWaits, Unlisted, ExecutorOver, Working
  <2>8. Owned \subseteq Owned' \cup {s} /\ Claimed' \subseteq Claimed
    BY <1>b, <2>1, <2>2, <2>4 DEF Owned, Claimed
  <2>9. OwnerInv'
    BY <1>0, <1>d, <2>3, <2>8 DEF OwnerInv, Aging
  <2> QED BY <1>b, <2>3, <2>5, <2>6, <2>7, <2>9, AppFinish
<1>5. ASSUME NEW s \in Sockets, FreeHosts(s) PROVE PeerInv'
  <2>1. /\ app.step = "freeHosts" /\ s \in app.batch /\ Released(s) /\ UNCHANGED <<slots, socketCount>>
        /\ app' = [app EXCEPT !.batch = @ \ {s}]
    BY <1>5 DEF FreeHosts, AppAt
  <2>2. s \notin Listed
    BY <1>0, <2>1 DEF AppInv, Unlisted, ExecutorOver
  <2>3. /\ Handled /\ Listed' = Listed /\ ~Open(s)' /\ Aging
        /\ \A u \in Sockets : Open(u)' => Open(u)
    BY <2>1, <2>2, FreedKeeps
  <2>4. /\ app' \in AppRec /\ app'.step = "freeHosts" /\ app'.socket = app.socket
        /\ app'.batch = app.batch \ {s}
    BY <1>0, <2>1 DEF AppRec
  <2>5. PeerType'
    BY <1>0, <1>b, <2>4 DEF PeerType
  <2>6. IceInv'
    BY <1>0, <1>b, <2>1, <2>3, <2>4 DEF IceInv
  <2>7. AppInv'
    BY <1>0, <1>b, <2>1, <2>3, <2>4 DEF AppInv, AppWaits, Unlisted, ExecutorOver, Working
  <2>8. Owned \subseteq Owned' \cup {s} /\ Claimed' \subseteq Claimed
    BY <1>b, <2>1, <2>4 DEF Owned, Claimed
  <2>9. OwnerInv'
    BY <1>0, <1>d, <2>3, <2>8 DEF OwnerInv, Aging
  <2> QED BY <1>b, <2>3, <2>5, <2>6, <2>7, <2>9, AppFinish
<1> QED BY <1>1, <1>2, <1>3, <1>4, <1>5

\* The steps that leave the sockets alone and hand them to another owner.
LEMMA AppHands ==
  ASSUME PeerInv,
         \/ RestartIce \/ RestartTakesCandidates \/ RestartEnds \/ IceAgentShutdown
         \/ FreeDtlsSession \/ ListenerJoined
  PROVE  PeerInv'
<1>0. /\ PeerType /\ Listing /\ rx \in RxRec /\ terminate \in BOOLEAN /\ ListInv /\ IceInv /\ AppInv /\ OwnerInv
      /\ app \in AppRec /\ ice \in IceRec /\ tm \in TmRec
  BY TypeParts DEF PeerInv, PeerType
<1>d. Claimed \subseteq Sockets
  BY <1>0 DEF Claimed, TmRec, IceRec, AppRec
<1>b. UNCHANGED <<socket, slots, socketCount, terminate, tm, rx, queue, inbox, cb, pc, sctp>>
  BY DEF RestartIce, RestartTakesCandidates, RestartEnds, IceAgentShutdown, FreeDtlsSession, ListenerJoined,
         appOnly, listenerVars
<1>c. Handled /\ Listed' = Listed /\ \A u \in Sockets : Open(u)' = Open(u)
  BY <1>b, UntouchedKeeps
<1>e. ASSUME PeerType', IceInv', AppInv', Owned \subseteq Owned' \cup {NULL}, Claimed' \subseteq Claimed
      PROVE  PeerInv'
  <2>1. OwnerInv'
    BY <1>0, <1>b, <1>c, <1>d, <1>e, SlotAssumption DEF OwnerInv
  <2> QED BY <1>b, <1>c, <1>e, <2>1, AppFinish
<1>1. CASE RestartIce
  <2>1. /\ app.step = "up" /\ steps.restarts < MaxRestarts /\ ~ice.shutdown /\ ~ice.restart
        /\ ice' = [ice EXCEPT !.restart = TRUE] /\ AppTo("restart")
        /\ steps' = [steps EXCEPT !.restarts = @ + 1] /\ UNCHANGED <<dtls, timers>>
    BY <1>1 DEF RestartIce, AppAt
  <2>2. ice.state = "NEW" => ice.sending = NULL
    BY <1>0, <2>1, SlotAssumption DEF AppInv, IceInv, AppWaits, TmWaits, IceSteps, ExecutorOver
  <2>3. app' \in AppRec /\ app'.step = "restart" /\ app'.batch = app.batch /\ app'.socket = app.socket
    BY <1>0, <2>1 DEF AppRec, AppSteps, IceRec, AppTo
  <2>4. ice' \in IceRec /\ ice'.state = ice.state /\ ice'.shutdown = ice.shutdown /\ ice'.restart = TRUE /\ ice'.locals = ice.locals /\ ice'.sending = ice.sending /\ ice'.deferred = ice.deferred
    BY <1>0, <2>1 DEF IceRec, IceStates
  <2>b. steps' \in [packets : 0 .. MaxPackets, restarts : 0 .. MaxRestarts]
    BY <1>0, <2>1, PeerAssumption DEF PeerType
  <2>a. PeerType'
    BY <1>0, <1>b, <2>1, <2>3, <2>4, <2>b DEF PeerType, Timers
  <2>5. IceInv'
    BY <1>0, <1>b, <1>c, <2>1, <2>2, <2>3, <2>4 DEF IceInv
  <2>6. AppInv'
    BY <1>0, <1>b, <1>c, <2>1, <2>2, <2>3, <2>4 DEF AppInv, AppWaits, Unlisted, ExecutorOver, Working
  <2>7. Owned \subseteq Owned' \cup {NULL} /\ Claimed' \subseteq Claimed
    BY <1>0, <1>b, <2>1, <2>2, <2>3, <2>4 DEF Owned, Claimed
  <2> QED BY <1>e, <2>a, <2>5, <2>6, <2>7
<1>2. CASE RestartTakesCandidates
  <2>1. /\ app.step = "restart" /\ tm.step \in {"idle", "gone"} /\ timers' = timers \ {"ice"}
        /\ app' = [app EXCEPT !.step = "restartFree", !.batch = ice.locals \ {ice.sending}]
        /\ ice' = [ice EXCEPT !.locals = {}] /\ UNCHANGED <<dtls, steps>>
    BY <1>2 DEF RestartTakesCandidates, AppAt, ExecutorFree, appOnly
  <2>2. ice.restart /\ ice.deferred = NULL /\ app.batch = {} /\ tm.socket = NULL /\ tm.step \notin IceSteps
    BY <1>0, <2>1, SlotAssumption DEF AppInv, IceInv, AppWaits, TmWaits, IceSteps, ExecutorOver
  <2>3. app' \in AppRec /\ app'.step = "restartFree" /\ app'.batch = ice.locals \ {ice.sending} /\ app'.socket = app.socket
    BY <1>0, <2>1 DEF AppRec, AppSteps, IceRec, AppTo
  <2>4. ice' \in IceRec /\ ice'.state = ice.state /\ ice'.shutdown = ice.shutdown /\ ice'.restart = ice.restart /\ ice'.locals = {} /\ ice'.sending = ice.sending /\ ice'.deferred = ice.deferred
    BY <1>0, <2>1 DEF IceRec, IceStates
  <2>a. PeerType'
    BY <1>0, <1>b, <2>1, <2>3, <2>4 DEF PeerType, Timers
  <2>5. IceInv'
    BY <1>0, <1>b, <1>c, <2>1, <2>2, <2>3, <2>4 DEF IceInv
  <2>6. AppInv'
    BY <1>0, <1>b, <1>c, <2>1, <2>2, <2>3, <2>4 DEF AppInv, AppWaits, Unlisted, ExecutorOver, Working
  <2>7. Owned \subseteq Owned' \cup {NULL} /\ Claimed' \subseteq Claimed
    BY <1>0, <1>b, <2>1, <2>2, <2>3, <2>4 DEF Owned, Claimed
  <2> QED BY <1>e, <2>a, <2>5, <2>6, <2>7
<1>3. CASE RestartEnds
  <2>1. /\ app.step = "restartFree" /\ app.batch = {} /\ AppTo("gather")
        /\ ice' = [ice EXCEPT !.state = "NEW"] /\ UNCHANGED <<dtls, steps, timers>>
    BY <1>3 DEF RestartEnds, AppAt, appOnly
  <2>2. ice.restart /\ ice.deferred = NULL /\ ~ice.shutdown
    BY <1>0, <2>1, SlotAssumption DEF AppInv, IceInv, AppWaits, TmWaits, IceSteps, ExecutorOver, Working
  <2>3. app' \in AppRec /\ app'.step = "gather" /\ app'.batch = app.batch /\ app'.socket = app.socket
    BY <1>0, <2>1 DEF AppRec, AppSteps, IceRec, AppTo
  <2>4. ice' \in IceRec /\ ice'.state = "NEW" /\ ice'.shutdown = ice.shutdown /\ ice'.restart = ice.restart /\ ice'.locals = ice.locals /\ ice'.sending = ice.sending /\ ice'.deferred = ice.deferred
    BY <1>0, <2>1 DEF IceRec, IceStates
  <2>a. PeerType'
    BY <1>0, <1>b, <2>1, <2>3, <2>4 DEF PeerType, Timers
  <2>5. IceInv'
    BY <1>0, <1>b, <1>c, <2>1, <2>2, <2>3, <2>4 DEF IceInv
  <2>6. AppInv'
    BY <1>0, <1>b, <1>c, <2>1, <2>2, <2>3, <2>4 DEF AppInv, AppWaits, Unlisted, ExecutorOver, Working
  <2>7. Owned \subseteq Owned' \cup {NULL} /\ Claimed' \subseteq Claimed
    BY <1>0, <1>b, <2>1, <2>2, <2>3, <2>4 DEF Owned, Claimed
  <2> QED BY <1>e, <2>a, <2>5, <2>6, <2>7
<1>4. CASE IceAgentShutdown /\ ice.shutdown
  <2>1. app.step = "shutdown" /\ AppTo(app.next) /\ UNCHANGED <<ice, timers, dtls, steps>>
    BY <1>4 DEF IceAgentShutdown, AppAt, appOnly
  <2>2. Listed = {} /\ app.socket = NULL /\ app.batch = {}
    BY <1>0, <1>4, <2>1 DEF AppInv, AppWaits
  <2>3. app' \in AppRec /\ app'.step \in {"closed", "cancelSctp"} /\ app'.batch = {} /\ app'.socket = NULL
    BY <1>0, <2>1, <2>2 DEF AppRec, AppSteps, AppTo
  <2>4. PeerType'
    BY <1>0, <1>b, <2>1, <2>3 DEF PeerType
  <2>5. IceInv'
    BY <1>0, <1>b, <1>c, <2>1, <2>2, <2>3 DEF IceInv
  <2>6. AppInv'
    BY <1>0, <1>b, <1>c, <2>1, <2>2, <2>3 DEF AppInv, AppWaits, Unlisted, ExecutorOver, Working
  <2>7. Owned \subseteq Owned' /\ Claimed' \subseteq Claimed
    BY <1>b, <2>1, <2>2, <2>3 DEF Owned, Claimed
  <2> QED BY <1>e, <2>4, <2>5, <2>6, <2>7
<1>5. CASE IceAgentShutdown /\ ~ice.shutdown
  <2>1. /\ app.step = "shutdown" /\ tm.step \in {"idle", "gone"} /\ timers' = timers \ {"ice"}
        /\ ice' = [ice EXCEPT !.shutdown = TRUE] /\ AppTo("closeSockets") /\ UNCHANGED <<dtls, steps>>
    BY <1>5 DEF IceAgentShutdown, appOnly, AppAt, ExecutorFree
  <2>2. ice.deferred = NULL /\ tm.step \notin IceSteps
    BY <1>0, <2>1, SlotAssumption DEF AppInv, IceInv, AppWaits, TmWaits, IceSteps, ExecutorOver
  <2>3. app' \in AppRec /\ app'.step = "closeSockets" /\ app'.batch = app.batch /\ app'.socket = app.socket
    BY <1>0, <2>1 DEF AppRec, AppSteps, IceRec, AppTo
  <2>4. ice' \in IceRec /\ ice'.state = ice.state /\ ice'.shutdown = TRUE /\ ice'.restart = ice.restart /\ ice'.locals = ice.locals /\ ice'.sending = ice.sending /\ ice'.deferred = ice.deferred
    BY <1>0, <2>1 DEF IceRec, IceStates
  <2>a. PeerType'
    BY <1>0, <1>b, <2>1, <2>3, <2>4 DEF PeerType, Timers
  <2>5. IceInv'
    BY <1>0, <1>b, <1>c, <2>1, <2>2, <2>3, <2>4 DEF IceInv
  <2>6. AppInv'
    BY <1>0, <1>b, <1>c, <2>1, <2>2, <2>3, <2>4 DEF AppInv, AppWaits, Unlisted, ExecutorOver, Working
  <2>7. Owned \subseteq Owned' \cup {NULL} /\ Claimed' \subseteq Claimed
    BY <1>0, <1>b, <2>1, <2>2, <2>3, <2>4 DEF Owned, Claimed
  <2> QED BY <1>e, <2>a, <2>5, <2>6, <2>7
<1>6. CASE FreeDtlsSession
  <2>1. /\ app.step = "freeDtls" /\ dtls' = "freed" /\ UNCHANGED <<ice, timers, steps>>
        /\ app' = [app EXCEPT !.step = "freeTurn", !.batch = ice.locals \cap Relays]
    BY <1>6 DEF FreeDtlsSession, AppAt, appOnly
  <2>2. app.batch = {} /\ tm.step = "gone"
    BY <1>0, <2>1, SlotAssumption DEF AppInv, IceInv, AppWaits, TmWaits, IceSteps, ExecutorOver
  <2>3. app' \in AppRec /\ app'.step = "freeTurn" /\ app'.batch = ice.locals \cap Relays /\ app'.socket = app.socket
    BY <1>0, <2>1 DEF AppRec, AppSteps, IceRec, AppTo
  <2>4. ice' \in IceRec /\ UNCHANGED ice
    BY <1>0, <2>1 DEF IceRec, IceStates
  <2>a. PeerType'
    BY <1>0, <1>b, <2>1, <2>3, <2>4 DEF PeerType, Timers
  <2>5. IceInv'
    BY <1>0, <1>b, <1>c, <2>1, <2>2, <2>3, <2>4 DEF IceInv
  <2>6. AppInv'
    BY <1>0, <1>b, <1>c, <2>1, <2>2, <2>3, <2>4 DEF AppInv, AppWaits, Unlisted, ExecutorOver, Working
  <2>7. Owned \subseteq Owned' \cup {NULL} /\ Claimed' \subseteq Claimed
    BY <1>0, <1>b, <2>1, <2>2, <2>3, <2>4 DEF Owned, Claimed
  <2> QED BY <1>e, <2>a, <2>5, <2>6, <2>7
<1>7. CASE ListenerJoined
  <2>1. /\ app.step = "join" /\ rx.pc \in {"off", "done"} /\ UNCHANGED <<ice, timers, steps, dtls>>
        /\ app' = [app EXCEPT !.step = "freeHosts",
             !.batch = (ice.locals \ Relays)
                       \cup ((IF ice.restart THEN {ice.sending, ice.deferred} ELSE {ice.deferred})
                             \ {NULL})]
    BY <1>7 DEF ListenerJoined, AppAt, appOnly
  <2>2. /\ app.batch = {} /\ tm.step = "gone" /\ tm.socket = NULL /\ ice.sending \notin Relays
        /\ ~ice.restart /\ ice.sending # NULL => ice.sending \in ice.locals
    BY <1>0, <2>1, SlotAssumption DEF AppInv, IceInv, AppWaits, TmWaits, IceSteps, ExecutorOver
  <2>3. app' \in AppRec /\ app'.step = "freeHosts" /\ app'.socket = app.socket
        /\ app'.batch = (ice.locals \ Relays)
             \cup ((IF ice.restart THEN {ice.sending, ice.deferred} ELSE {ice.deferred}) \ {NULL})
    BY <1>0, <2>1 DEF AppRec, AppSteps, IceRec, AppTo
  <2>4. ice' \in IceRec /\ UNCHANGED ice
    BY <1>0, <2>1 DEF IceRec, IceStates
  <2>a. PeerType'
    BY <1>0, <1>b, <2>1, <2>3, <2>4 DEF PeerType, Timers
  <2>5. IceInv'
    BY <1>0, <1>b, <1>c, <2>1, <2>2, <2>3, <2>4 DEF IceInv
  <2>6. AppInv'
    BY <1>0, <1>b, <1>c, <2>1, <2>2, <2>3, <2>4 DEF AppInv, AppWaits, Unlisted, ExecutorOver, Working
  <2>7. Owned \subseteq Owned' \cup {NULL} /\ Claimed' \subseteq Claimed
    BY <1>0, <1>b, <2>1, <2>2, <2>3, <2>4 DEF Owned, Claimed
  <2> QED BY <1>e, <2>a, <2>5, <2>6, <2>7
<1> QED BY <1>1, <1>2, <1>3, <1>4, <1>5, <1>6, <1>7

\* A socket is gathered: no one has spoken of it yet.
LEMMA GatherStep ==
  ASSUME PeerInv, NEW s \in Sockets, Gather(s)
  PROVE  PeerInv'
<1>0. /\ PeerType /\ Listing /\ rx \in RxRec /\ terminate \in BOOLEAN /\ ListInv /\ IceInv /\ AppInv /\ OwnerInv
      /\ app \in AppRec /\ ice \in IceRec /\ tm \in TmRec
  BY TypeParts DEF PeerInv, PeerType
<1>d. Claimed \subseteq Sockets /\ Listed \subseteq Sockets /\ Batch \subseteq Sockets
  BY <1>0 DEF Claimed, TmRec, IceRec, AppRec, Listed, Batch
<1>1. /\ app.step = "gather" /\ AddConnection(s) /\ ice' = [ice EXCEPT !.locals = @ \cup {s}]
      /\ UNCHANGED <<inbox, cb, tm, steps, terminate, rx, pc, dtls, sctp, timers, queue, app>>
  BY DEF Gather, AppAt, appOnly
<1>2. socket[s].memory = "none" /\ s # NULL
  BY <1>1, SlotAssumption DEF AddConnection
<1>3. s \notin Listed /\ s \notin Batch /\ s \notin Claimed
  BY <1>0, <1>2 DEF ListInv, OwnerInv, Open
<1>4. /\ Listing' /\ Aging
      /\ \A i, j \in Slots : slots'[i] # NULL /\ slots'[i] = slots'[j] => i = j
      /\ \A u \in Sockets : u # s => socket'[u] = socket[u]
      /\ socket'[s].memory = "open" /\ socket'[s].inUse = socket[s].inUse
      /\ Listed' \subseteq Listed \cup {s}
  BY <1>0, <1>1, <1>3, AddKeeps DEF ListInv
<1>5. Open(s)' /\ \A u \in Sockets : u # s => Open(u)' = Open(u)
  BY <1>4 DEF Open
<1>6. Handled
  BY <1>0, <1>d, <1>3, <1>4, <1>5 DEF Handled, ListInv
<1>7. /\ ice' \in IceRec /\ ice'.state = ice.state /\ ice'.locals = ice.locals \cup {s}
      /\ ice'.sending = ice.sending /\ ice'.deferred = ice.deferred /\ ice'.restart = ice.restart
      /\ ice'.shutdown = ice.shutdown
  BY <1>0, <1>1 DEF IceRec
<1>8. PeerType'
  BY <1>0, <1>1, <1>7 DEF PeerType
<1>9. tm.socket # NULL => tm.socket # s
  BY <1>3 DEF Claimed
<1>10. IceInv'
  BY <1>0, <1>1, <1>4, <1>7, <1>9 DEF IceInv
<1>11. AppInv'
  BY <1>0, <1>1, <1>7 DEF AppInv, AppWaits, Unlisted, ExecutorOver
<1>12. Owned' = Owned \cup {s} /\ Claimed' = Claimed \cup {s}
  BY <1>1, <1>2, <1>7 DEF Owned, Claimed
<1>13. OwnerInv'
  BY <1>0, <1>d, <1>2, <1>4, <1>5, <1>12 DEF OwnerInv, Aging
<1> QED BY <1>1, <1>6, <1>8, <1>10, <1>11, <1>13, AppFinish

\* The sockets are closed and taken off the list, and none is freed.
LEMMA ShutdownStep ==
  ASSUME PeerInv, ShutdownClosesSockets \/ ShutdownRemovesAll
  PROVE  PeerInv'
<1>0. /\ PeerType /\ Listing /\ rx \in RxRec /\ terminate \in BOOLEAN /\ ListInv /\ IceInv /\ AppInv /\ OwnerInv
      /\ app \in AppRec /\ ice \in IceRec /\ tm \in TmRec
  BY TypeParts DEF PeerInv, PeerType
<1>d. Claimed \subseteq Sockets /\ Listed \subseteq Sockets /\ Batch \subseteq Sockets
  BY <1>0 DEF Claimed, TmRec, IceRec, AppRec, Listed, Batch
<1>b. UNCHANGED <<inbox, cb, tm, steps, terminate, rx, pc, ice, dtls, sctp, timers, queue>>
  BY DEF ShutdownClosesSockets, ShutdownRemovesAll, appOnly
<1>1. ASSUME app.step \in {"closeSockets", "removeAll"},
             \/ AppTo("removeAll") /\ Listed' = Listed
             \/ AppTo(app.next) /\ Listed' = {},
             Listing' /\ Aging,
             \A i, j \in Slots : slots'[i] # NULL /\ slots'[i] = slots'[j] => i = j,
             \A u \in Sockets : socket'[u].memory = socket[u].memory /\ socket'[u].inUse = socket[u].inUse
      PROVE  PeerInv'
  <2>1. \A u \in Sockets : Open(u)' = Open(u)
    BY <1>1 DEF Open
  <2>2. Handled
    BY <1>0, <1>d, <1>1, <2>1 DEF Handled, ListInv
  <2>3. /\ app' \in AppRec /\ app'.batch = app.batch /\ app'.socket = app.socket
        /\ app'.step = "removeAll" \/ (app'.step \in {"closed", "cancelSctp"} /\ Listed' = {})
    BY <1>0, <1>1 DEF AppRec, AppSteps, AppTo
  <2>4. PeerType'
    BY <1>0, <1>b, <2>3 DEF PeerType
  <2>5. Listed' \subseteq Listed
    BY <1>1
  <2>6. IceInv'
    BY <1>0, <1>b, <1>1, <2>3, <2>5 DEF IceInv
  <2>7. AppInv'
    BY <1>0, <1>b, <1>1, <2>3, <2>5 DEF AppInv, AppWaits, Unlisted, ExecutorOver, Working
  <2>8. Owned = Owned' /\ Claimed' = Claimed
    BY <1>b, <1>1, <2>3 DEF Owned, Claimed
  <2>9. OwnerInv'
    BY <1>0, <1>d, <1>1, <2>1, <2>8 DEF OwnerInv
  <2> QED BY <1>b, <2>2, <2>4, <2>6, <2>7, <2>9, AppFinish
<1>2. CASE ShutdownClosesSockets
  <2>1. /\ app.step = "closeSockets" /\ CloseSockets(ice.locals \ Relays) /\ AppTo("removeAll")
        /\ UNCHANGED <<slots, socketCount>>
    BY <1>2 DEF ShutdownClosesSockets, AppAt
  <2>2. /\ Listing' /\ Aging /\ Listed' = Listed
        /\ \A u \in Sockets : socket'[u].memory = socket[u].memory /\ socket'[u].inUse = socket[u].inUse
    BY <1>0, <2>1, CloseKeeps
  <2> QED BY <1>0, <1>1, <2>1, <2>2 DEF ListInv
<1>3. CASE ShutdownRemovesAll
  <2>1. app.step = "removeAll" /\ RemoveAllConnection /\ AppTo(app.next)
    BY <1>3 DEF ShutdownRemovesAll, AppAt
  <2>2. ~terminate
    BY <1>0, <2>1 DEF AppInv
  <2>3. /\ Listing' /\ Aging /\ Listed' = {} /\ \A i \in Slots : slots'[i] = NULL
        /\ \A u \in Sockets : socket'[u].memory = socket[u].memory /\ socket'[u].inUse = socket[u].inUse
    BY <1>0, <2>1, <2>2, RemoveAllKeeps
  <2> QED BY <1>1, <2>1, <2>3
<1> QED BY <1>2, <1>3

\* The listener is told to end.
LEMMA FreeListenerStep ==
  ASSUME PeerInv, FreeConnectionListener
  PROVE  PeerInv'
<1>0. /\ PeerType /\ Listing /\ rx \in RxRec /\ terminate \in BOOLEAN /\ ListInv /\ IceInv /\ AppInv /\ OwnerInv
      /\ app \in AppRec /\ ice \in IceRec /\ tm \in TmRec
  BY TypeParts DEF PeerInv, PeerType
<1>d. Claimed \subseteq Sockets /\ Listed \subseteq Sockets /\ Batch \subseteq Sockets
  BY <1>0 DEF Claimed, TmRec, IceRec, AppRec, Listed, Batch
<1>1. /\ app.step = "freeTurn" /\ app.batch = {} /\ terminate' = TRUE /\ AppTo("join")
      /\ UNCHANGED <<inbox, cb, tm, steps, socket, slots, socketCount, rx, pc, ice, dtls, sctp, timers, queue>>
  BY DEF FreeConnectionListener, AppAt, appOnly
<1>2. /\ app' \in AppRec /\ app'.step = "join" /\ app'.batch = app.batch /\ app'.socket = app.socket
  BY <1>0, <1>1 DEF AppTo, AppRec, AppSteps
<1>3. PeerType'
  BY <1>0, <1>1, <1>2 DEF PeerType
<1>4. Listing' /\ rx' \in RxRec /\ ListInv' /\ Listed' = Listed /\ Batch' = Batch
  BY <1>0, <1>1 DEF Listing, ListInv, Listed, Batch, Open
<1>5. terminate' \in BOOLEAN
  BY <1>1, Zenon
<1>6. TypeOK'
  BY <1>3, <1>4, <1>5, TypeParts
<1>7. IceInv'
  BY <1>0, <1>1, <1>2, <1>4 DEF IceInv
<1>8. AppInv'
  BY <1>0, <1>1, <1>2, <1>4 DEF AppInv, AppWaits, Unlisted, ExecutorOver, Working
<1>9. Owned' = Owned /\ Claimed' = Claimed
  BY <1>1, <1>2 DEF Owned, Claimed
<1>10. OwnerInv'
  BY <1>0, <1>1, <1>9 DEF OwnerInv, Open
<1> QED BY <1>4, <1>6, <1>7, <1>8, <1>10 DEF PeerInv

\* A packet arrives, or nothing happens.
LEMMA ArriveStep ==
  ASSUME PeerInv, (\E s \in Sockets : Arrive(s)) \/ UNCHANGED vars
  PROVE  PeerInv'
<1>0. /\ PeerType /\ Listing /\ rx \in RxRec /\ terminate \in BOOLEAN /\ ListInv /\ IceInv /\ AppInv /\ OwnerInv
      /\ app \in AppRec /\ ice \in IceRec /\ tm \in TmRec
  BY TypeParts DEF PeerInv, PeerType
<1>d. Claimed \subseteq Sockets /\ Listed \subseteq Sockets /\ Batch \subseteq Sockets
  BY <1>0 DEF Claimed, TmRec, IceRec, AppRec, Listed, Batch
<1>1. UNCHANGED <<socket, slots, socketCount, terminate, rx, pc, ice, dtls, sctp, timers, queue, cb, tm, app>>
  BY DEF Arrive, vars, listenerVars, peerVars
<1>2. inbox' \subseteq Sockets /\ steps' \in [packets : 0 .. MaxPackets, restarts : 0 .. MaxRestarts]
  BY <1>0, PeerAssumption DEF Arrive, vars, PeerType
<1>3. PeerType'
  BY <1>0, <1>1, <1>2 DEF PeerType
<1>4. Handled /\ Listed' = Listed /\ \A u \in Sockets : Open(u)' = Open(u)
  BY <1>1, UntouchedKeeps
<1>5. IceInv' /\ AppInv'
  BY <1>0, <1>1, <1>4 DEF IceInv, AppInv
<1>6. Owned' = Owned /\ Claimed' = Claimed
  BY <1>1 DEF Owned, Claimed
<1>7. OwnerInv'
  BY <1>0, <1>1, <1>4, <1>6 DEF OwnerInv
<1> QED BY <1>1, <1>3, <1>4, <1>5, <1>7, AppFinish

-----------------------------------------------------------------------------
(* The invariant and what it says                                          *)

LEMMA PeerInit == Init => PeerInv
<1> SUFFICES ASSUME Init PROVE PeerInv
  OBVIOUS
<1>1. /\ socket = [s \in Sockets |-> [memory |-> "none", connectionClosed |-> FALSE, inUse |-> FALSE]]
      /\ slots = NoSockets /\ socketCount = 0 /\ terminate = FALSE
      /\ rx = [pc |-> "off", held |-> NoSockets, ready |-> {}]
  BY DEF Init, ListenerInit
<1>2. {i \in Slots : slots[i] # NULL} = {}
  BY <1>1 DEF NoSockets
<1>3. Cardinality({i \in Slots : slots[i] # NULL}) = 0
  BY <1>2, FS_EmptySet
<1>4. Listing
  BY <1>1, <1>3 DEF Listing, SocketRec, NoSockets
<1>5. rx \in RxRec /\ rx.pc = "off" /\ rx.held = NoSockets
  BY <1>1 DEF RxRec, RxSteps, NoSockets
<1>6. terminate \in BOOLEAN
  BY <1>1, Zenon
<1>7. /\ pc = [receiveEnabled |-> TRUE, sctpIsEnabled |-> TRUE]
      /\ ice = [state |-> "NEW", shutdown |-> FALSE, restart |-> FALSE, locals |-> {},
                sending |-> NULL, deferred |-> NULL]
      /\ dtls = "new" /\ sctp = "none" /\ timers = {} /\ queue = "running" /\ inbox = {}
      /\ cb = [step |-> "none", data |-> FALSE]
      /\ tm = [step |-> "idle", socket |-> NULL]
      /\ app = [step |-> "gather", next |-> "closed", batch |-> {}, socket |-> NULL]
      /\ steps = [packets |-> 0, restarts |-> 0]
  BY DEF Init
<1>8. PeerType
  BY <1>7, PeerAssumption DEF PeerType, IceRec, IceStates, CbRec, CbSteps, TmRec, TmSteps, AppRec, AppSteps, Timers
<1>9. TypeOK
  BY <1>4, <1>5, <1>6, <1>8, TypeParts
<1>10. Batch = {} /\ Listed = {}
  BY <1>1, <1>5, SlotAssumption DEF Batch, Listed, NoSockets
<1>11. ListInv
  BY <1>1, <1>5, <1>10 DEF ListInv, NoSockets
<1>12. IceInv
  BY <1>7, SlotAssumption, PeerAssumption DEF IceInv, IceSteps, TmWaits
<1>13. AppInv
  BY <1>1, <1>7, <1>10 DEF AppInv, ExecutorOver, AppWaits, Unlisted, Working
<1>14. OwnerInv
  BY <1>1, <1>7 DEF OwnerInv, Open, Claimed
<1> QED BY <1>9, <1>11, <1>12, <1>13, <1>14 DEF PeerInv

LEMMA PeerStep == PeerInv /\ [Next]_vars => PeerInv'
<1> SUFFICES ASSUME PeerInv, [Next]_vars PROVE PeerInv'
  OBVIOUS
<1>1. CASE Receive
  BY <1>1, ReceiveStep
<1>2. CASE Timer
  <2>1. CASE DeferredOldPairCleanup
    BY <2>1, TimerUntouched, TimerFrees
  <2> QED BY <1>2, <2>1, TimerUntouched, TimerFrees DEF Timer
<1>3. CASE AppContinues
  BY <1>3, AppSteps1, AppFrees, AppHands, ShutdownStep, FreeListenerStep DEF AppContinues
<1>4. CASE AppCalls
  BY <1>4, AppSteps1, AppHands, GatherStep DEF AppCalls
<1>5. CASE (\E s \in Sockets : Arrive(s)) \/ UNCHANGED vars
  BY <1>5, ArriveStep
<1> QED BY <1>1, <1>2, <1>3, <1>4, <1>5 DEF Next

LEMMA PeerInvariant == Spec => []PeerInv
BY PeerInit, PeerStep, PTL DEF Spec

\* Types, and that socketCount counts the slots in use: for every number of
\* sockets and slots, connectionListenerAddConnection refuses a socket only
\* when the list is full, however removals by owners and by the receive thread
\* interleave.
THEOREM TypeCorrect == Spec => []TypeOK
<1>1. PeerInv => TypeOK
  BY DEF PeerInv
<1> QED BY <1>1, PeerInvariant, PTL

\* No thread touches a socket, a DTLS or an SCTP session after another one has
\* freed it, and when freePeerConnection returns the threads are gone and every
\* socket has been freed: the waits for inUse, for the executor and for the
\* listener thread are enough, and each socket has one who frees it, through
\* restarts, deferred clean-ups and shutdowns of any number of sockets.
THEOREM FreedLeftAlone == Spec => []FreedIsLeftAlone
<1>1. ASSUME PeerInv PROVE FreedIsLeftAlone
  <2>0. TypeOK /\ ListInv /\ IceInv /\ AppInv /\ OwnerInv
    BY <1>1 DEF PeerInv
  <2>1. HeldAreLive
    BY <2>0 DEF HeldAreLive, ListInv
  <2>2. TimersTouchLive
    BY <2>0 DEF TimersTouchLive, AppInv
  <2>3. ASSUME app.step = "done"
        PROVE  rx.pc \in {"off", "done"} /\ tm.step = "gone" /\ \A s \in Sockets : ~Open(s)
    <3>1. rx.pc \in {"off", "done"} /\ tm.step = "gone" /\ app.batch = {} /\ app.socket = NULL
      BY <2>0, <2>3 DEF AppInv, ExecutorOver, AppWaits
    <3>2. Owned = {NULL}
      BY <2>3, <3>1 DEF Owned
    <3> QED BY <2>0, <3>1, <3>2, SlotAssumption DEF OwnerInv
  <2> QED BY <2>1, <2>2, <2>3 DEF FreedIsLeftAlone, ThreadsTouchLive, NothingRunsAfterFree
<1> QED BY <1>1, PeerInvariant, PTL
=============================================================================
