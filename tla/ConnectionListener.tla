-------------------------- MODULE ConnectionListener --------------------------
(***************************************************************************)
(* The connection listener (src/source/Ice/ConnectionListener.c) and the   *)
(* part of a socket connection it shares with the threads that own the     *)
(* socket (src/source/Ice/SocketConnection.c).  One receive thread serves  *)
(* every socket of an ICE agent.  Under the lock of the listener it        *)
(* gathers the open sockets and marks each one inUse; without the lock it  *)
(* polls, reads what arrived, calls the owner back and clears inUse.  An   *)
(* owner takes a socket off the list under the lock and frees it once      *)
(* inUse is clear.                                                         *)
(*                                                                         *)
(* No one waits for anything while it holds the lock of the listener, or   *)
(* that of a socket: every critical section is one step.  The network and  *)
(* the callback belong to the module that extends this one.                *)
(***************************************************************************)
EXTENDS Naturals, FiniteSets

CONSTANTS
  Sockets,    \* the socket connections that can be made
  NULL,       \* an empty slot
  CONNECTION_LISTENER_DEFAULT_MAX_LISTENING_CONNECTION

ASSUME SlotAssumption ==
  /\ CONNECTION_LISTENER_DEFAULT_MAX_LISTENING_CONNECTION \in Nat \ {0}
  /\ NULL \notin Sockets

VARIABLES
  socket,     \* the socket connections: memory, connectionClosed, inUse
  slots,      \* ConnectionListener.sockets
  socketCount,
  terminate,
  rx          \* the receive thread and its local variables

listenerVars == <<socket, slots, socketCount, terminate, rx>>

Slots == 1 .. CONNECTION_LISTENER_DEFAULT_MAX_LISTENING_CONNECTION

NoSockets == [i \in Slots |-> NULL]

RxSteps == {"off", "loop", "poll", "scan", "recv", "callback", "done"}

\* Types, and socketCount counts the slots in use, however often a socket is
\* dropped: a list with room refuses no socket and a full one always does
ListenerTypeOK ==
  /\ socket \in [Sockets -> [memory : {"none", "open", "freed"},
                             connectionClosed : BOOLEAN, inUse : BOOLEAN]]
  /\ slots \in [Slots -> Sockets \cup {NULL}]
  /\ socketCount = Cardinality({i \in Slots : slots[i] # NULL})
  /\ terminate \in BOOLEAN
  /\ rx \in [pc : RxSteps, held : [Slots -> Sockets \cup {NULL}], ready : SUBSET Sockets]

ListenerInit ==
  /\ socket = [s \in Sockets |-> [memory |-> "none",
                                  connectionClosed |-> FALSE, inUse |-> FALSE]]
  /\ slots = NoSockets
  /\ socketCount = 0
  /\ terminate = FALSE
  /\ rx = [pc |-> "off", held |-> NoSockets, ready |-> {}]

Open(s) == socket[s].memory = "open"

\* The sockets gathered for this round and not yet released
Batch == {s \in Sockets : \E i \in Slots : rx.held[i] = s}

Listed == {s \in Sockets : \E i \in Slots : slots[i] = s}

-----------------------------------------------------------------------------
(* What the owners of sockets call.                                        *)

\* createSocketConnection and connectionListenerAddConnection: a full list,
\* or one that is being torn down, leaves the socket without a listener
AddConnection(s) ==
  /\ socket[s].memory = "none"
  /\ socket' = [socket EXCEPT ![s].memory = "open"]
  /\ IF ~terminate /\ socketCount < CONNECTION_LISTENER_DEFAULT_MAX_LISTENING_CONNECTION
       THEN \E i \in Slots :
              /\ slots[i] = NULL /\ \A j \in 1 .. i - 1 : slots[j] # NULL
              /\ slots' = [slots EXCEPT ![i] = s]
              /\ socketCount' = socketCount + 1
       ELSE UNCHANGED <<slots, socketCount>>

\* mutant: the count drops also for a socket the receive thread has dropped
RemoveConnectionMiscounted(s) ==
  /\ socket' = [socket EXCEPT ![s].connectionClosed = TRUE]
  /\ slots' = [i \in Slots |-> IF slots[i] = s THEN NULL ELSE slots[i]]
  /\ socketCount' = IF socketCount = 0 THEN 0 ELSE socketCount - 1

RemoveConnection(s) ==
  /\ IF terminate
       THEN UNCHANGED <<socket, slots, socketCount>>
       ELSE /\ socket' = [socket EXCEPT ![s].connectionClosed = TRUE]
            /\ slots' = [i \in Slots |-> IF slots[i] = s THEN NULL ELSE slots[i]]
            /\ socketCount' = IF s \in Listed THEN socketCount - 1
                                              ELSE socketCount

RemoveAllConnection ==
  /\ IF terminate
       THEN UNCHANGED <<socket, slots, socketCount>>
       ELSE /\ socket' = [s \in Sockets |->
                 IF s \in Listed THEN [socket[s] EXCEPT !.connectionClosed = TRUE]
                                 ELSE socket[s]]
            /\ slots' = NoSockets
            /\ socketCount' = 0

\* connectionListenerStart
ListenerStart ==
  rx' = IF ~terminate /\ rx.pc = "off" THEN [rx EXCEPT !.pc = "loop"] ELSE rx

\* socketConnectionClosed on each of S
CloseSockets(S) ==
  socket' = [s \in Sockets |-> IF s \in S
               THEN [socket[s] EXCEPT !.connectionClosed = TRUE] ELSE socket[s]]

\* The end of freeSocketConnection: the store of connectionClosed, which no
\* one can undo, and the wait for inUse are taken together
Released(s) ==
  /\ Open(s) /\ ~socket[s].inUse
  /\ socket' = [socket EXCEPT ![s].memory = "freed", ![s].connectionClosed = TRUE]

-----------------------------------------------------------------------------
(* connectionListenerReceiveDataRoutine                                    *)

\* The sockets of the list that are open, in the slots they come from: the
\* local array of the thread has no gaps, but keeps their order
Gathered ==
  [i \in Slots |-> IF slots[i] # NULL /\ ~socket[slots[i]].connectionClosed
                     THEN slots[i] ELSE NULL]

\* mutant: the sockets are polled without being marked
GatherUnmarked ==
  /\ rx.pc = "loop" /\ ~terminate
  /\ rx' = [rx EXCEPT !.pc = "poll", !.held = Gathered]
  /\ slots' = Gathered
  /\ socketCount' = socketCount - Cardinality({i \in Slots : slots[i] # Gathered[i]})
  /\ UNCHANGED <<socket, terminate>>

\* Under the lock: an open socket is kept for this round and marked as in
\* use, a closed one is dropped from the list
GatherSockets ==
  /\ rx.pc = "loop" /\ ~terminate
  /\ rx' = [rx EXCEPT !.pc = "poll", !.held = Gathered]
  /\ socket' = [s \in Sockets |-> IF \E i \in Slots : Gathered[i] = s
                  THEN [socket[s] EXCEPT !.inUse = TRUE] ELSE socket[s]]
  /\ slots' = Gathered
  /\ socketCount' = socketCount - Cardinality({i \in Slots : slots[i] # Gathered[i]})
  /\ UNCHANGED terminate

\* The loop ends
ReceiveEnds ==
  /\ rx.pc = "loop" /\ terminate
  /\ rx' = [rx EXCEPT !.pc = "done"]
  /\ UNCHANGED <<socket, slots, socketCount, terminate>>

\* mutant: what was polled in vain stays marked
PollIdleKept ==
  /\ rx.pc = "poll"
  /\ rx' = [rx EXCEPT !.pc = "loop", !.held = NoSockets]
  /\ UNCHANGED <<socket, slots, socketCount, terminate>>

\* The poll timed out or failed, or there was nothing to poll: every mark is
\* cleared
PollIdle ==
  /\ rx.pc = "poll"
  /\ socket' = [s \in Sockets |-> IF s \in Batch
                  THEN [socket[s] EXCEPT !.inUse = FALSE] ELSE socket[s]]
  /\ rx' = [rx EXCEPT !.pc = "loop", !.held = NoSockets]
  /\ UNCHANGED <<slots, socketCount, terminate>>

\* The poll returned: sockets have data, or the kick socket of
\* freeConnectionListener has
PollData(readable) ==
  /\ rx.pc = "poll" /\ Batch # {}
  /\ \/ readable \cap Batch # {}
     \/ terminate
  /\ rx' = [rx EXCEPT !.pc = "scan", !.ready = readable \cap Batch]
  /\ UNCHANGED <<socket, slots, socketCount, terminate>>

\* The first socket of the batch that is left ...
Turn == CHOOSE i \in Slots : rx.held[i] # NULL /\ \A j \in 1 .. i - 1 : rx.held[j] = NULL

Current == rx.held[Turn]

\* ... is done with
NextHeld == [rx EXCEPT !.pc = "scan", !.held[Turn] = NULL]

Unmarked(s) == [socket EXCEPT ![s].inUse = FALSE]

\* The next socket of the batch: skipped when it has been closed meanwhile or
\* has no data, and released at once
ScanSocket ==
  /\ rx.pc = "scan"
  /\ IF Batch = {}
       THEN rx' = [rx EXCEPT !.pc = "loop", !.ready = {}] /\ UNCHANGED socket
       ELSE IF socket[Current].connectionClosed \/ Current \notin rx.ready
              THEN rx' = NextHeld /\ socket' = Unmarked(Current)
              ELSE rx' = [rx EXCEPT !.pc = "recv"] /\ UNCHANGED socket
  /\ UNCHANGED <<slots, socketCount, terminate>>

\* recvfrom finds nothing more
RecvNothing(readable) ==
  /\ rx.pc = "recv" /\ Current \notin readable
  /\ rx' = NextHeld
  /\ socket' = Unmarked(Current)
  /\ UNCHANGED <<slots, socketCount, terminate>>

\* recvfrom fails, or the peer closed a stream: the socket is closed
RecvFails ==
  /\ rx.pc = "recv"
  /\ rx' = NextHeld
  /\ socket' = [Unmarked(Current) EXCEPT ![Current].connectionClosed = TRUE]
  /\ UNCHANGED <<slots, socketCount, terminate>>

\* A packet: dataAvailableCallbackFn is called
RecvPacket(readable) ==
  /\ rx.pc = "recv" /\ Current \in readable
  /\ rx' = [rx EXCEPT !.pc = "callback"]
  /\ UNCHANGED <<socket, slots, socketCount, terminate>>

\* ... and returns
CallbackReturns ==
  /\ rx.pc = "callback"
  /\ rx' = [rx EXCEPT !.pc = "recv"]
  /\ UNCHANGED <<socket, slots, socketCount, terminate>>

-----------------------------------------------------------------------------
(* What the owners rely on                                                 *)

\* The receive thread never comes back to a socket whose memory is gone: the
\* socket was taken off the list under the lock, and the marks of the batch in
\* hand hold back freeSocketConnection until the last look at it
HeldAreLive == \A s \in Batch \cup (IF rx.pc = "done" THEN {} ELSE Listed) : Open(s)
===============================================================================
