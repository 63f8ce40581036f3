---------------------------- MODULE PeerConnection ----------------------------
(***************************************************************************)
(* A peer connection from the first socket to freePeerConnection           *)
(* (src/source/PeerConnection/PeerConnection.c), composed with the         *)
(* connection listener of its ICE agent: which thread may touch what, and  *)
(* how the teardown waits for the two threads of the library.              *)
(*                                                                         *)
(*   receive thread  rx, cb: gathers, polls, and calls back into           *)
(*                   incomingDataHandler and onInboundPacket               *)
(*   timer thread    tm: timerQueueExecutor holds executorLock unless idle *)
(*                   and runs the timers of ICE, DTLS and SCTP             *)
(*   application     app: gathering, restartIce, closePeerConnection,      *)
(*                   freePeerConnection                                    *)
(*                                                                         *)
(* Locks that no thread keeps while it waits for another are the atomicity *)
(* of the steps.  Two are kept: executorLock, for the whole of a timer     *)
(* callback, and the lock of the ICE agent, by the state machine of the    *)
(* timer thread.  ICE itself is the module IceAgent; here it is a walk     *)
(* through the states in which sockets change hands: a pair is selected on *)
(* the way to CONNECTED, READY starts DTLS and frees unused relays.  The   *)
(* connectionState told to the application is left out.                    *)
(***************************************************************************)
EXTENDS ConnectionListener

CONSTANTS
  Relays,       \* the sockets that belong to TURN connections
  First,        \* the sockets of the first gathering; a restart takes the others
  BusyFrees,    \* may the timer thread come to free a socket under traffic?
  MaxPackets, MaxRestarts

ASSUME PeerAssumption ==
  /\ Relays \subseteq Sockets /\ First \subseteq Sockets
  /\ BusyFrees \in BOOLEAN
  /\ MaxPackets \in Nat /\ MaxRestarts \in Nat

VARIABLES
  pc,       \* the flags of KvsPeerConnection
  ice,      \* the part of IceAgent that decides who frees which socket
  dtls,     \* pDtlsSession
  sctp,     \* pSctpSession
  timers,   \* the timers in the queue
  queue,    \* "running", "shutdown"
  inbox,    \* the sockets the kernel holds a packet for
  cb,       \* the receive thread inside dataAvailableCallbackFn
  tm,       \* the timer thread
  app,      \* the application thread
  steps     \* what the bounds count

peerVars == <<pc, ice, dtls, sctp, timers, queue, cb, tm, app>>
vars == <<listenerVars, peerVars, inbox, steps>>

Timers == {"ice", "dtls", "sctp"}

IceStates == {"NEW", "CONNECTED", "READY"}

CbSteps == {"none", "ice", "inbound", "dtls", "session", "alloc", "addTimer",
            "put", "putLocked", "relock"}

TmSteps == {"idle", "ice", "readyWait", "notify", "cleanup",
            "cleanupWait", "tick", "ticking", "dtls", "gone"}

AppSteps == {"gather", "up", "restart", "restartFree", "restartWait", "closed",
             "shutdown", "closeSockets", "removeAll", "cancelSctp",
             "queueShutdown", "queueWait", "freeSctp", "freeDtls", "freeTurn",
             "turnWait", "join", "freeHosts", "done"}

TypeOK ==
  /\ ListenerTypeOK
  /\ pc \in [receiveEnabled : BOOLEAN, sctpIsEnabled : BOOLEAN]
  /\ ice \in [state : IceStates, shutdown : BOOLEAN, restart : BOOLEAN,
              locals : SUBSET Sockets, sending : Sockets \cup {NULL},
              deferred : Sockets \cup {NULL}]
  /\ dtls \in {"new", "started", "finished", "freed"}
  /\ sctp \in {"none", "open", "freed"}
  /\ timers \subseteq Timers /\ queue \in {"running", "shutdown"}
  /\ inbox \subseteq Sockets
  /\ cb \in [step : CbSteps, data : BOOLEAN]
  /\ tm \in [step : TmSteps, socket : Sockets \cup {NULL}]
  /\ app \in [step : AppSteps, next : {"closed", "cancelSctp"}, batch : SUBSET Sockets,
              socket : Sockets \cup {NULL}]
  /\ steps \in [packets : 0 .. MaxPackets, restarts : 0 .. MaxRestarts]

\* createPeerConnection
Init ==
  /\ ListenerInit
  /\ pc = [receiveEnabled |-> TRUE, sctpIsEnabled |-> TRUE]
  /\ ice = [state |-> "NEW", shutdown |-> FALSE, restart |-> FALSE, locals |-> {},
            sending |-> NULL, deferred |-> NULL]
  /\ dtls = "new"
  /\ sctp = "none"
  /\ timers = {} /\ queue = "running"
  /\ inbox = {}
  /\ cb = [step |-> "none", data |-> FALSE]
  /\ tm = [step |-> "idle", socket |-> NULL]
  /\ app = [step |-> "gather", next |-> "closed", batch |-> {}, socket |-> NULL]
  /\ steps = [packets |-> 0, restarts |-> 0]

-----------------------------------------------------------------------------
\* executorLock: the timer queue calls back "while locked"
ExecutorFree == tm.step \in {"idle", "gone"}

\* The lock of the ICE agent: stepIceAgentStateMachine keeps it over the whole
\* step, so executeReady still has it when it has unlocked its own acquisition
IceLockFree == tm.step # "readyWait"

\* The network: nothing reaches a socket that is closed
Arrive(s) ==
  /\ steps.packets < MaxPackets
  /\ Open(s) /\ s \notin inbox
  /\ inbox' = inbox \cup {s}
  /\ steps' = [steps EXCEPT !.packets = @ + 1]
  /\ UNCHANGED <<listenerVars, peerVars>>

\* No packet is being handled, and none will come
Quiet == steps.packets = MaxPackets /\ inbox = {} /\ rx.pc # "callback"

-----------------------------------------------------------------------------
(* The receive thread inside the callback of a socket                      *)

cbOnly == <<slots, socketCount, socket, terminate, rx, ice, timers, queue, inbox, tm, app, steps>>

CbAt(step) == rx.pc = "callback" /\ cb.step = step

CbTo(step) == cb' = [cb EXCEPT !.step = step]

\* recvfrom returned a packet
CbEnter ==
  /\ RecvPacket(inbox)
  /\ CbTo("ice")
  /\ inbox' = inbox \ {Current}
  /\ UNCHANGED <<pc, ice, dtls, sctp, timers, queue, tm, app, steps>>

\* incomingDataHandler: a STUN packet is handled under the lock of the agent,
\* which is given up for any other packet.  Media goes the way of STUN here
IncomingDataHandler ==
  /\ CbAt("ice") /\ IceLockFree
  /\ CbTo("relock") \/ CbTo("inbound")
  /\ UNCHANGED <<cbOnly, pc, dtls, sctp>>

\* ... and taken again; the callback returns
Relock ==
  /\ CbAt("relock") /\ IceLockFree
  /\ CallbackReturns
  /\ CbTo("none")
  /\ UNCHANGED <<pc, ice, dtls, sctp, timers, queue, inbox, tm, app, steps>>

OnInboundPacket ==
  /\ CbAt("inbound")
  /\ CbTo(IF pc.receiveEnabled THEN "dtls" ELSE "relock")
  /\ UNCHANGED <<cbOnly, pc, dtls, sctp>>

\* dtlsSessionProcessPacket and dtlsSessionIsInitFinished.  Before
\* dtlsSessionStart the packet is refused; after it, it moves the handshake
\* on and is answered through the agent, ends the handshake, or carries data
ProcessPacket ==
  /\ CbAt("dtls")
  /\ \/ /\ dtls \in {"new", "freed"}
        /\ CbTo("relock") /\ UNCHANGED dtls
     \/ /\ dtls = "started" /\ IceLockFree
        /\ \/ CbTo("relock") /\ UNCHANGED dtls
           \/ /\ dtls' = "finished"
              /\ cb' = [cb EXCEPT !.step = "session", !.data = FALSE]
     \/ /\ dtls = "finished"
        /\ cb' = [cb EXCEPT !.step = "session", !.data = TRUE]
        /\ UNCHANGED dtls
  /\ UNCHANGED <<cbOnly, pc, sctp>>

\* allocateSrtp, and the tests of sctpIsEnabled and of pSctpSession, which
\* freeSctpSession leaves NULL
SctpSession ==
  /\ CbAt("session")
  /\ CbTo(IF ~pc.sctpIsEnabled THEN "relock"
          ELSE IF sctp # "open" THEN "alloc" ELSE IF cb.data THEN "put" ELSE "relock")
  /\ UNCHANGED <<cbOnly, pc, dtls, sctp>>

\* allocateSctp up to createSctpSession, which sends an INIT
AllocateSctp ==
  /\ CbAt("alloc") /\ IceLockFree
  /\ sctp' = "open"
  /\ CbTo("addTimer")
  /\ UNCHANGED <<cbOnly, pc, dtls>>

\* timerQueueAddTimer, and the data channels are opened; a queue that is shut
\* down ends allocateSctp and with it onInboundPacket
AllocateSctpTimer ==
  /\ CbAt("addTimer")
  /\ IF queue = "shutdown"
       THEN CbTo("relock") /\ UNCHANGED timers
       ELSE /\ ExecutorFree
            /\ timers' = timers \cup {"sctp"}
            /\ CbTo(IF cb.data THEN "put" ELSE "relock")
  /\ UNCHANGED <<listenerVars, pc, ice, dtls, sctp, queue, inbox, tm, app, steps>>

\* putSctpPacket: the lock of the session
PutSctpPacket ==
  /\ CbAt("put")
  /\ CbTo(IF sctp = "open" THEN "putLocked" ELSE "relock")
  /\ UNCHANGED <<cbOnly, pc, dtls, sctp>>

\* ... the association answers through DTLS and the agent, and the messages
\* are handed to the application
PutSctpPacketEnds ==
  /\ CbAt("putLocked") /\ IceLockFree
  /\ CbTo("relock")
  /\ UNCHANGED <<cbOnly, pc, dtls, sctp>>

Callback ==
  \/ CbEnter \/ IncomingDataHandler \/ Relock \/ OnInboundPacket
  \/ ProcessPacket \/ SctpSession
  \/ AllocateSctp \/ AllocateSctpTimer \/ PutSctpPacket \/ PutSctpPacketEnds

Listener ==
  /\ \/ GatherSockets \/ ReceiveEnds \/ PollIdle
     \/ PollData(inbox) \/ ScanSocket \/ RecvNothing(inbox) \/ RecvFails
  /\ UNCHANGED <<peerVars, inbox, steps>>

Receive == Listener \/ Callback

-----------------------------------------------------------------------------
(* The timer thread: timerQueueExecutor and the callbacks it runs          *)

TmTo(step) == tm' = [tm EXCEPT !.step = step]

tmOnly == <<slots, socketCount, socket, terminate, rx, queue, inbox, cb, app>>

\* A timer that is due
TimerFires ==
  /\ tm.step = "idle" /\ queue = "running"
  /\ \E t \in timers : TmTo(CASE t = "ice" -> "ice" [] t = "dtls" -> "dtls" [] OTHER -> "tick")
  /\ UNCHANGED <<tmOnly, pc, ice, dtls, sctp, timers, steps>>

\* timerQueueExecutor sees shutdown
TimerQueueExecutorEnds ==
  /\ tm.step = "idle" /\ queue = "shutdown"
  /\ TmTo("gone")
  /\ UNCHANGED <<tmOnly, pc, ice, dtls, sctp, timers, steps>>

\* iceAgentConnectedStateSetup: a pair that is still in use from before a
\* restart is left to the end of the callback
ConnectedStateSetup(local) ==
  [ice EXCEPT !.state = "CONNECTED", !.sending = local,
              !.deferred = IF ice.sending = NULL THEN @ ELSE ice.sending,
              !.restart = @ /\ ice.sending = NULL]

\* stepIceAgentStateMachine: a pair has been found, here one of a host
\* candidate ...
IceConnected(local) ==
  /\ tm.step = "ice" /\ ice.state = "NEW"
  /\ local \in ice.locals \ Relays
  /\ ice.sending = NULL \/ BusyFrees \/ Quiet
  /\ ice' = ConnectedStateSetup(local)
  /\ UNCHANGED <<tmOnly, tm, pc, dtls, sctp, timers, steps>>

\* ... or nominated, and the peer connection is told once the lock is released
IceReady ==
  /\ tm.step = "ice" /\ ice.state = "CONNECTED"
  /\ ice' = [ice EXCEPT !.state = "READY"]
  /\ TmTo("notify")
  /\ UNCHANGED <<tmOnly, pc, dtls, sctp, timers, steps>>

\* ... or the state stays what it is
IceStateStays ==
  /\ tm.step = "ice"
  /\ TmTo("cleanup")
  /\ UNCHANGED <<tmOnly, pc, ice, dtls, sctp, timers, steps>>

\* executeReady finds that the TURN connection of a relay it does not send from
\* is shut down, and takes its socket off the listener
ReadyFreesTurn(s) ==
  /\ tm.step = "ice" /\ ice.state = "READY"
  /\ s \in ice.locals \cap Relays
  /\ BusyFrees \/ Quiet
  /\ RemoveConnection(s)
  /\ tm' = [tm EXCEPT !.step = "readyWait", !.socket = s]
  /\ UNCHANGED <<terminate, rx, queue, inbox, cb, app, pc, ice, dtls, sctp, timers, steps>>

\* ... and waits for the receive thread to be done with it
ReadyFreedTurn ==
  /\ tm.step = "readyWait"
  /\ Released(tm.socket)
  /\ ice' = [ice EXCEPT !.locals = @ \ {tm.socket}]
  /\ tm' = [tm EXCEPT !.step = "ice", !.socket = NULL]
  /\ UNCHANGED <<slots, socketCount, terminate, rx, queue, inbox, cb, app, pc, dtls, sctp,
                 timers, steps>>

\* onIceConnectionStateChange of READY starts DTLS, unless an earlier session
\* has ended its handshake; and the machine is stepped again
OnIceConnectionStateChange ==
  /\ tm.step = "notify"
  /\ IF dtls # "finished"
       THEN dtls' = "started" /\ timers' = timers \cup {"dtls"}
       ELSE UNCHANGED <<dtls, timers>>
  /\ TmTo("ice")
  /\ UNCHANGED <<tmOnly, pc, ice, sctp, steps>>

\* The end of iceAgentStateTransitionTimerCallback, with the lock released:
\* the pair of the session before the restart
DeferredOldPairCleanup ==
  /\ tm.step = "cleanup"
  /\ IF ice.deferred = NULL
       THEN TmTo("idle") /\ UNCHANGED <<ice, socket, slots, socketCount>>
       ELSE /\ RemoveConnection(ice.deferred)
            /\ tm' = [tm EXCEPT !.step = "cleanupWait", !.socket = ice.deferred]
            /\ ice' = [ice EXCEPT !.deferred = NULL]
  /\ UNCHANGED <<terminate, rx, queue, inbox, cb, app, pc, dtls, sctp, timers, steps>>

DeferredOldPairFreed ==
  /\ tm.step = "cleanupWait"
  /\ Released(tm.socket)
  /\ tm' = [tm EXCEPT !.step = "idle", !.socket = NULL]
  /\ UNCHANGED <<slots, socketCount, terminate, rx, queue, inbox, cb, app, pc, ice, dtls,
                 sctp, timers, steps>>

\* sctpTimerCallback: the test of pSctpSession ...
SctpTimerCallback ==
  /\ tm.step = "tick"
  /\ IF sctp = "open" THEN TmTo("ticking") /\ UNCHANGED timers
                      ELSE TmTo("idle") /\ timers' = timers \ {"sctp"}
  /\ UNCHANGED <<tmOnly, pc, ice, dtls, sctp, steps>>

\* ... and sctpSessionTickTimers, which sends through the agent
SctpSessionTickTimers ==
  /\ tm.step = "ticking"
  /\ TmTo("idle")
  /\ UNCHANGED <<tmOnly, pc, ice, dtls, sctp, timers, steps>>

\* dtlsTransmissionTimerCallback: it stops when the handshake is over, or
\* has timed out too many times
DtlsTransmissionTimerCallback ==
  /\ tm.step = "dtls"
  /\ \/ timers' = timers \ {"dtls"}
     \/ dtls # "finished" /\ UNCHANGED timers
  /\ TmTo("idle")
  /\ UNCHANGED <<tmOnly, pc, ice, dtls, sctp, steps>>

Timer ==
  \/ TimerFires \/ TimerQueueExecutorEnds
  \/ (\E s \in Sockets : IceConnected(s)) \/ IceReady \/ IceStateStays
  \/ (\E s \in Relays : ReadyFreesTurn(s)) \/ ReadyFreedTurn
  \/ OnIceConnectionStateChange
  \/ DeferredOldPairCleanup \/ DeferredOldPairFreed
  \/ SctpTimerCallback \/ SctpSessionTickTimers \/ DtlsTransmissionTimerCallback

-----------------------------------------------------------------------------
(* The application thread                                                  *)

AppAt(step) == app.step = step

AppTo(step) == app' = [app EXCEPT !.step = step]

appOnly == <<inbox, cb, tm, steps>>

\* A candidate is gathered: a host candidate or the control channel of TURN
Gather(s) ==
  /\ AppAt("gather")
  /\ s \in (IF steps.restarts = 0 THEN First ELSE Sockets \ First)
  /\ AddConnection(s)
  /\ ice' = [ice EXCEPT !.locals = @ \cup {s}]
  /\ UNCHANGED <<appOnly, terminate, rx, pc, dtls, sctp, timers, queue, app>>

\* connectionListenerStart and iceAgentStartAgent
StartAgent ==
  /\ AppAt("gather") /\ ice.locals # {} /\ ExecutorFree
  /\ ListenerStart
  /\ timers' = timers \cup {"ice"}
  /\ AppTo("up")
  /\ UNCHANGED <<appOnly, socket, slots, socketCount, terminate, pc, ice, dtls, sctp, queue>>

\* restartIce and iceAgentRestart up to the cancelled timers; a restart that
\* is under way is left to go on
RestartIce ==
  /\ AppAt("up") /\ steps.restarts < MaxRestarts
  /\ ~ice.shutdown /\ ~ice.restart
  /\ ice' = [ice EXCEPT !.restart = TRUE]
  /\ steps' = [steps EXCEPT !.restarts = @ + 1]
  /\ AppTo("restart")
  /\ UNCHANGED <<listenerVars, inbox, cb, tm, pc, dtls, sctp, timers, queue>>

\* The timer is cancelled, and under the lock the candidates are set aside
RestartTakesCandidates ==
  /\ AppAt("restart") /\ ExecutorFree
  /\ timers' = timers \ {"ice"}
  /\ app' = [app EXCEPT !.step = "restartFree", !.batch = ice.locals \ {ice.sending}]
  /\ ice' = [ice EXCEPT !.locals = {}]
  /\ UNCHANGED <<appOnly, listenerVars, pc, dtls, sctp, queue>>

\* They are freed without the lock, one by one ...
RestartFrees(s) ==
  /\ AppAt("restartFree") /\ s \in app.batch
  /\ RemoveConnection(s)
  /\ app' = [app EXCEPT !.step = "restartWait", !.socket = s, !.batch = @ \ {s}]
  /\ UNCHANGED <<appOnly, terminate, rx, pc, ice, dtls, sctp, timers, queue>>

RestartFreed ==
  /\ AppAt("restartWait")
  /\ Released(app.socket)
  /\ app' = [app EXCEPT !.step = "restartFree", !.socket = NULL]
  /\ UNCHANGED <<appOnly, slots, socketCount, terminate, rx, pc, ice, dtls, sctp, timers, queue>>

\* ... and the agent is new again
RestartEnds ==
  /\ AppAt("restartFree") /\ app.batch = {}
  /\ ice' = [ice EXCEPT !.state = "NEW"]
  /\ AppTo("gather")
  /\ UNCHANGED <<appOnly, listenerVars, pc, dtls, sctp, timers, queue>>

\* closePeerConnection up to dtlsSessionShutdown, whose alert leaves through
\* the agent
ClosePeerConnection ==
  /\ AppAt("up") /\ IceLockFree
  /\ app' = [app EXCEPT !.step = "shutdown", !.next = "closed"]
  /\ UNCHANGED <<appOnly, listenerVars, pc, ice, dtls, sctp, timers, queue>>

\* freePeerConnection up to the flags
FreePeerConnection ==
  /\ app.step \in {"gather", "up", "closed"}
  /\ pc' = [pc EXCEPT !.receiveEnabled = FALSE, !.sctpIsEnabled = FALSE]
  /\ app' = [app EXCEPT !.step = "shutdown", !.next = "cancelSctp"]
  /\ UNCHANGED <<appOnly, listenerVars, ice, dtls, sctp, timers, queue>>

\* iceAgentShutdown: only the first call does something.  The timers are
\* cancelled
IceAgentShutdown ==
  /\ AppAt("shutdown")
  /\ IF ice.shutdown
       THEN AppTo(app.next) /\ UNCHANGED <<ice, timers>>
       ELSE /\ IceLockFree /\ ExecutorFree
            /\ ice' = [ice EXCEPT !.shutdown = TRUE]
            /\ timers' = timers \ {"ice"}
            /\ AppTo("closeSockets")
  /\ UNCHANGED <<appOnly, listenerVars, pc, dtls, sctp, queue>>

\* Under the lock host sockets are closed; TURN is asked to free its allocation
ShutdownClosesSockets ==
  /\ AppAt("closeSockets") /\ IceLockFree
  /\ CloseSockets(ice.locals \ Relays)
  /\ AppTo("removeAll")
  /\ UNCHANGED <<appOnly, slots, socketCount, terminate, rx, pc, ice, dtls, sctp, timers, queue>>

ShutdownRemovesAll ==
  /\ AppAt("removeAll")
  /\ RemoveAllConnection
  /\ AppTo(app.next)
  /\ UNCHANGED <<appOnly, terminate, rx, pc, ice, dtls, sctp, timers, queue>>

\* The timer of SCTP is cancelled
CancelSctpTimer ==
  /\ AppAt("cancelSctp") /\ ExecutorFree
  /\ timers' = timers \ {"sctp"}
  /\ AppTo("queueShutdown")
  /\ UNCHANGED <<appOnly, listenerVars, pc, ice, dtls, sctp, queue>>

\* timerQueueShutdown tells the executor to end ...
TimerQueueShutdown ==
  /\ AppAt("queueShutdown")
  /\ queue' = "shutdown"
  /\ AppTo("queueWait")
  /\ UNCHANGED <<appOnly, listenerVars, pc, ice, dtls, sctp, timers>>

\* ... and waits until it has
TimerQueueEnded ==
  /\ AppAt("queueWait") /\ tm.step = "gone"
  /\ AppTo("freeSctp")
  /\ UNCHANGED <<appOnly, listenerVars, pc, ice, dtls, sctp, timers, queue>>

\* freeSctpSession takes the lock of the session
FreeSctpSession ==
  /\ AppAt("freeSctp") /\ cb.step # "putLocked"
  /\ sctp' = IF sctp = "open" THEN "freed" ELSE sctp
  /\ AppTo("freeDtls")
  /\ UNCHANGED <<appOnly, listenerVars, pc, ice, dtls, timers, queue>>

\* freeSrtpSession and freeDtlsSession, which waits for the calls under way
FreeDtlsSession ==
  /\ AppAt("freeDtls")
  /\ dtls' = "freed"
  /\ app' = [app EXCEPT !.step = "freeTurn", !.batch = ice.locals \cap Relays]
  /\ UNCHANGED <<appOnly, listenerVars, pc, ice, sctp, timers, queue>>

\* freeIceAgent: the TURN connections ...
FreeTurnConnection(s) ==
  /\ AppAt("freeTurn") /\ s \in app.batch
  /\ RemoveConnection(s)
  /\ app' = [app EXCEPT !.step = "turnWait", !.socket = s, !.batch = @ \ {s}]
  /\ UNCHANGED <<appOnly, terminate, rx, pc, ice, dtls, sctp, timers, queue>>

TurnConnectionFreed ==
  /\ AppAt("turnWait")
  /\ Released(app.socket)
  /\ app' = [app EXCEPT !.step = "freeTurn", !.socket = NULL]
  /\ UNCHANGED <<appOnly, slots, socketCount, terminate, rx, pc, ice, dtls, sctp, timers, queue>>

\* ... the listener, which is told to end and joined ...
FreeConnectionListener ==
  /\ AppAt("freeTurn") /\ app.batch = {}
  /\ terminate' = TRUE
  /\ AppTo("join")
  /\ UNCHANGED <<appOnly, socket, slots, socketCount, rx, pc, ice, dtls, sctp, timers, queue>>

ListenerJoined ==
  /\ AppAt("join") /\ rx.pc \in {"off", "done"}
  /\ app' = [app EXCEPT !.step = "freeHosts",
       !.batch = (ice.locals \ Relays)
                 \cup ((IF ice.restart THEN {ice.sending, ice.deferred} ELSE {ice.deferred})
                       \ {NULL})]
  /\ UNCHANGED <<appOnly, listenerVars, pc, ice, dtls, sctp, timers, queue>>

\* ... and the sockets that are left: those of the host candidates, of a
\* session a restart has not replaced yet, and of one that waits to be freed
FreeHosts(s) ==
  /\ AppAt("freeHosts") /\ s \in app.batch
  /\ Released(s)
  /\ app' = [app EXCEPT !.batch = @ \ {s}]
  /\ UNCHANGED <<appOnly, slots, socketCount, terminate, rx, pc, ice, dtls, sctp, timers, queue>>

FreeIceAgentEnds ==
  /\ AppAt("freeHosts") /\ app.batch = {}
  /\ AppTo("done")
  /\ UNCHANGED <<appOnly, listenerVars, pc, ice, dtls, sctp, timers, queue>>

\* What an application thread goes through once it is in a call
AppContinues ==
  \/ RestartTakesCandidates \/ (\E s \in Sockets : RestartFrees(s))
  \/ RestartFreed \/ RestartEnds
  \/ IceAgentShutdown \/ ShutdownClosesSockets \/ ShutdownRemovesAll
  \/ CancelSctpTimer \/ TimerQueueShutdown \/ TimerQueueEnded \/ FreeSctpSession \/ FreeDtlsSession
  \/ (\E s \in Sockets : FreeTurnConnection(s)) \/ TurnConnectionFreed
  \/ FreeConnectionListener \/ ListenerJoined
  \/ (\E s \in Sockets : FreeHosts(s)) \/ FreeIceAgentEnds

\* The calls it may make
AppCalls ==
  \/ (\E s \in Sockets : Gather(s)) \/ StartAgent
  \/ RestartIce \/ ClosePeerConnection \/ FreePeerConnection

Next ==
  \/ Receive \/ Timer \/ AppContinues \/ AppCalls
  \/ \E s \in Sockets : Arrive(s)

Spec == Init /\ [][Next]_vars

-----------------------------------------------------------------------------
(* Threads that can run do run, and one that waits for a lock gets it: the *)
(* executor sleeps without executorLock between two periods of its timers, *)
(* and the receive thread polls without the lock of the listener.  The     *)
(* application is not made to call anything.                               *)
FairSpec ==
  /\ Spec
  /\ SF_vars(Receive) /\ WF_vars(Timer) /\ SF_vars(AppContinues)

-----------------------------------------------------------------------------
\* A timer callback of DTLS or SCTP works on a session that still exists:
\* freePeerConnection frees them after the executor has ended, while the
\* callback of SCTP tests pSctpSession and uses it in two steps
TimersTouchLive ==
  /\ tm.step = "ticking" => sctp = "open"
  /\ tm.step = "dtls" => dtls # "freed"

\* No thread comes back to an object that another one has freed meanwhile
ThreadsTouchLive == HeldAreLive /\ TimersTouchLive

\* When freePeerConnection returns no thread is left and no socket is open,
\* whatever restart, disconnection or deferred clean-up was under way
NothingRunsAfterFree ==
  app.step = "done" =>
    /\ rx.pc \in {"off", "done"} /\ tm.step = "gone"
    /\ \A s \in Sockets : ~Open(s)

\* What is freed is left alone, while the connection is taken down and after
FreedIsLeftAlone == ThreadsTouchLive /\ NothingRunsAfterFree

\* closePeerConnection and freePeerConnection come to their end: every lock,
\* mark, executor and thread they wait for is let go by someone who does not
\* wait for them
TeardownEnds == (app.step = "shutdown") ~> (app.step \in {"closed", "done"})

\* "The connection listener thread guarantees it will set inUse = FALSE within
\* one poll cycle after seeing connectionClosed = TRUE" (SocketConnection.c:93):
\* the timer thread's waits for it end
FreesEnd == (tm.step \in {"readyWait", "cleanupWait"}) ~> (tm.step = "idle")
===============================================================================
