----------------------------- MODULE Signaling -----------------------------
(***************************************************************************)
(* The signaling client: Signaling/StateMachine.c (what each state does     *)
(* next), Signaling/Signaling.c (the calls the application makes) and the   *)
(* threads of Signaling/LwsApiCalls.c.                                      *)
(*                                                                         *)
(* Threads.  The application runs one call at a time in each of Apps.  A    *)
(* call that drives the state machine does so in                            *)
(* signalingStateMachineIterator, which holds stateLock from its first turn *)
(* to its last.  connectSignalingChannelLws starts a LISTENER thread for    *)
(* every web socket; the listener holds listenerTracker.lock for its whole  *)
(* life and runs the web socket callbacks.  When an open socket closes, the *)
(* callback starts a RECONNECTER thread, which drives the state machine     *)
(* back to connected.  The atomics (result, connected, shutdown ...) are    *)
(* written by all of them without a common lock.                            *)
(*                                                                         *)
(* One turn of the iterator, the answer of one service call and one web     *)
(* socket callback are one action each.  Listeners and reconnecters are     *)
(* numbered in the order of their creation.                                 *)
(***************************************************************************)
EXTENDS Naturals, FiniteSets

CONSTANTS
    Apps,          \* threads of the application
    Recs,          \* identities of reconnecter threads
    NoOne,         \* the owner of a free lock
    MaxListeners,  \* bound: web sockets opened in a behaviour
    MaxCalls,      \* bound: calls made by the application
    MaxFaults,     \* bound: service calls that fail, sockets that fail or close
    Orders         \* orders of the service, a subset of {"GO_AWAY", "RECONNECT_ICE"}

ASSUME SignalingAssumption ==
    /\ MaxListeners \in Nat /\ MaxCalls \in Nat /\ MaxFaults \in Nat
    /\ NoOne \notin Apps \cup Recs /\ Apps \cap Recs = {}
    /\ Orders \subseteq {"GO_AWAY", "RECONNECT_ICE"}

Threads == Apps \cup Recs

Listeners == 1..MaxListeners

\* State of the machine

States == {"NEW", "GET_TOKEN", "DESCRIBE", "DESCRIBE_MEDIA", "CREATE", "GET_ENDPOINT",
           "GET_ICE_CONFIG", "READY", "CONNECT", "CONNECTED", "DISCONNECTED",
           "JOIN_SESSION", "JOIN_WAITING", "JOIN_CONNECTED", "DELETE", "DELETED"}

\* SERVICE_CALL_RESULT.  "SERVER" stands for internal errors and the timeouts, "UNKNOWN"
\* for every value the state machine does not name.
Results == {"NOT_SET", "OK", "NOT_FOUND", "NOT_AUTHORIZED", "BAD_REQUEST", "SERVER",
            "GO_AWAY", "RECONNECT_ICE", "UNKNOWN"}

VARIABLES
    storage,      \* the channel stores media (useMediaStorage and storageStatus)
    arn,          \* the application named the channel by its ARN
    st,           \* pStateMachine: the current state
    retries,      \* pStateMachine: turns spent in the current state
    result,       \* result of the last service call
    connected, shutdown, deleting, deleted, refreshIce, offer,   \* the atomics
    expired,      \* the AWS credentials are past their expiration
    iceOk,        \* an ICE configuration that has not expired is held
    cached,       \* the calls whose last answer may be reused (describeTime ...)
    stateLock,    \* owner of stateLock
    connLock,     \* owner of connectedLock
    tracker,      \* owner of listenerTracker.lock: a listener or 0
    wake,         \* connectedCvar was broadcast since the last connection was started
    lterm,        \* listenerTracker.terminated
    recTerm,      \* reconnecterTracker.terminated
    ongoing,      \* pOngoingCallInfo: the listener it was made for, or 0
    cancel,       \* call infos with cancelService set
    ending,       \* call infos whose request is terminating
    lost,         \* call infos freed before their listener ended
    th,           \* the threads that make calls
    li,           \* the listeners: where each one is
    freed,        \* freeSignaling has freed the client
    seen,         \* listeners that freeSignaling found running
    refusals,     \* <<state, next>> refused by the machine
    reported,     \* a reconnection that failed was reported to errorReportFn
    calls, faults \* the bounds' counters

flags == <<connected, shutdown, deleting, deleted, refreshIce, offer>>
world == <<storage, arn, expired, iceOk, cached>>
machine == <<st, retries, result, refusals>>
locks == <<stateLock, connLock, tracker>>
sockets == <<wake, lterm, ongoing, cancel, ending, lost, li, seen>>
vars == <<flags, world, machine, locks, sockets, recTerm, th, freed, reported, calls, faults>>

Idle == [pc |-> "idle", op |-> "none", goal |-> "NEW", saved |-> "NEW", exec |-> "NEW", status |-> "ok"]

\* createSignalingSync: the token has been fetched
Init ==
    /\ storage \in BOOLEAN /\ arn \in BOOLEAN /\ ~(storage /\ arn)
    /\ st = "GET_TOKEN" /\ retries = 0 /\ result = "OK" /\ refusals = {}
    /\ connected = FALSE /\ shutdown = FALSE /\ deleting = FALSE
    /\ deleted = FALSE /\ refreshIce = FALSE /\ offer = FALSE
    /\ expired = FALSE /\ iceOk = FALSE /\ cached = {}
    /\ stateLock = NoOne /\ connLock = NoOne /\ tracker = 0
    /\ wake = FALSE /\ lterm = TRUE /\ recTerm = TRUE
    /\ ongoing = 0 /\ cancel = {} /\ ending = {} /\ lost = {} /\ seen = {}
    /\ th = [t \in Threads |-> Idle]
    /\ li = [l \in Listeners |-> "none"]
    /\ freed = FALSE /\ reported = FALSE /\ calls = 0 /\ faults = 0

-----------------------------------------------------------------------------
(* The state machine *)

\* The from functions: the state that follows, for result r of the last service call
fromGetToken(r) ==
    IF r # "OK" THEN "GET_TOKEN" ELSE
    IF deleting THEN "DELETE" ELSE IF arn THEN "GET_ENDPOINT" ELSE "DESCRIBE"

fromDescribe(r) ==
    CASE r = "OK" -> IF deleting THEN "DELETE" ELSE IF storage THEN "DESCRIBE_MEDIA" ELSE "GET_ENDPOINT"
      [] r = "NOT_FOUND" -> "CREATE"
      [] r = "NOT_AUTHORIZED" -> "GET_TOKEN"
      [] OTHER -> "DESCRIBE"

fromDescribeMediaStorageConf(r) ==
    CASE r = "OK" -> IF deleting THEN "DELETE" ELSE "GET_ENDPOINT"
      [] r = "NOT_FOUND" -> "CREATE"
      [] r = "NOT_AUTHORIZED" -> "GET_TOKEN"
      [] OTHER -> "DESCRIBE_MEDIA"

fromCreate(r) ==
    CASE r = "OK" -> "DESCRIBE" [] r = "NOT_AUTHORIZED" -> "GET_TOKEN" [] OTHER -> "CREATE"

fromGetEndpoint(r) ==
    CASE r = "OK" -> "GET_ICE_CONFIG" [] r = "NOT_AUTHORIZED" -> "GET_TOKEN" [] OTHER -> "GET_ENDPOINT"

fromGetIceConfig(r) ==
    CASE r = "OK" -> "READY"
      [] r = "NOT_FOUND" -> "DESCRIBE"
      [] r = "NOT_AUTHORIZED" -> "GET_TOKEN"
      [] OTHER -> "GET_ICE_CONFIG"

fromDelete(r) ==
    CASE r \in {"OK", "NOT_FOUND"} -> "DELETED"
      [] r = "BAD_REQUEST" -> "DESCRIBE"
      [] r = "NOT_AUTHORIZED" -> "GET_TOKEN"
      [] OTHER -> "DELETE"

fromReady(r) ==
    CASE r = "OK" -> "READY"
      [] r = "RECONNECT_ICE" -> "GET_ICE_CONFIG"
      [] r = "NOT_AUTHORIZED" -> "GET_TOKEN"
      [] OTHER -> "CONNECT"

fromConnect(r) ==
    CASE r = "OK" -> IF connected THEN "CONNECTED" ELSE "CONNECT"
      [] r = "NOT_FOUND" -> "DESCRIBE"
      [] r = "RECONNECT_ICE" -> "GET_ICE_CONFIG"
      [] r \in {"SERVER", "BAD_REQUEST"} -> "GET_ENDPOINT"
      [] OTHER -> "GET_TOKEN"

fromConnected(r) ==
    CASE r = "OK" -> IF ~connected THEN "DISCONNECTED" ELSE IF storage THEN "JOIN_SESSION" ELSE "CONNECTED"
      [] r \in {"NOT_FOUND", "GO_AWAY"} -> "DESCRIBE"
      [] r = "RECONNECT_ICE" -> "GET_ICE_CONFIG"
      [] r \in {"SERVER", "BAD_REQUEST"} -> "GET_ENDPOINT"
      [] OTHER -> "GET_TOKEN"

fromJoinStorageSession(r) ==
    CASE r = "OK" -> IF connected THEN "JOIN_WAITING" ELSE "DISCONNECTED"
      [] r = "NOT_FOUND" -> "DESCRIBE"
      [] r = "RECONNECT_ICE" -> "GET_ICE_CONFIG"
      [] r \in {"SERVER", "BAD_REQUEST"} -> "GET_ENDPOINT"
      [] OTHER -> "GET_TOKEN"

fromJoinStorageSessionWaiting_WaitsAgain(r) ==
    CASE r \in {"OK", "NOT_SET"} /\ ~connected -> "DISCONNECTED"
      [] r = "OK" -> "JOIN_CONNECTED"
      [] r = "NOT_SET" -> "JOIN_WAITING"
      [] OTHER -> "GET_TOKEN"

fromJoinStorageSessionWaiting(r) ==
    CASE r \in {"OK", "NOT_SET"} /\ ~connected -> "DISCONNECTED"
      [] r = "OK" -> "JOIN_CONNECTED"
      [] r = "NOT_SET" -> "JOIN_SESSION"
      [] OTHER -> "GET_TOKEN"

fromJoinStorageSessionConnected(r) ==
    CASE r = "OK" -> IF connected THEN "GET_ICE_CONFIG" ELSE "DISCONNECTED"
      [] r = "RECONNECT_ICE" -> "GET_ICE_CONFIG"
      [] r = "GO_AWAY" -> "DESCRIBE"
      [] OTHER -> "GET_TOKEN"

fromDisconnected(r) ==
    CASE r = "RECONNECT_ICE" -> "GET_ICE_CONFIG" [] r = "NOT_AUTHORIZED" -> "GET_TOKEN" [] OTHER -> "READY"

\* states that give way to a forced refresh of the ICE configuration
Steady == {"READY", "CONNECT", "CONNECTED", "JOIN_SESSION", "JOIN_CONNECTED", "DISCONNECTED"}

NextState(s, r) ==
    IF s \in Steady /\ refreshIce THEN "GET_ICE_CONFIG" ELSE
    CASE s = "NEW" -> "GET_TOKEN"
      [] s = "GET_TOKEN" -> fromGetToken(r)
      [] s = "DESCRIBE" -> fromDescribe(r)
      [] s = "DESCRIBE_MEDIA" -> fromDescribeMediaStorageConf(r)
      [] s = "CREATE" -> fromCreate(r)
      [] s = "GET_ENDPOINT" -> fromGetEndpoint(r)
      [] s = "GET_ICE_CONFIG" -> fromGetIceConfig(r)
      [] s = "READY" -> fromReady(r)
      [] s = "CONNECT" -> fromConnect(r)
      [] s = "CONNECTED" -> fromConnected(r)
      [] s = "JOIN_SESSION" -> fromJoinStorageSession(r)
      [] s = "JOIN_WAITING" -> fromJoinStorageSessionWaiting(r)
      [] s = "JOIN_CONNECTED" -> fromJoinStorageSessionConnected(r)
      [] s = "DISCONNECTED" -> fromDisconnected(r)
      [] s = "DELETE" -> fromDelete(r)
      [] s = "DELETED" -> s

\* SIGNALING_STATE_MACHINE_STATES: the states each state may be entered from
Connections == {"CONNECT", "CONNECTED", "JOIN_SESSION", "JOIN_CONNECTED"}

AcceptStates(s) ==
    CASE s = "NEW" -> {"NEW"}
      [] s = "GET_TOKEN" -> States \ {"DISCONNECTED", "DELETED"}
      [] s = "DESCRIBE" -> Connections \cup {"GET_TOKEN", "CREATE", "GET_ENDPOINT",
            "GET_ICE_CONFIG", "DELETE", "DESCRIBE", "READY", "DISCONNECTED"}
      [] s = "DESCRIBE_MEDIA" -> {"DESCRIBE", "DESCRIBE_MEDIA"}
      [] s = "CREATE" -> {"DESCRIBE", "DESCRIBE_MEDIA", "CREATE"}
      [] s = "GET_ENDPOINT" -> Connections \cup {"DESCRIBE", "DESCRIBE_MEDIA", "CREATE",
            "GET_TOKEN", "READY", "GET_ENDPOINT"}
      [] s = "GET_ICE_CONFIG" -> Connections \cup {"DESCRIBE", "DESCRIBE_MEDIA",
            "GET_ENDPOINT", "READY", "GET_ICE_CONFIG"}
      [] s = "READY" -> {"GET_ICE_CONFIG", "DISCONNECTED", "READY"}
      [] s = "CONNECT" -> {"READY", "DISCONNECTED", "CONNECTED", "JOIN_SESSION", "CONNECT"}
      [] s = "CONNECTED" -> {"CONNECT", "CONNECTED", "JOIN_SESSION"}
      [] s = "DISCONNECTED" -> Connections \cup {"JOIN_WAITING"}
      [] s = "JOIN_SESSION" -> {"CONNECTED", "JOIN_WAITING", "JOIN_CONNECTED"}
      [] s = "JOIN_WAITING" -> {"JOIN_SESSION"}
      [] s = "JOIN_CONNECTED" -> {"JOIN_WAITING", "JOIN_CONNECTED"}
      [] s = "DELETE" -> States \ {"NEW", "JOIN_WAITING", "JOIN_CONNECTED", "DELETED"}
      [] s = "DELETED" -> {"DELETE", "DELETED"}

\* maxLocalStateRetryCount: SIGNALING_STATES_DEFAULT_RETRY_COUNT is 1
Counted == {"GET_TOKEN", "DESCRIBE", "DESCRIBE_MEDIA", "CREATE", "GET_ENDPOINT",
            "GET_ICE_CONFIG", "DISCONNECTED", "DELETE"}

\* states whose execution makes a service call
Calling == {"GET_TOKEN", "DESCRIBE", "DESCRIBE_MEDIA", "CREATE", "GET_ENDPOINT",
            "GET_ICE_CONFIG", "JOIN_SESSION", "DELETE"}
Cacheable == {"DESCRIBE", "DESCRIBE_MEDIA", "GET_ENDPOINT"}

Goal == IF storage THEN "JOIN_CONNECTED" ELSE "CONNECTED"

-----------------------------------------------------------------------------
(* Threads that drive the state machine *)

Go(t, pc) == th' = [th EXCEPT ![t].pc = pc]
GoStatus(t, pc, status) == th' = [th EXCEPT ![t].pc = pc, ![t].status = status]

Leave_HeldOnFailure(t, status) ==
    GoStatus(t, "ret", status) /\ stateLock' = IF status = "ok" THEN NoOne ELSE stateLock

\* signalingStateMachineIterator returns: stateLock is released
Leave(t, status) == GoStatus(t, "ret", status) /\ stateLock' = NoOne

\* after a step of the machine: done when the state is the final one, whatever the step returned
AfterStep(t, s, status) ==
    IF s = th[t].goal THEN Leave(t, "ok") ELSE GoStatus(t, "turn", status) /\ UNCHANGED stateLock

Lock(t) ==
    /\ th[t].pc = "lock" /\ stateLock = NoOne
    /\ stateLock' = t /\ GoStatus(t, "turn", "ok")
    /\ UNCHANGED <<flags, world, machine, connLock, tracker, sockets, recTerm, freed, reported, calls, faults>>

\* The iterator gives up: shut down, a state tried too often, or its time is over.
IterateExit(t) ==
    /\ th[t].pc = "turn"
    /\ \/ shutdown /\ Leave(t, th[t].status)
       \/ ~shutdown /\ th[t].status = "final" /\ Leave(t, "fail")
    /\ UNCHANGED <<flags, world, machine, connLock, tracker, sockets, recTerm, freed, reported, calls, faults>>

IterateExpire_Silent(t) ==
    /\ th[t].pc = "turn" /\ ~shutdown
    /\ Leave(t, "ok")
    /\ UNCHANGED <<flags, world, machine, connLock, tracker, sockets, recTerm, freed, reported, calls, faults>>

IterateExpire(t) ==
    /\ th[t].pc = "turn" /\ ~shutdown
    /\ Leave(t, "fail")
    /\ UNCHANGED <<flags, world, machine, connLock, tracker, sockets, recTerm, freed, reported, calls, faults>>

\* stepStateMachine enters s with result r: the state's execute function up to its call
Enter(t, s, r) ==
    /\ st' = s
    /\ retries' = IF s = st /\ s \in Counted THEN retries + 1 ELSE 0
    /\ offer' = (offer /\ s # "JOIN_SESSION")
    /\ \/ /\ s \in Calling
          /\ result' = "NOT_SET"
          /\ th' = [th EXCEPT ![t].pc = IF s = "DELETE" THEN "delete" ELSE "call",
                            ![t].exec = s, ![t].status = "ok"]
          /\ UNCHANGED stateLock
       \/ /\ s \in Cacheable \cap cached
          /\ result' = "OK"
          /\ AfterStep(t, s, "ok")
       \/ /\ s \in {"CONNECT", "JOIN_WAITING"}
          /\ result' = r
          /\ GoStatus(t, IF s = "CONNECT" THEN "connect" ELSE "offerwait", "ok")
          /\ UNCHANGED stateLock
       \/ /\ s \in {"READY", "CONNECTED", "DISCONNECTED", "JOIN_CONNECTED", "DELETED"}
          /\ result' = IF s = "READY" THEN "NOT_SET" ELSE r
          /\ AfterStep(t, s, "ok")

\* s was entered maxLocalStateRetryCount times and would be entered again
Exhausted_OneMore(s) == s = st /\ s \in Counted /\ retries > 1

Exhausted(s) == s = st /\ s \in Counted /\ retries >= 1

\* One turn: expired credentials override the result, then stepStateMachine
IterateTurn(t) ==
    LET r == IF th[t].status = "unauthorized" \/ expired THEN "NOT_AUTHORIZED" ELSE result
        s == NextState(st, r)
    IN  /\ th[t].pc = "turn" /\ ~shutdown /\ th[t].status # "final"
        /\ refreshIce' = (refreshIce /\ st \notin Steady)
        /\ cached' = IF st = "GET_ICE_CONFIG" /\ s = "DESCRIBE" THEN {} ELSE cached
        /\ \/ /\ st \notin AcceptStates(s)
              /\ result' = r /\ refusals' = refusals \cup {<<st, s>>}
              /\ AfterStep(t, st, "fail")
              /\ UNCHANGED <<st, retries, offer>>
           \/ /\ st \in AcceptStates(s) /\ Exhausted(s)
              /\ result' = r
              /\ AfterStep(t, st, "final")
              /\ UNCHANGED <<st, retries, offer, refusals>>
           \/ /\ st \in AcceptStates(s) /\ ~Exhausted(s)
              /\ Enter(t, s, r)
              /\ UNCHANGED refusals
    /\ UNCHANGED <<connected, shutdown, deleting, deleted, storage, arn, expired, iceOk, connLock, tracker,
                   sockets, recTerm, freed, reported, calls, faults>>

\* A listener blocked inside a callback keeps lwsServiceLock: every https call spins on it.
ServiceHeld == \E l \in Listeners : li[l] = "selfwait"

\* terminateConnectionWithStatus up to its wait for the listener
Terminate(r) ==
    /\ connected' = FALSE /\ result' = r
    /\ cancel' = cancel \cup ({ongoing} \ {0})
    /\ wake' = TRUE

\* awaitForThreadTermination of the listener, which holds its tracker's lock until it ends
ListenerEnded_NotAwaited == TRUE

ListenerEnded == tracker = 0

\* deleteChannelLws first terminates a listener that runs
DeleteStart(t) ==
    /\ \/ /\ th[t].pc = "delete"
          /\ IF ~expired /\ ~lterm /\ ongoing # 0 THEN Terminate("OK") /\ Go(t, "delwait")
             ELSE Go(t, "call") /\ UNCHANGED <<connected, result, cancel, wake>>
       \/ /\ th[t].pc = "delwait" /\ ListenerEnded
          /\ Go(t, "call") /\ UNCHANGED <<connected, result, cancel, wake>>
    /\ UNCHANGED <<shutdown, deleting, deleted, refreshIce, offer, world, st, retries, refusals, locks, lterm,
                   ongoing, ending, lost, li, seen, recTerm, freed, reported, calls, faults>>

\* a service call that state s makes is answered; expired credentials end it without a call
Answer(t, s, r, status) ==
    /\ th[t].pc = "call" /\ th[t].exec = s
    /\ s # "GET_TOKEN" => ~ServiceHeld
    /\ result' = r /\ GoStatus(t, "turn", status)
    /\ UNCHANGED <<connected, shutdown, deleting, refreshIce, offer, st, retries, refusals, storage, arn, locks,
                   sockets, recTerm, freed, reported, calls>>

Succeeds(t, s) ==
    /\ s # "GET_TOKEN" => ~expired
    /\ Answer(t, s, "OK", "ok") /\ UNCHANGED faults

\* The calls that succeed.  DESCRIBE, DESCRIBE_MEDIA and GET_ENDPOINT remember the answer.
getToken(t) == Succeeds(t, "GET_TOKEN") /\ expired' = FALSE /\ UNCHANGED <<deleted, iceOk, cached>>

Remembered(t, s) ==
    Succeeds(t, s) /\ cached' = cached \cup {s} /\ UNCHANGED <<deleted, expired, iceOk>>

describeChannel(t) == Remembered(t, "DESCRIBE")
describeMediaStorageConf(t) == Remembered(t, "DESCRIBE_MEDIA")
getChannelEndpoint(t) == Remembered(t, "GET_ENDPOINT")

createChannel(t) == Succeeds(t, "CREATE") /\ UNCHANGED <<deleted, expired, iceOk, cached>>

getIceConfig(t) == Succeeds(t, "GET_ICE_CONFIG") /\ iceOk' = TRUE /\ UNCHANGED <<deleted, expired, cached>>

\* joinStorageSession refuses to join without a connection
joinStorageSession(t) ==
    /\ \/ connected /\ Succeeds(t, "JOIN_SESSION")
       \/ ~connected /\ ~expired /\ Answer(t, "JOIN_SESSION", "UNKNOWN", "ok") /\ UNCHANGED faults
    /\ UNCHANGED <<deleted, expired, iceOk, cached>>

\* deleteChannelLws: a channel that is not found counts as deleted
deleteChannel(t) ==
    /\ \/ Succeeds(t, "DELETE")
       \/ faults < MaxFaults /\ faults' = faults + 1 /\ ~expired /\ Answer(t, "DELETE", "NOT_FOUND", "ok")
    /\ deleted' = TRUE
    /\ UNCHANGED <<expired, iceOk, cached>>

\* the service or the credential provider refuses, or the credentials have expired
Refusals == {"NOT_FOUND", "NOT_AUTHORIZED", "BAD_REQUEST", "SERVER", "UNKNOWN"}

CallFails(t) ==
    /\ \/ /\ faults < MaxFaults /\ faults' = faults + 1
          /\ \/ Answer(t, "GET_TOKEN", "NOT_AUTHORIZED", "unauthorized")
             \/ \E s \in Calling \ {"GET_TOKEN"}, r \in Refusals :
                   <<s, r>> # <<"DELETE", "NOT_FOUND">> /\ Answer(t, s, r, "fail")
       \/ /\ expired /\ UNCHANGED faults
          /\ \E s \in Calling \ {"GET_TOKEN"} : Answer(t, s, "NOT_AUTHORIZED", "ok")
    /\ UNCHANGED <<deleted, expired, iceOk, cached>>

-----------------------------------------------------------------------------
(* Connecting *)

Unused == {l \in Listeners : li[l] = "none"}

\* connectSignalingChannel: nothing to do when already connected, else a listener is started
ConnectStart(t) ==
    /\ th[t].pc = "connect"
    /\ \/ /\ connected
          /\ result' = "OK" /\ GoStatus(t, "turn", "ok")
          /\ UNCHANGED <<connected, li, ongoing, wake>>
       \/ /\ ~connected /\ Unused # {}
          /\ LET l == CHOOSE l \in Unused : \A k \in Unused : l <= k
             IN  li' = [li EXCEPT ![l] = "starting"] /\ ongoing' = l
          /\ connected' = FALSE /\ result' = "NOT_SET" /\ wake' = FALSE
          /\ Go(t, "connwait")
       \/ /\ ~connected /\ Unused = {}      \* no thread can be created
          /\ result' = "UNKNOWN" /\ GoStatus(t, "turn", "fail")
          /\ UNCHANGED <<connected, li, ongoing, wake>>
    /\ UNCHANGED <<shutdown, deleting, deleted, refreshIce, offer, world, st, retries, refusals, locks, lterm,
                   cancel, ending, lost, seen, recTerm, freed, reported, calls, faults>>

\* connectSignalingChannelLws: the listener has set the result
ConnectDone(t) ==
    /\ th[t].pc = "connwait" /\ connLock = NoOne /\ wake /\ result # "NOT_SET"
    /\ result' = IF connected THEN "OK" ELSE result
    /\ GoStatus(t, "turn", "ok")
    /\ UNCHANGED <<flags, world, st, retries, refusals, locks, sockets, recTerm, freed, reported, calls, faults>>

\* a listener whose next step needs a processor and no answer from the network
Prompt(l) == li[l] = "closed" \/ l \in ending \cup lost \/ ongoing \in cancel

\* ... or the wait timed out: a listener marked as started is terminated with connectedLock held.
\* Threads are scheduled well within SIGNALING_CONNECT_TIMEOUT: the new listener is past its start
\* by then, unless it waits for the tracker of an older one that waits for the network.
ConnectTimeout(t) ==
    /\ th[t].pc = "connwait" /\ connLock = NoOne
    /\ \A l \in Listeners : li[l] \in {"starting", "interlock"} => tracker \notin {0, l} /\ ~Prompt(tracker)
    /\ IF ~lterm /\ ongoing # 0
       THEN /\ Terminate("SERVER")
            /\ connLock' = t /\ Go(t, "connfail")
       ELSE /\ result' = "SERVER"
            /\ GoStatus(t, "turn", "fail")
            /\ UNCHANGED <<connected, cancel, wake, connLock>>
    /\ UNCHANGED <<shutdown, deleting, deleted, refreshIce, offer, world, st, retries, refusals, stateLock, tracker,
                   lterm, ongoing, ending, lost, li, seen, recTerm, freed, reported, calls, faults>>

ConnectAbandon(t) ==
    /\ th[t].pc = "connfail" /\ ListenerEnded
    /\ result' = "SERVER" /\ connLock' = NoOne
    /\ GoStatus(t, "turn", "fail")
    /\ UNCHANGED <<flags, world, st, retries, refusals, stateLock, tracker, sockets, recTerm, freed, reported,
                   calls, faults>>

\* executeJoinStorageSessionWaitingState: the offer has come, or the wait timed out
OfferWait(t) ==
    /\ th[t].pc = "offerwait"
    /\ \/ offer /\ result' = "OK" /\ GoStatus(t, "turn", "ok")
       \/ result' = "NOT_SET" /\ GoStatus(t, "turn", "fail")
    /\ UNCHANGED <<flags, world, st, retries, refusals, locks, sockets, recTerm, freed, reported, calls, faults>>

-----------------------------------------------------------------------------
(* Calls of the application *)

CallUnchanged == UNCHANGED <<connLock, tracker, freed, reported, faults>>

\* signalingFetchSync, signalingDisconnectSync, signalingDeleteSync and freeSignaling first
\* terminate the ongoing operations; signalingConnectSync validates the state first.
Call(t, op) ==
    /\ th[t].pc = "idle" /\ calls < MaxCalls /\ calls' = calls + 1
    /\ ~shutdown
    /\ \/ /\ op = "fetch"
          /\ th' = [th EXCEPT ![t] = [Idle EXCEPT !.pc = IF connected THEN "term" ELSE "prep",
                                     !.op = op, !.goal = "READY"]]
          /\ UNCHANGED <<shutdown, deleting>>
       \/ /\ op = "connect"
          /\ th' = [th EXCEPT ![t] = [Idle EXCEPT !.pc = "accept", !.op = op, !.goal = Goal]]
          /\ UNCHANGED <<shutdown, deleting>>
       \/ /\ op = "disconnect" /\ connected
          /\ th' = [th EXCEPT ![t] = [Idle EXCEPT !.pc = "term", !.op = op, !.goal = "READY"]]
          /\ UNCHANGED <<shutdown, deleting>>
       \/ /\ op = "delete" /\ ~deleted
          /\ deleting' = TRUE
          /\ th' = [th EXCEPT ![t] = [Idle EXCEPT !.pc = "term", !.op = op, !.goal = "DELETED"]]
          /\ UNCHANGED shutdown
       \/ /\ op = "refresh" /\ ~iceOk
          /\ th' = [th EXCEPT ![t] = [Idle EXCEPT !.pc = "accept", !.op = op]]
          /\ UNCHANGED <<shutdown, deleting>>
       \/ /\ op = "free" /\ \A a \in Apps : th[a].pc = "idle"
          /\ shutdown' = TRUE
          /\ th' = [th EXCEPT ![t] = [Idle EXCEPT !.pc = "term", !.op = op]]
          /\ UNCHANGED deleting
    /\ UNCHANGED <<connected, deleted, refreshIce, offer, world, machine, stateLock, sockets, recTerm>>
    /\ CallUnchanged

\* terminateOngoingOperations: the listener loop, when a listener is marked as started
TerminateListener(t) ==
    /\ th[t].pc = "term"
    /\ seen' = IF th[t].op = "free" /\ ~lterm THEN {l \in Listeners : tracker = l} ELSE seen
    /\ IF ongoing # 0 /\ ~lterm
       THEN Terminate("OK") /\ Go(t, "awaitl")
       ELSE Go(t, "awaitr") /\ UNCHANGED <<connected, result, cancel, wake>>
    /\ UNCHANGED <<shutdown, deleting, deleted, refreshIce, offer, world, st, retries, refusals, stateLock,
                   lterm, ongoing, ending, lost, li, recTerm, calls>>
    /\ CallUnchanged

\* terminateOngoingOperations waits for the listener, without a timeout since the wait is for
\* the tracker's lock, and for the reconnecter.  The second wait may time out, except under
\* shutdown, which ends a reconnection within one service call, less than
\* SIGNALING_CLIENT_SHUTDOWN_TIMEOUT.
Await(t) ==
    /\ \/ th[t].pc = "awaitl" /\ ListenerEnded /\ Go(t, "awaitr")
       \/ th[t].pc = "awaitr" /\ (recTerm \/ ~shutdown) /\ Go(t, "prep")
    /\ UNCHANGED <<flags, world, machine, stateLock, sockets, recTerm, calls>>
    /\ CallUnchanged

\* what fetch, disconnect, delete and free do next: the state is set without stateLock
Prepare(t) ==
    /\ th[t].pc = "prep"
    /\ \/ /\ th[t].op = "fetch"
          /\ st' = "GET_TOKEN"
          /\ result' = IF result = "NOT_AUTHORIZED" THEN result ELSE "OK"
          /\ Go(t, "lock") /\ UNCHANGED freed
       \/ /\ th[t].op = "disconnect"
          /\ result' = "OK"
          /\ Go(t, "lock") /\ UNCHANGED <<st, freed>>
       \/ /\ th[t].op = "delete"
          /\ st' = "DELETE"
          /\ Go(t, "lock") /\ UNCHANGED <<result, freed>>
       \/ /\ th[t].op = "free"
          /\ freed' = TRUE
          /\ Go(t, "idle") /\ UNCHANGED <<st, result>>
    /\ UNCHANGED <<flags, world, retries, refusals, locks, sockets, recTerm, reported, calls, faults>>

\* signalingConnectSync and refreshIceConfiguration validate the state under stateLock
Accept(t) ==
    /\ th[t].pc = "accept" /\ stateLock = NoOne
    /\ IF /\ st \in Steady \cup {"JOIN_WAITING"}
          /\ th[t].op = "connect" => ~connected \/ storage
       THEN th' = [th EXCEPT ![t].pc = IF th[t].op = "connect" THEN "lock" ELSE "refresh", ![t].saved = st]
       ELSE Go(t, "idle")
    /\ UNCHANGED <<flags, world, machine, stateLock, sockets, recTerm, calls>>
    /\ CallUnchanged

\* refreshIceConfiguration: a refresh is forced; in a steady state the machine is driven now
Refresh(t) ==
    /\ th[t].pc = "refresh" /\ stateLock = NoOne
    /\ result' = "RECONNECT_ICE" /\ refreshIce' = TRUE
    /\ IF st \in {"READY", "CONNECTED", "JOIN_CONNECTED"}
       THEN /\ stateLock' = t
            /\ th' = [th EXCEPT ![t].pc = "turn", ![t].goal = st, ![t].saved = st, ![t].status = "ok"]
       ELSE Go(t, "idle") /\ UNCHANGED stateLock
    /\ UNCHANGED <<connected, shutdown, deleting, deleted, offer, world, st, retries, refusals, sockets,
                   recTerm, calls>>
    /\ CallUnchanged

\* The iterator has returned: connect and refresh restore the state they started from when it
\* failed, after stateLock was released; a reconnecter reports the failure and ends.
Return(t) ==
    LET failed == th[t].status # "ok" IN
    /\ th[t].pc = "ret"
    /\ st' = IF failed /\ th[t].op \in {"connect", "refresh"} THEN th[t].saved ELSE st
    /\ retries' = IF failed /\ th[t].op \in {"connect", "fetch"} THEN 0 ELSE retries
    /\ reported' = (reported \/ (failed /\ t \in Recs))
    /\ recTerm' = (recTerm \/ t \in Recs)
    /\ th' = [th EXCEPT ![t] = Idle]
    /\ UNCHANGED <<flags, world, result, refusals, locks, sockets, freed, calls, faults>>

\* reconnectHandler: wait for the listener to clear, then drive the machine to connected
ReconnectHandler(t) ==
    /\ t \in Recs /\ th[t].pc = "clear" /\ ListenerEnded
    /\ th' = [th EXCEPT ![t].pc = IF shutdown THEN "ret" ELSE "lock", ![t].goal = Goal]
    /\ UNCHANGED <<flags, world, machine, stateLock, sockets, recTerm, calls>>
    /\ CallUnchanged

-----------------------------------------------------------------------------
(* Listener threads: lwsListenerHandler and the callbacks it runs *)

ListenerUnchanged == UNCHANGED <<shutdown, deleting, deleted, refreshIce, world, st, retries, refusals,
                                 stateLock, connLock, seen, freed, reported, calls>>

\* take listenerTracker.lock, wait for the thread that connects to be waiting, mark as started
ListenerStart(l) ==
    /\ \/ /\ li[l] = "starting" /\ tracker = 0
          /\ tracker' = l /\ li' = [li EXCEPT ![l] = "interlock"]
          /\ UNCHANGED lterm
       \/ /\ li[l] = "interlock" /\ connLock = NoOne
          /\ lterm' = FALSE /\ li' = [li EXCEPT ![l] = "connecting"]
          /\ UNCHANGED tracker
    /\ UNCHANGED <<connected, offer, result, wake, ongoing, cancel, ending, lost, recTerm, th, faults>>
    /\ ListenerUnchanged

\* every callback looks at pOngoingCallInfo, whoever it was made for
Heeded == ongoing # 0 /\ ongoing \notin cancel

Established(l) ==
    /\ li[l] = "connecting" /\ ongoing \notin cancel
    /\ li' = [li EXCEPT ![l] = "open"]
    /\ IF ongoing # 0 THEN result' = "OK" /\ connected' = TRUE /\ wake' = TRUE
       ELSE UNCHANGED <<result, connected, wake>>
    /\ UNCHANGED <<offer, tracker, lterm, ongoing, cancel, ending, lost, recTerm, th, faults>>
    /\ ListenerUnchanged

\* cancelService is set: the callback ends the connection, whatever the reason it was called for
Cancelled(l) ==
    /\ li[l] \in {"connecting", "open"} /\ ongoing \in cancel
    /\ ending' = ending \cup {ongoing}
    /\ li' = [li EXCEPT ![l] = "closed"]
    /\ UNCHANGED <<connected, offer, result, tracker, wake, lterm, ongoing, cancel, lost, recTerm, th, faults>>
    /\ ListenerUnchanged

\* start a reconnecter; recTerm is reset first, and set again if no thread can be created
StartReconnecter ==
    LET idle == {r \in Recs : th[r].pc = "idle"}
    IN  IF idle = {} THEN recTerm' = TRUE /\ UNCHANGED th
        ELSE /\ recTerm' = FALSE
             /\ th' = [th EXCEPT ![CHOOSE r \in idle : TRUE] =
                              [Idle EXCEPT !.pc = "clear", !.op = "reconnect"]]

\* LWS_CALLBACK_CLIENT_CONNECTION_ERROR
ConnectionError(l) ==
    /\ li[l] = "connecting" /\ faults < MaxFaults /\ faults' = faults + 1
    /\ li' = [li EXCEPT ![l] = "closed"]
    /\ Heeded
    /\ ending' = ending \cup {ongoing}
    /\ connected' = FALSE /\ result' = "UNKNOWN"
    /\ IF connected /\ ~shutdown THEN StartReconnecter ELSE UNCHANGED <<recTerm, th>>
    /\ UNCHANGED <<offer, tracker, wake, lterm, ongoing, cancel, lost>>
    /\ ListenerUnchanged

\* LWS_CALLBACK_CLIENT_CLOSED, after LWS_CALLBACK_WS_PEER_INITIATED_CLOSE when the service
\* closed the socket (peer): that callback has stored the close status as the result
Closed(l, peer) ==
    LET r == IF peer THEN "UNKNOWN" ELSE result
        reconnect == connected /\ r # "RECONNECT_ICE" /\ ~shutdown
    IN  /\ li[l] = "open" /\ faults < MaxFaults /\ faults' = faults + 1
        /\ li' = [li EXCEPT ![l] = "closed"]
        /\ \/ ongoing = 0 /\ UNCHANGED <<ending, connected, result, recTerm, th>>
           \/ /\ Heeded
              /\ ending' = ending \cup {ongoing}
              /\ connected' = FALSE
              /\ result' = IF reconnect THEN "UNKNOWN" ELSE r
              /\ IF reconnect THEN StartReconnecter ELSE UNCHANGED <<recTerm, th>>
        /\ UNCHANGED <<offer, tracker, wake, lterm, ongoing, cancel, lost>>
        /\ ListenerUnchanged

\* receiveLwsMessage, on the listener's own thread: an order of the service to reconnect ends in
\* awaitForThreadTermination for this very listener, whose tracker lock it holds
Order(l, o) ==
    /\ li[l] = "open" /\ Heeded
    /\ Terminate(o)
    /\ li' = [li EXCEPT ![l] = "selfwait"]
    /\ UNCHANGED <<offer, tracker, lterm, ongoing, ending, lost, recTerm, th, faults>>
    /\ ListenerUnchanged

\* receiveLwsMessageWrapper: the offer a storage session starts with
Offer(l) ==
    /\ li[l] = "open" /\ Heeded /\ storage /\ ~offer
    /\ offer' = TRUE
    /\ UNCHANGED <<connected, result, tracker, sockets, recTerm, th, faults>>
    /\ ListenerUnchanged

\* The loop of lwsCompleteSync ends (or the call fails at its start): the listener frees the
\* ongoing call info and releases its tracker.
ListenerEnd(l) ==
    /\ \/ /\ li[l] \in {"connecting", "open", "closed"} /\ l \in ending \cup lost
          /\ UNCHANGED <<result, faults>>
       \/ /\ li[l] = "connecting" /\ faults < MaxFaults /\ faults' = faults + 1
          /\ result' = "UNKNOWN"
    /\ li' = [li EXCEPT ![l] = "done"]
    /\ ongoing' = 0
    /\ lost' = lost \cup ({ongoing} \ {0, l})
    /\ lterm' = TRUE /\ tracker' = 0 /\ wake' = TRUE
    /\ UNCHANGED <<connected, offer, cancel, ending, recTerm, th>>
    /\ ListenerUnchanged

\* time passes: the credentials or the ICE configuration expire
Expire ==
    /\ faults < MaxFaults /\ faults' = faults + 1
    /\ \/ ~expired /\ expired' = TRUE /\ UNCHANGED iceOk
       \/ iceOk /\ iceOk' = FALSE /\ UNCHANGED expired
    /\ UNCHANGED <<flags, storage, arn, cached, machine, locks, sockets, recTerm, th, freed, reported, calls>>

-----------------------------------------------------------------------------
Ops == {"fetch", "connect", "disconnect", "delete", "refresh", "free"}

\* the steps a thread takes once its call has begun
Drive(t) ==
    \/ Lock(t) \/ IterateExit(t) \/ IterateTurn(t) \/ DeleteStart(t)
    \/ getToken(t) \/ describeChannel(t) \/ describeMediaStorageConf(t) \/ createChannel(t)
    \/ getChannelEndpoint(t) \/ getIceConfig(t) \/ joinStorageSession(t) \/ deleteChannel(t)
    \/ ConnectStart(t) \/ ConnectDone(t) \/ ConnectAbandon(t) \/ OfferWait(t)
    \/ TerminateListener(t) \/ Await(t) \/ Prepare(t) \/ Accept(t) \/ Refresh(t) \/ Return(t)
    \/ ReconnectHandler(t)

Listen(l) ==
    ListenerStart(l) \/ Established(l) \/ Cancelled(l) \/ ListenerEnd(l)

Next ==
    /\ ~freed
    /\ \/ \E t \in Threads : Drive(t) \/ IterateExpire(t) \/ ConnectTimeout(t) \/ CallFails(t)
       \/ \E t \in Apps, op \in Ops : Call(t, op)
       \/ \E l \in Listeners : Listen(l) \/ ConnectionError(l) \/ Offer(l)
       \/ \E l \in Listeners, peer \in BOOLEAN : Closed(l, peer)
       \/ \E l \in Listeners, o \in Orders : Order(l, o)
       \/ Expire

Spec == Init /\ [][Next]_vars

\* Threads run, the network answers or a wait times out, and the iterator's deadline comes.
Fairness ==
    /\ \A t \in Threads : /\ WF_vars(~freed /\ (Drive(t) \/ ConnectTimeout(t) \/ CallFails(t)))
                           /\ SF_vars(~freed /\ IterateExpire(t))
    /\ \A l \in Listeners : WF_vars(~freed /\ Listen(l))

LiveSpec == Spec /\ Fairness

-----------------------------------------------------------------------------
(* Properties *)

TypeOK ==
    /\ storage \in BOOLEAN /\ arn \in BOOLEAN
    /\ st \in States /\ result \in Results /\ retries \in 0..1
    /\ refusals \subseteq States \X States
    /\ connected \in BOOLEAN /\ shutdown \in BOOLEAN /\ deleting \in BOOLEAN
    /\ deleted \in BOOLEAN /\ refreshIce \in BOOLEAN /\ offer \in BOOLEAN
    /\ expired \in BOOLEAN /\ iceOk \in BOOLEAN /\ cached \subseteq Cacheable
    /\ stateLock \in Threads \cup {NoOne} /\ connLock \in Threads \cup {NoOne}
    /\ tracker \in Listeners \cup {0} /\ wake \in BOOLEAN /\ lterm \in BOOLEAN /\ recTerm \in BOOLEAN
    /\ ongoing \in Listeners \cup {0}
    /\ cancel \subseteq Listeners /\ ending \subseteq Listeners
    /\ lost \subseteq Listeners /\ seen \subseteq Listeners
    /\ li \in [Listeners -> {"none", "starting", "interlock", "connecting", "open", "closed",
                             "selfwait", "done"}]
    /\ th \in [Threads -> [pc : {"idle", "lock", "turn", "call", "connect", "connwait", "connfail",
                                 "offerwait", "delete", "delwait", "term", "awaitl", "awaitr", "prep",
                                 "accept", "refresh", "ret", "clear"},
                           op : Ops \cup {"none", "reconnect"}, goal : States, saved : States,
                           exec : States,
                           status : {"ok", "fail", "unauthorized", "final"}]]
    /\ freed \in BOOLEAN /\ reported \in BOOLEAN
    /\ calls \in 0..MaxCalls /\ faults \in 0..MaxFaults

\* The from functions and the table of accepted states agree: a transition is refused only on
\* leaving DISCONNECTED, which neither GET_TOKEN nor GET_ICE_CONFIG accepts, so that a client
\* that loses its connection with expired credentials cannot ask for new ones.
RefusedOnlyWhenDisconnected == \A p \in refusals : p[1] = "DISCONNECTED"

\* freeSignaling returns only after the listener it found running has ended, unless an older
\* listener freed that one's call info first (lost), which hides it from every termination.
FreedAfterListener == freed /\ lost = {} => \A l \in seen : li[l] = "done"

SelfWait == \E l \in Listeners : li[l] = "selfwait"

\* a call that waits for the listener it terminated, whose tracker's lock a newer one has taken
Overtaken(t) == th[t].pc = "awaitl" /\ tracker # 0 /\ tracker \notin cancel

\* Every call of the application returns, whatever fails and however the threads interleave,
\* unless a listener waits for itself (see OrderObeyed) or the call is overtaken by a listener
\* that a reconnection has started.
CallsReturn == \A a \in Apps : (th[a].pc # "idle") ~> (th[a].pc = "idle" \/ SelfWait \/ Overtaken(a))

\* A socket that closes under the application is replaced, or errorReportFn is told, unless
\* the application makes a call of its own in the meantime.
LossIsHandled ==
    (\E r \in Recs : th[r].pc = "clear")
        ~> (connected \/ reported \/ SelfWait \/ shutdown \/ \E a \in Apps : th[a].pc # "idle")

\* Include.h: an order to go away "moves signaling back to describe state".
OrderObeyed == SelfWait ~> st = "DESCRIBE"
=============================================================================
