-------------------------- MODULE SignalingProofs --------------------------
(***************************************************************************)
(* Proofs about Signaling for any number of application threads,           *)
(* reconnecters, web sockets, calls and faults.                            *)
(*                                                                         *)
(* RefusedOnlyWhenDisconnected is a fact about two tables and needs only   *)
(* the types.  FreedAfterListener is about three kinds of threads: that    *)
(* freeSignaling waits for the listener it found rests on who owns         *)
(* stateLock (LockInv), on which listener owns the tracker and which one   *)
(* pOngoingCallInfo names (ListenerInv), and on what freeSignaling has     *)
(* seen (FreeInv).                                                         *)
(***************************************************************************)
EXTENDS Signaling, WellFoundedInduction, TLAPS

\* program counters at which a thread is inside signalingStateMachineIterator
Holding == {"turn", "call", "connect", "connwait", "connfail", "offerwait", "delete", "delwait"}

LockInv == \A t \in Threads : th[t].pc \in Holding => stateLock = t

\* listeners that own the tracker, and listeners whose thread exists
Owning == {"interlock", "connecting", "open", "closed", "selfwait"}
Active == {l \in Listeners : li[l] \notin {"none", "done"}}

\* The owner of the tracker will find a younger connection's call info in
\* pOngoingCallInfo, and lose it.
Doomed == tracker # 0 /\ ongoing \notin {0, tracker}

ListenerInv ==
    /\ \A l \in Listeners : li[l] \in Owning <=> tracker = l
    /\ ~lterm => tracker # 0
    /\ ongoing # 0 => ongoing \in Active
    /\ lost = {} =>
         /\ ongoing = 0 => Active = {}
         /\ Doomed \/ Active \subseteq {ongoing, tracker}
         /\ tracker = 0 /\ Active # {} => ~wake /\ \E t \in Threads : th[t].pc = "connwait"

\* freeSignaling is called once, nothing is called after it, and once it is
\* past its wait the listener it has seen is over.
Freeing(t) == th[t].op = "free" /\ th[t].pc # "idle"

FreeInv ==
    /\ \A t \in Threads : Freeing(t) => shutdown /\ ~freed /\ th[t].pc \in {"term", "awaitl", "awaitr", "prep"}
    /\ \A t, u \in Threads : Freeing(t) /\ Freeing(u) => t = u
    /\ ~shutdown => seen = {} /\ ~freed
    /\ \A t \in Threads : Freeing(t) /\ th[t].pc = "term" => seen = {}
    /\ \A l \in seen : tracker = l \/ li[l] = "done"
    /\ (freed \/ \E t \in Threads : Freeing(t) /\ th[t].pc \in {"awaitr", "prep"}) /\ lost = {}
         => \A l \in seen : li[l] = "done"

SigInv == TypeOK /\ LockInv /\ ListenerInv /\ FreeInv /\ RefusedOnlyWhenDisconnected

-----------------------------------------------------------------------------
(* The two tables of the state machine                                     *)

\* What the from function of a state returns is a state, and the table accepts
\* the transition unless the machine leaves DISCONNECTED.
LEMMA NextStateAccepted ==
    ASSUME NEW s \in States, NEW r \in Results
    PROVE  /\ NextState(s, r) \in States
           /\ s # "DISCONNECTED" => s \in AcceptStates(NextState(s, r))
<1> USE DEF States, Results, Steady, Connections
<1>0. CASE s \in Steady /\ refreshIce
  <2>1. NextState(s, r) = "GET_ICE_CONFIG"
    BY <1>0 DEF NextState
  <2>2. AcceptStates("GET_ICE_CONFIG") = Connections \cup {"DESCRIBE", "DESCRIBE_MEDIA",
            "GET_ENDPOINT", "READY", "GET_ICE_CONFIG"}
    BY DEF AcceptStates
  <2> QED BY <1>0, <2>1, <2>2
<1>a. CASE ~(s \in Steady /\ refreshIce)
  <2>1. CASE s = "NEW"
    BY <1>a, <2>1 DEF NextState, AcceptStates
  <2>2. CASE s = "GET_TOKEN"
    BY <1>a, <2>2 DEF NextState, AcceptStates, fromGetToken
  <2>3. CASE s = "DESCRIBE"
    BY <1>a, <2>3 DEF NextState, AcceptStates, fromDescribe
  <2>4. CASE s = "DESCRIBE_MEDIA"
    BY <1>a, <2>4 DEF NextState, AcceptStates, fromDescribeMediaStorageConf
  <2>5. CASE s = "CREATE"
    BY <1>a, <2>5 DEF NextState, AcceptStates, fromCreate
  <2>6. CASE s = "GET_ENDPOINT"
    BY <1>a, <2>6 DEF NextState, AcceptStates, fromGetEndpoint
  <2>7. CASE s = "GET_ICE_CONFIG"
    BY <1>a, <2>7 DEF NextState, AcceptStates, fromGetIceConfig
  <2>8. CASE s = "READY"
    BY <1>a, <2>8 DEF NextState, AcceptStates, fromReady
  <2>9. CASE s = "CONNECT"
    BY <1>a, <2>9 DEF NextState, AcceptStates, fromConnect
  <2>10. CASE s = "CONNECTED"
    BY <1>a, <2>10 DEF NextState, AcceptStates, fromConnected
  <2>11. CASE s = "DISCONNECTED"
    BY <1>a, <2>11 DEF NextState, AcceptStates, fromDisconnected
  <2>12. CASE s = "JOIN_SESSION"
    BY <1>a, <2>12 DEF NextState, AcceptStates, fromJoinStorageSession
  <2>13. CASE s = "JOIN_WAITING"
    BY <1>a, <2>13 DEF NextState, AcceptStates, fromJoinStorageSessionWaiting
  <2>14. CASE s = "JOIN_CONNECTED"
    BY <1>a, <2>14 DEF NextState, AcceptStates, fromJoinStorageSessionConnected
  <2>15. CASE s = "DELETE"
    BY <1>a, <2>15 DEF NextState, AcceptStates, fromDelete
  <2>16. CASE s = "DELETED"
    BY <1>a, <2>16 DEF NextState, AcceptStates
  <2> QED BY <2>1, <2>2, <2>3, <2>4, <2>5, <2>6, <2>7, <2>8, <2>9, <2>10, <2>11, <2>12, <2>13, <2>14, <2>15, <2>16
<1> QED BY <1>0, <1>a

-----------------------------------------------------------------------------
(* Types                                                                   *)

ThreadPcs == {"idle", "lock", "turn", "call", "connect", "connwait", "connfail", "offerwait",
              "delete", "delwait", "term", "awaitl", "awaitr", "prep", "accept", "refresh",
              "ret", "clear"}

ThreadRec ==
    [pc : ThreadPcs,
     op : Ops \cup {"none", "reconnect"}, goal : States, saved : States, exec : States,
     status : {"ok", "fail", "unauthorized", "final"}]

FlagTypeA ==
    /\ connected \in BOOLEAN /\ refreshIce \in BOOLEAN /\ offer \in BOOLEAN
    /\ wake \in BOOLEAN /\ lterm \in BOOLEAN

FlagTypeB ==
    /\ shutdown \in BOOLEAN /\ deleting \in BOOLEAN /\ deleted \in BOOLEAN
    /\ recTerm \in BOOLEAN /\ freed \in BOOLEAN

FlagTypeC ==
    /\ storage \in BOOLEAN /\ arn \in BOOLEAN /\ expired \in BOOLEAN
    /\ iceOk \in BOOLEAN /\ reported \in BOOLEAN

FlagType == FlagTypeA /\ FlagTypeB /\ FlagTypeC

\* The atomics and the other flags are truth values.
LEMMA FlagsStep ==
    ASSUME TypeOK, Next
    PROVE  FlagType'
<1>a. FlagTypeA
  BY Zenon DEF TypeOK, FlagTypeA
<1>b. FlagTypeB
  BY Zenon DEF TypeOK, FlagTypeB
<1>c. FlagTypeC
  BY Zenon DEF TypeOK, FlagTypeC
<1> USE DEF flags, world, machine, locks, sockets
<1>1. CASE \E t \in Threads : Lock(t)
  BY <1>1, <1>a, <1>b, <1>c DEF FlagType, FlagTypeA, FlagTypeB, FlagTypeC,
     Lock
<1>2. CASE \E t \in Threads : IterateExit(t)
  BY <1>2, <1>a, <1>b, <1>c DEF FlagType, FlagTypeA, FlagTypeB, FlagTypeC,
     IterateExit, Leave
<1>3. CASE \E t \in Threads : IterateExpire(t)
  BY <1>3, <1>a, <1>b, <1>c DEF FlagType, FlagTypeA, FlagTypeB, FlagTypeC,
     IterateExpire, Leave
<1>4. CASE \E t \in Threads : DeleteStart(t)
  <2>1. FlagTypeA'
    BY <1>4, <1>a, Zenon DEF FlagTypeA, DeleteStart, Terminate
  <2>2. FlagTypeB'
    BY <1>4, <1>b, Zenon DEF FlagTypeB, DeleteStart, Terminate
  <2>3. FlagTypeC'
    BY <1>4, <1>c, Zenon DEF FlagTypeC, DeleteStart, Terminate
  <2> QED BY <2>1, <2>2, <2>3 DEF FlagType
<1>5. CASE \E t \in Threads : getToken(t)
  <2>1. FlagTypeA'
    BY <1>5, <1>a, Zenon DEF FlagTypeA, getToken, Succeeds, Answer
  <2>2. FlagTypeB'
    BY <1>5, <1>b, Zenon DEF FlagTypeB, getToken, Succeeds, Answer
  <2>3. FlagTypeC'
    BY <1>5, <1>c, Zenon DEF FlagTypeC, getToken, Succeeds, Answer
  <2> QED BY <2>1, <2>2, <2>3 DEF FlagType
<1>6. CASE \E t \in Threads : describeChannel(t)
  BY <1>6, <1>a, <1>b, <1>c DEF FlagType, FlagTypeA, FlagTypeB, FlagTypeC,
     describeChannel, Remembered, Succeeds, Answer
<1>7. CASE \E t \in Threads : describeMediaStorageConf(t)
  BY <1>7, <1>a, <1>b, <1>c DEF FlagType, FlagTypeA, FlagTypeB, FlagTypeC,
     describeMediaStorageConf, Remembered, Succeeds, Answer
<1>8. CASE \E t \in Threads : createChannel(t)
  BY <1>8, <1>a, <1>b, <1>c DEF FlagType, FlagTypeA, FlagTypeB, FlagTypeC,
     createChannel, Succeeds, Answer
<1>9. CASE \E t \in Threads : getChannelEndpoint(t)
  BY <1>9, <1>a, <1>b, <1>c DEF FlagType, FlagTypeA, FlagTypeB, FlagTypeC,
     getChannelEndpoint, Remembered, Succeeds, Answer
<1>10. CASE \E t \in Threads : getIceConfig(t)
  <2>1. FlagTypeA'
    BY <1>10, <1>a, Zenon DEF FlagTypeA, getIceConfig, Succeeds, Answer
  <2>2. FlagTypeB'
    BY <1>10, <1>b, Zenon DEF FlagTypeB, getIceConfig, Succeeds, Answer
  <2>3. FlagTypeC'
    BY <1>10, <1>c, Zenon DEF FlagTypeC, getIceConfig, Succeeds, Answer
  <2> QED BY <2>1, <2>2, <2>3 DEF FlagType
<1>11. CASE \E t \in Threads : joinStorageSession(t)
  <2>1. FlagTypeA'
    BY <1>11, <1>a, ZenonT(60) DEF FlagTypeA, joinStorageSession, Succeeds, Answer
  <2>2. FlagTypeB'
    BY <1>11, <1>b, ZenonT(60) DEF FlagTypeB, joinStorageSession, Succeeds, Answer
  <2>3. FlagTypeC'
    BY <1>11, <1>c, Zenon DEF FlagTypeC, joinStorageSession, Succeeds, Answer
  <2> QED BY <2>1, <2>2, <2>3 DEF FlagType
<1>12. CASE \E t \in Threads : deleteChannel(t)
  <2>1. FlagTypeA'
    BY <1>12, <1>a, ZenonT(60) DEF FlagTypeA, deleteChannel, Succeeds, Answer
  <2>2. FlagTypeB'
    BY <1>12, <1>b, Zenon DEF FlagTypeB, deleteChannel, Succeeds, Answer
  <2>3. FlagTypeC'
    BY <1>12, <1>c, Zenon DEF FlagTypeC, deleteChannel, Succeeds, Answer
  <2> QED BY <2>1, <2>2, <2>3 DEF FlagType
<1>13. CASE \E t \in Threads : CallFails(t)
  BY <1>13, <1>a, <1>b, <1>c DEF FlagType, FlagTypeA, FlagTypeB, FlagTypeC,
     CallFails, Answer
<1>14. CASE \E t \in Threads : ConnectStart(t)
  <2>1. FlagTypeA'
    BY <1>14, <1>a, Zenon DEF FlagTypeA, ConnectStart
  <2>2. FlagTypeB'
    BY <1>14, <1>b, Zenon DEF FlagTypeB, ConnectStart
  <2>3. FlagTypeC'
    BY <1>14, <1>c, Zenon DEF FlagTypeC, ConnectStart
  <2> QED BY <2>1, <2>2, <2>3 DEF FlagType
<1>15. CASE \E t \in Threads : ConnectDone(t)
  BY <1>15, <1>a, <1>b, <1>c DEF FlagType, FlagTypeA, FlagTypeB, FlagTypeC,
     ConnectDone
<1>16. CASE \E t \in Threads : ConnectTimeout(t)
  <2>1. FlagTypeA'
    BY <1>16, <1>a, Zenon DEF FlagTypeA, ConnectTimeout, Terminate
  <2>2. FlagTypeB'
    BY <1>16, <1>b, Zenon DEF FlagTypeB, ConnectTimeout, Terminate
  <2>3. FlagTypeC'
    BY <1>16, <1>c, Zenon DEF FlagTypeC, ConnectTimeout, Terminate
  <2> QED BY <2>1, <2>2, <2>3 DEF FlagType
<1>17. CASE \E t \in Threads : ConnectAbandon(t)
  BY <1>17, <1>a, <1>b, <1>c DEF FlagType, FlagTypeA, FlagTypeB, FlagTypeC,
     ConnectAbandon
<1>18. CASE \E t \in Threads : OfferWait(t)
  BY <1>18, <1>a, <1>b, <1>c DEF FlagType, FlagTypeA, FlagTypeB, FlagTypeC,
     OfferWait
<1>19. CASE \E t \in Threads : TerminateListener(t)
  <2>1. FlagTypeA'
    BY <1>19, <1>a, Zenon DEF FlagTypeA, TerminateListener, Terminate, CallUnchanged
  <2>2. FlagTypeB'
    BY <1>19, <1>b, Zenon DEF FlagTypeB, TerminateListener, Terminate, CallUnchanged
  <2>3. FlagTypeC'
    BY <1>19, <1>c, Zenon DEF FlagTypeC, TerminateListener, Terminate, CallUnchanged
  <2> QED BY <2>1, <2>2, <2>3 DEF FlagType
<1>20. CASE \E t \in Threads : Await(t)
  BY <1>20, <1>a, <1>b, <1>c DEF FlagType, FlagTypeA, FlagTypeB, FlagTypeC,
     Await, CallUnchanged
<1>21. CASE \E t \in Threads : Prepare(t)
  <2>1. FlagTypeA'
    BY <1>21, <1>a, Zenon DEF FlagTypeA, Prepare
  <2>2. FlagTypeB'
    BY <1>21, <1>b, Zenon DEF FlagTypeB, Prepare
  <2>3. FlagTypeC'
    BY <1>21, <1>c, Zenon DEF FlagTypeC, Prepare
  <2> QED BY <2>1, <2>2, <2>3 DEF FlagType
<1>22. CASE \E t \in Threads : Accept(t)
  BY <1>22, <1>a, <1>b, <1>c DEF FlagType, FlagTypeA, FlagTypeB, FlagTypeC,
     Accept, CallUnchanged
<1>23. CASE \E t \in Threads : Refresh(t)
  BY <1>23, <1>a, <1>b, <1>c DEF FlagType, FlagTypeA, FlagTypeB, FlagTypeC,
     Refresh, CallUnchanged
<1>24. CASE \E t \in Threads : Return(t)
  BY <1>24, <1>a, <1>b, <1>c DEF FlagType, FlagTypeA, FlagTypeB, FlagTypeC,
     Return
<1>25. CASE \E t \in Threads : ReconnectHandler(t)
  BY <1>25, <1>a, <1>b, <1>c DEF FlagType, FlagTypeA, FlagTypeB, FlagTypeC,
     ReconnectHandler, CallUnchanged
<1>26. CASE \E t \in Threads : IterateTurn(t)
  BY <1>26, <1>a, <1>b, <1>c DEF FlagType, FlagTypeA, FlagTypeB, FlagTypeC,
     IterateTurn, Enter, AfterStep, Leave
<1>27. CASE \E t \in Apps, op \in Ops : Call(t, op)
  <2>1. FlagTypeA'
    BY <1>27, <1>a, Zenon DEF FlagTypeA, Call, CallUnchanged
  <2>2. FlagTypeB'
    <3>1. UNCHANGED <<deleted, recTerm, freed>>
      BY <1>27, Zenon DEF Call, CallUnchanged
    <3>2. shutdown' = shutdown \/ shutdown' = TRUE
      BY <1>27, ZenonT(60) DEF Call
    <3>3. deleting' = deleting \/ deleting' = TRUE
      BY <1>27, Zenon DEF Call
    <3> QED BY <1>b, <3>1, <3>2, <3>3, Zenon DEF FlagTypeB
  <2>3. FlagTypeC'
    BY <1>27, <1>c, Zenon DEF FlagTypeC, Call, CallUnchanged
  <2> QED BY <2>1, <2>2, <2>3 DEF FlagType
<1>28. CASE \E l \in Listeners : ListenerStart(l)
  <2>1. FlagTypeA'
    BY <1>28, <1>a, Zenon DEF FlagTypeA, ListenerStart, ListenerUnchanged
  <2>2. FlagTypeB'
    BY <1>28, <1>b, Zenon DEF FlagTypeB, ListenerStart, ListenerUnchanged
  <2>3. FlagTypeC'
    BY <1>28, <1>c, Zenon DEF FlagTypeC, ListenerStart, ListenerUnchanged
  <2> QED BY <2>1, <2>2, <2>3 DEF FlagType
<1>29. CASE \E l \in Listeners : Established(l)
  <2>1. FlagTypeA'
    BY <1>29, <1>a, Zenon DEF FlagTypeA, Established, ListenerUnchanged
  <2>2. FlagTypeB'
    BY <1>29, <1>b, Zenon DEF FlagTypeB, Established, ListenerUnchanged
  <2>3. FlagTypeC'
    BY <1>29, <1>c, Zenon DEF FlagTypeC, Established, ListenerUnchanged
  <2> QED BY <2>1, <2>2, <2>3 DEF FlagType
<1>30. CASE \E l \in Listeners : Cancelled(l)
  BY <1>30, <1>a, <1>b, <1>c DEF FlagType, FlagTypeA, FlagTypeB, FlagTypeC,
     Cancelled, ListenerUnchanged
<1>31. CASE \E l \in Listeners : ListenerEnd(l)
  <2>1. FlagTypeA'
    BY <1>31, <1>a, Zenon DEF FlagTypeA, ListenerEnd, ListenerUnchanged
  <2>2. FlagTypeB'
    BY <1>31, <1>b, Zenon DEF FlagTypeB, ListenerEnd, ListenerUnchanged
  <2>3. FlagTypeC'
    BY <1>31, <1>c, Zenon DEF FlagTypeC, ListenerEnd, ListenerUnchanged
  <2> QED BY <2>1, <2>2, <2>3 DEF FlagType
<1>32. CASE \E l \in Listeners : ConnectionError(l)
  <2>1. FlagTypeA'
    BY <1>32, <1>a, Zenon DEF FlagTypeA, ConnectionError, StartReconnecter, ListenerUnchanged
  <2>2. FlagTypeB'
    BY <1>32, <1>b, Zenon DEF FlagTypeB, ConnectionError, StartReconnecter, ListenerUnchanged
  <2>3. FlagTypeC'
    BY <1>32, <1>c, Zenon DEF FlagTypeC, ConnectionError, StartReconnecter, ListenerUnchanged
  <2> QED BY <2>1, <2>2, <2>3 DEF FlagType
<1>33. CASE \E l \in Listeners : Offer(l)
  <2>1. FlagTypeA'
    BY <1>33, <1>a, Zenon DEF FlagTypeA, Offer, ListenerUnchanged
  <2>2. FlagTypeB'
    BY <1>33, <1>b, Zenon DEF FlagTypeB, Offer, ListenerUnchanged
  <2>3. FlagTypeC'
    BY <1>33, <1>c, Zenon DEF FlagTypeC, Offer, ListenerUnchanged
  <2> QED BY <2>1, <2>2, <2>3 DEF FlagType
<1>34. CASE \E l \in Listeners, peer \in BOOLEAN : Closed(l, peer)
  <2>1. FlagTypeA'
    BY <1>34, <1>a, Zenon DEF FlagTypeA, Closed, StartReconnecter, ListenerUnchanged
  <2>2. FlagTypeB'
    BY <1>34, <1>b, ZenonT(60) DEF FlagTypeB, Closed, StartReconnecter, ListenerUnchanged
  <2>3. FlagTypeC'
    BY <1>34, <1>c, Zenon DEF FlagTypeC, Closed, StartReconnecter, ListenerUnchanged
  <2> QED BY <2>1, <2>2, <2>3 DEF FlagType
<1>35. CASE \E l \in Listeners, o \in Orders : Order(l, o)
  <2>1. FlagTypeA'
    BY <1>35, <1>a, Zenon DEF FlagTypeA, Order, Terminate, ListenerUnchanged
  <2>2. FlagTypeB'
    BY <1>35, <1>b, Zenon DEF FlagTypeB, Order, Terminate, ListenerUnchanged
  <2>3. FlagTypeC'
    BY <1>35, <1>c, Zenon DEF FlagTypeC, Order, Terminate, ListenerUnchanged
  <2> QED BY <2>1, <2>2, <2>3 DEF FlagType
<1>36. CASE Expire
  <2>1. FlagTypeA'
    BY <1>36, <1>a, Zenon DEF FlagTypeA, Expire
  <2>2. FlagTypeB'
    BY <1>36, <1>b, Zenon DEF FlagTypeB, Expire
  <2>3. FlagTypeC'
    BY <1>36, <1>c, Zenon DEF FlagTypeC, Expire
  <2> QED BY <2>1, <2>2, <2>3 DEF FlagType
<1> QED
  BY <1>1, <1>2, <1>3, <1>4, <1>5, <1>6, <1>7, <1>8, <1>9, <1>10, <1>11, <1>12,
     <1>13, <1>14, <1>15, <1>16, <1>17, <1>18, <1>19, <1>20, <1>21, <1>22, <1>23, <1>24,
     <1>25, <1>26, <1>27, <1>28, <1>29, <1>30, <1>31, <1>32, <1>33, <1>34, <1>35, <1>36, Zenon
     DEF Next, Drive, Listen

MachineType ==
    /\ st \in States /\ result \in Results /\ retries \in 0..1
    /\ refusals \subseteq States \X States
    /\ cached \subseteq Cacheable
    /\ stateLock \in Threads \cup {NoOne} /\ connLock \in Threads \cup {NoOne}
    /\ th \in [Threads -> ThreadRec]
    /\ calls \in 0..MaxCalls /\ faults \in 0..MaxFaults

SocketType ==
    /\ tracker \in Listeners \cup {0} /\ ongoing \in Listeners \cup {0}
    /\ cancel \subseteq Listeners /\ ending \subseteq Listeners
    /\ lost \subseteq Listeners /\ seen \subseteq Listeners
    /\ li \in [Listeners -> {"none", "starting", "interlock", "connecting", "open", "closed",
                             "selfwait", "done"}]

\* The type invariant, put together.
LEMMA TypeParts ==
    /\ TypeOK => FlagType /\ MachineType /\ SocketType
    /\ FlagType /\ MachineType /\ SocketType => TypeOK
    /\ (FlagType /\ MachineType /\ SocketType)' => TypeOK'
BY Zenon DEF TypeOK, FlagType, FlagTypeA, FlagTypeB, FlagTypeC, MachineType, SocketType, ThreadRec, ThreadPcs

\* A set of listeners that is not empty has a lowest one.
LEMMA LowestExists ==
    ASSUME NEW S \in SUBSET Listeners, S # {}
    PROVE  \E s \in S : \A t \in S : s <= t
<1> DEFINE R == {ss \in Nat \X Nat : ss[1] < ss[2]}
<1>1. IsWellFoundedOn(R, Nat)
  BY NatLessThanWellFounded, Zenon DEF OpToRel
<1>2. S \subseteq Nat
  BY SignalingAssumption DEF Listeners
<1> HIDE DEF R
<1>3. PICK x \in S : \A y \in S : ~ (<<y, x>> \in R)
  BY <1>1, <1>2, WFMin
<1>4. \A y \in S : ~(y < x)
  BY <1>2, <1>3 DEF R
<1> QED BY <1>2, <1>4

\* What connectSignalingChannelLws starts: a listener that was never used.
LEMMA ConnectStarts ==
    ASSUME NEW t \in Threads, ConnectStart(t), ~connected, Unused # {}
    PROVE  \E l \in Unused :
             /\ li' = [li EXCEPT ![l] = "starting"] /\ ongoing' = l
             /\ result' = "NOT_SET" /\ wake' = FALSE /\ Go(t, "connwait")
<1>1. Unused \in SUBSET Listeners
  BY DEF Unused
<1>2. \E s \in Unused : \A k \in Unused : s <= k
  BY <1>1, LowestExists
<1>3. (CHOOSE l \in Unused : \A k \in Unused : l <= k) \in Unused
  BY <1>2
<1>4. LET l == CHOOSE l \in Unused : \A k \in Unused : l <= k
      IN  li' = [li EXCEPT ![l] = "starting"] /\ ongoing' = l
  BY DEF ConnectStart
<1>5. result' = "NOT_SET" /\ wake' = FALSE /\ Go(t, "connwait")
  BY DEF ConnectStart
<1> QED BY <1>3, <1>4, <1>5

\* A thread without a call.
LEMMA IdleType == Idle \in ThreadRec
<1>1. "NEW" \in States
  BY DEF States
<1> QED BY <1>1 DEF Idle, ThreadRec, ThreadPcs

\* Moving a thread on keeps its record one.
LEMMA GoTypes ==
    ASSUME MachineType, NEW t \in Threads, NEW pc \in ThreadPcs,
           NEW status \in {"ok", "fail", "unauthorized", "final"}
    PROVE  /\ Go(t, pc) => th' \in [Threads -> ThreadRec]
           /\ GoStatus(t, pc, status) => th' \in [Threads -> ThreadRec]
<1>1. th \in [Threads -> ThreadRec] /\ th[t] \in ThreadRec
  BY DEF MachineType
<1>2. /\ [th[t] EXCEPT !.pc = pc] \in ThreadRec
      /\ [th[t] EXCEPT !.pc = pc, !.status = status] \in ThreadRec
  BY <1>1 DEF ThreadRec
<1>3. Go(t, pc) => th' \in [Threads -> ThreadRec]
  BY <1>1, <1>2 DEF Go
<1>4. GoStatus(t, pc, status) => th' = [th EXCEPT ![t] = [th[t] EXCEPT !.pc = pc, !.status = status]]
  BY <1>1 DEF GoStatus
<1> QED BY <1>1, <1>2, <1>3, <1>4

\* The steps of a thread that drives the machine.
LEMMA MachineThreads ==
    ASSUME TypeOK, NEW t \in Threads, Drive(t) \/ IterateExpire(t) \/ ConnectTimeout(t) \/ CallFails(t)
    PROVE  MachineType' /\ SocketType'
<1>0. MachineType /\ SocketType
  BY TypeParts
<1> USE <1>0, SignalingAssumption DEF MachineType, SocketType, flags, world, machine, locks, sockets
<1>a. \A pc \in ThreadPcs, status \in {"ok", "fail", "unauthorized", "final"} :
        /\ Go(t, pc) => th' \in [Threads -> ThreadRec]
        /\ GoStatus(t, pc, status) => th' \in [Threads -> ThreadRec]
  BY GoTypes
<1>b. th[t] \in ThreadRec /\ th[t].status \in {"ok", "fail", "unauthorized", "final"}
  BY DEF ThreadRec
<1> USE <1>a, <1>b DEF ThreadPcs
<1>1. CASE Lock(t)
  BY <1>1 DEF Lock, Results
<1>2. CASE IterateExit(t)
  BY <1>2 DEF IterateExit, Leave, Results
<1>3. CASE IterateExpire(t)
  BY <1>3 DEF IterateExpire, Leave, Results
<1>4. CASE DeleteStart(t)
  BY <1>4 DEF DeleteStart, Terminate, Results
<1>5. CASE getToken(t)
  BY <1>5 DEF getToken, Succeeds, Answer, Results
<1>6. CASE describeChannel(t)
  BY <1>6 DEF describeChannel, Remembered, Succeeds, Answer, Results, Cacheable
<1>7. CASE describeMediaStorageConf(t)
  BY <1>7 DEF describeMediaStorageConf, Remembered, Succeeds, Answer, Results, Cacheable
<1>8. CASE createChannel(t)
  BY <1>8 DEF createChannel, Succeeds, Answer, Results
<1>9. CASE getChannelEndpoint(t)
  BY <1>9 DEF getChannelEndpoint, Remembered, Succeeds, Answer, Results, Cacheable
<1>10. CASE getIceConfig(t)
  BY <1>10 DEF getIceConfig, Succeeds, Answer, Results
<1>11. CASE joinStorageSession(t)
  BY <1>11 DEF joinStorageSession, Succeeds, Answer, Results
<1>12. CASE deleteChannel(t)
  BY <1>12 DEF deleteChannel, Succeeds, Answer, Results
<1>13. CASE CallFails(t)
  BY <1>13 DEF CallFails, Answer, Results, Refusals
<1>14. CASE ConnectDone(t)
  BY <1>14 DEF ConnectDone, Results
<1>15. CASE ConnectTimeout(t)
  BY <1>15 DEF ConnectTimeout, Terminate, Results
<1>16. CASE ConnectAbandon(t)
  BY <1>16 DEF ConnectAbandon, Results
<1>17. CASE OfferWait(t)
  BY <1>17 DEF OfferWait, Results
<1>18. CASE TerminateListener(t)
  BY <1>18 DEF TerminateListener, Terminate, CallUnchanged, Results
<1>19. CASE Await(t)
  BY <1>19 DEF Await, CallUnchanged, Results
<1>20. CASE Prepare(t)
  BY <1>20 DEF Prepare, Results, States, Goal
<1>21. CASE Accept(t)
  <2>1. [th[t] EXCEPT !.pc = IF th[t].op = "connect" THEN "lock" ELSE "refresh", !.saved = st] \in ThreadRec
    BY ZenonT(60) DEF ThreadRec
  <2>2. \/ \E w \in ThreadRec : th' = [th EXCEPT ![t] = w]
        \/ Go(t, "idle")
    BY <1>21, <2>1 DEF Accept
  <2>3. th' \in [Threads -> ThreadRec]
    BY <2>2
  <2> QED BY <1>21, <2>3 DEF Accept, CallUnchanged
<1>22. CASE Refresh(t)
  <2>1. [th[t] EXCEPT !.pc = "turn", !.goal = st, !.saved = st, !.status = "ok"] \in ThreadRec
    BY DEF ThreadRec
  <2>2. \/ \E w \in ThreadRec : th' = [th EXCEPT ![t] = w]
        \/ Go(t, "idle")
    BY <1>22, <2>1, ZenonT(60) DEF Refresh
  <2>3. th' \in [Threads -> ThreadRec]
    BY <2>2
  <2> QED BY <1>22, <2>3 DEF Refresh, CallUnchanged, Results
<1>23. CASE Return(t)
  <2>1. Idle \in ThreadRec /\ th[t].saved \in States
    BY IdleType DEF ThreadRec
  <2>2. th' \in [Threads -> ThreadRec]
    BY <1>23, <2>1, SMTT(60) DEF Return
  <2> QED BY <1>23, <2>1, <2>2 DEF Return
<1>24. CASE ReconnectHandler(t)
  <2>1. [th[t] EXCEPT !.pc = IF shutdown THEN "ret" ELSE "lock", !.goal = Goal] \in ThreadRec
    <3>1. Goal \in States /\ (IF shutdown THEN "ret" ELSE "lock") \in ThreadPcs
      BY DEF Goal, States
    <3> QED BY <3>1, ZenonT(60) DEF ThreadRec
  <2>2. th' = [th EXCEPT ![t] = [th[t] EXCEPT !.pc = IF shutdown THEN "ret" ELSE "lock", !.goal = Goal]]
    BY <1>24 DEF ReconnectHandler
  <2>3. th' \in [Threads -> ThreadRec]
    BY <2>1, <2>2
  <2> QED BY <1>24, <2>3 DEF ReconnectHandler, CallUnchanged
<1>25. CASE ConnectStart(t)
  <2>1. CASE ~connected /\ Unused # {}
    <3>1. PICK l \in Unused : /\ li' = [li EXCEPT ![l] = "starting"] /\ ongoing' = l
                              /\ result' = "NOT_SET" /\ Go(t, "connwait")
      BY <1>25, <2>1, ConnectStarts
    <3>2. l \in Listeners /\ th' \in [Threads -> ThreadRec]
      BY <3>1 DEF Unused
    <3> QED BY <1>25, <3>1, <3>2 DEF ConnectStart, Results
  <2>2. CASE connected \/ Unused = {}
    BY <1>25, <2>2 DEF ConnectStart, Results
  <2> QED BY <2>1, <2>2
<1>26. CASE IterateTurn(t)
  <2> DEFINE r == IF th[t].status = "unauthorized" \/ expired THEN "NOT_AUTHORIZED" ELSE result
             s == NextState(st, r)
  <2>1. r \in Results
    BY DEF Results
  <2>2. s \in States
    BY <2>1, NextStateAccepted
  <2>3. /\ cached' = cached \/ cached' = {}
        /\ UNCHANGED <<connLock, sockets, tracker, calls, faults>>
        /\ \/ /\ result' = r /\ refusals' = refusals \cup {<<st, s>>}
              /\ AfterStep(t, st, "fail") /\ UNCHANGED <<st, retries>>
           \/ /\ result' = r /\ AfterStep(t, st, "final") /\ UNCHANGED <<st, retries, refusals>>
           \/ ~Exhausted(s) /\ Enter(t, s, r) /\ UNCHANGED refusals
    BY <1>26 DEF IterateTurn
  <2> HIDE DEF r, s
  <2>4. SocketType' /\ (cached \subseteq Cacheable)'
    BY <2>3
  <2>5. CASE \/ /\ result' = r /\ refusals' = refusals \cup {<<st, s>>}
                /\ AfterStep(t, st, "fail") /\ UNCHANGED <<st, retries>>
             \/ /\ result' = r /\ AfterStep(t, st, "final") /\ UNCHANGED <<st, retries, refusals>>
    BY <2>1, <2>2, <2>3, <2>4, <2>5 DEF AfterStep, Leave
  <2>6. CASE ~Exhausted(s) /\ Enter(t, s, r) /\ UNCHANGED refusals
    <3>1. st' \in States /\ retries' \in 0..1
      BY <2>2, <2>6 DEF Enter, Exhausted
    <3>2. result' \in Results
      BY <2>1, <2>6 DEF Enter, Results
    <3>3. th' \in [Threads -> ThreadRec] /\ stateLock' \in Threads \cup {NoOne}
      <4>1. CASE s \in Calling /\ th' = [th EXCEPT ![t].pc = IF s = "DELETE" THEN "delete" ELSE "call",
                                                  ![t].exec = s, ![t].status = "ok"]
                 /\ UNCHANGED stateLock
        <5>1. [th[t] EXCEPT !.pc = IF s = "DELETE" THEN "delete" ELSE "call", !.exec = s, !.status = "ok"]
                \in ThreadRec
          BY <2>2, ZenonT(60) DEF ThreadRec
        <5>2. th' = [th EXCEPT ![t] = [th[t] EXCEPT !.pc = IF s = "DELETE" THEN "delete" ELSE "call",
                                                   !.exec = s, !.status = "ok"]]
          BY <4>1
        <5>3. th' \in [Threads -> ThreadRec]
          BY <5>1, <5>2
        <5> QED BY <4>1, <5>3
      <4>2. CASE AfterStep(t, s, "ok")
        BY <4>2 DEF AfterStep, Leave
      <4>3. CASE GoStatus(t, IF s = "CONNECT" THEN "connect" ELSE "offerwait", "ok") /\ UNCHANGED stateLock
        BY <4>3
      <4> QED BY <2>6, <4>1, <4>2, <4>3, SMTT(60) DEF Enter
    <3> QED BY <2>3, <2>4, <2>6, <3>1, <3>2, <3>3
  <2> QED BY <2>3, <2>5, <2>6
<1> QED
  BY <1>1, <1>2, <1>3, <1>4, <1>5, <1>6, <1>7, <1>8, <1>9, <1>10, <1>11, <1>12,
     <1>13, <1>14, <1>15, <1>16, <1>17, <1>18, <1>19, <1>20, <1>21, <1>22, <1>23, <1>24,
     <1>25, <1>26 DEF Drive

\* The calls, the listeners and the clock.
LEMMA MachineOthers ==
    ASSUME TypeOK,
           \/ \E t \in Apps, op \in Ops : Call(t, op)
           \/ \E l \in Listeners : Listen(l) \/ ConnectionError(l) \/ Offer(l)
           \/ \E l \in Listeners, peer \in BOOLEAN : Closed(l, peer)
           \/ \E l \in Listeners, o \in Orders : Order(l, o)
           \/ Expire
    PROVE  MachineType' /\ SocketType'
<1>0. MachineType /\ SocketType
  BY TypeParts
<1>a. Idle \in ThreadRec /\ Apps \subseteq Threads /\ Recs \subseteq Threads
  BY IdleType DEF Threads
<1>b. StartReconnecter => th' \in [Threads -> ThreadRec]
  <2> SUFFICES ASSUME StartReconnecter, {r \in Recs : th[r].pc = "idle"} # {}
               PROVE  th' \in [Threads -> ThreadRec]
    BY <1>0 DEF StartReconnecter, MachineType
  <2>1. [Idle EXCEPT !.pc = "clear", !.op = "reconnect"] \in ThreadRec
    BY <1>a, ZenonT(60) DEF ThreadRec, ThreadPcs
  <2> QED BY <1>0, <2>1 DEF StartReconnecter, MachineType
<1> USE <1>0, SignalingAssumption DEF MachineType, SocketType, flags, world, machine, locks, sockets,
        ListenerUnchanged
<1>1. CASE \E t \in Apps, op \in Ops : Call(t, op)
  <2>1. PICK t \in Apps, op \in Ops : Call(t, op)
    BY <1>1, SMTT(60)
  <2>2. \E w \in ThreadRec : th' = [th EXCEPT ![t] = w]
    <3>1. \A pc \in ThreadPcs, g \in States :
            /\ [Idle EXCEPT !.pc = pc, !.op = op, !.goal = g] \in ThreadRec
            /\ [Idle EXCEPT !.pc = pc, !.op = op] \in ThreadRec
      BY <1>a DEF ThreadRec
    <3>2. /\ {"prep", "term", "accept"} \subseteq ThreadPcs
          /\ {"READY", "DELETED", Goal} \subseteq States
      BY DEF ThreadPcs, States, Goal
    <3> QED BY <2>1, <3>1, <3>2 DEF Call
  <2>3. th' \in [Threads -> ThreadRec]
    BY <1>a, <2>2
  <2>4. calls' \in 0..MaxCalls
    <3>1. calls < MaxCalls /\ calls' = calls + 1
      BY <2>1, Zenon DEF Call
    <3> QED BY <3>1
  <2> QED BY <2>1, <2>3, <2>4 DEF Call, CallUnchanged
<1>2. CASE \E l \in Listeners : ListenerStart(l)
  BY <1>2 DEF ListenerStart
<1>3. CASE \E l \in Listeners : Established(l)
  BY <1>3 DEF Established, Results
<1>4. CASE \E l \in Listeners : Cancelled(l)
  BY <1>4 DEF Cancelled
<1>5. CASE \E l \in Listeners : ListenerEnd(l)
  BY <1>5 DEF ListenerEnd, Results
<1>6. CASE \E l \in Listeners : ConnectionError(l)
  BY <1>6, <1>b DEF ConnectionError, Results, Heeded
<1>7. CASE \E l \in Listeners : Offer(l)
  BY <1>7 DEF Offer
<1>8. CASE \E l \in Listeners, peer \in BOOLEAN : Closed(l, peer)
  BY <1>8, <1>b DEF Closed, Results, Heeded
<1>9. CASE \E l \in Listeners, o \in Orders : Order(l, o)
  BY <1>9 DEF Order, Terminate, Results
<1>10. CASE Expire
  BY <1>10 DEF Expire
<1> QED
  BY <1>1, <1>2, <1>3, <1>4, <1>5, <1>6, <1>7, <1>8, <1>9, <1>10 DEF Listen

-----------------------------------------------------------------------------
(* stateLock                                                               *)

\* A step of thread t: nobody else moves, and t is inside the iterator only
\* with the lock.
MovesOnly(t) == \A u \in Threads \ {t} : th'[u] = th[u]

Locks(t) ==
    /\ MovesOnly(t)
    /\ th'[t].pc \in Holding => stateLock' = t
    /\ stateLock' = stateLock \/ stateLock \in {NoOne, t}

\* A field of a thread record after Go and GoStatus.
LEMMA GoFields ==
    ASSUME MachineType, NEW t \in Threads, NEW pc, NEW status
    PROVE  /\ Go(t, pc) => MovesOnly(t) /\ th'[t].pc = pc /\ th'[t].op = th[t].op
           /\ GoStatus(t, pc, status) => MovesOnly(t) /\ th'[t].pc = pc /\ th'[t].op = th[t].op
<1>1. th \in [Threads -> ThreadRec] /\ th[t] \in ThreadRec
  BY DEF MachineType
<1>2. Go(t, pc) => MovesOnly(t) /\ th'[t].pc = pc /\ th'[t].op = th[t].op
  BY <1>1 DEF Go, MovesOnly, ThreadRec
<1>3. GoStatus(t, pc, status) => MovesOnly(t) /\ th'[t].pc = pc /\ th'[t].op = th[t].op
  BY <1>1 DEF GoStatus, MovesOnly, ThreadRec
<1> QED BY <1>2, <1>3

\* Every step of a thread is such a step, and leaves the thread its operation
\* unless the call is over.
LEMMA ThreadMoves ==
    ASSUME TypeOK, LockInv, NEW t \in Threads,
           Drive(t) \/ IterateExpire(t) \/ ConnectTimeout(t) \/ CallFails(t)
    PROVE  Locks(t) /\ th'[t].op \in {th[t].op, "none"} /\ th[t].pc # "idle"
<1>0. MachineType /\ th \in [Threads -> ThreadRec] /\ th[t] \in ThreadRec /\ t # NoOne
  BY TypeParts, SignalingAssumption DEF MachineType, Threads
<1>a. \A pc, status :
         /\ Go(t, pc) => MovesOnly(t) /\ th'[t].pc = pc /\ th'[t].op = th[t].op
         /\ GoStatus(t, pc, status) => MovesOnly(t) /\ th'[t].pc = pc /\ th'[t].op = th[t].op
  BY <1>0, GoFields
<1>b. th[t].pc \in Holding => stateLock = t
  BY DEF LockInv
<1> USE <1>0, <1>a, <1>b DEF Locks, Holding, flags, world, machine, locks, sockets
<1>1. CASE Lock(t)
  BY <1>1 DEF Lock
<1>2. CASE IterateExit(t)
  BY <1>2 DEF IterateExit, Leave
<1>3. CASE IterateExpire(t)
  BY <1>3 DEF IterateExpire, Leave
<1>4. CASE DeleteStart(t)
  BY <1>4 DEF DeleteStart, Terminate
<1>5. CASE getToken(t)
  BY <1>5 DEF getToken, Succeeds, Answer
<1>6. CASE describeChannel(t)
  BY <1>6 DEF describeChannel, Remembered, Succeeds, Answer
<1>7. CASE describeMediaStorageConf(t)
  BY <1>7 DEF describeMediaStorageConf, Remembered, Succeeds, Answer
<1>8. CASE createChannel(t)
  BY <1>8 DEF createChannel, Succeeds, Answer
<1>9. CASE getChannelEndpoint(t)
  BY <1>9 DEF getChannelEndpoint, Remembered, Succeeds, Answer
<1>10. CASE getIceConfig(t)
  BY <1>10 DEF getIceConfig, Succeeds, Answer
<1>11. CASE joinStorageSession(t)
  BY <1>11 DEF joinStorageSession, Succeeds, Answer
<1>12. CASE deleteChannel(t)
  BY <1>12 DEF deleteChannel, Succeeds, Answer
<1>13. CASE CallFails(t)
  BY <1>13 DEF CallFails, Answer
<1>14. CASE ConnectDone(t)
  BY <1>14 DEF ConnectDone
<1>15. CASE ConnectTimeout(t)
  BY <1>15 DEF ConnectTimeout, Terminate
<1>16. CASE ConnectAbandon(t)
  BY <1>16 DEF ConnectAbandon
<1>17. CASE OfferWait(t)
  BY <1>17 DEF OfferWait
<1>18. CASE TerminateListener(t)
  <2>1. /\ th[t].pc = "term" /\ UNCHANGED stateLock
        /\ Go(t, "awaitl") \/ Go(t, "awaitr")
    BY <1>18, Zenon DEF TerminateListener
  <2> QED BY <2>1
<1>19. CASE Await(t)
  <2>1. /\ th[t].pc \in {"awaitl", "awaitr"} /\ UNCHANGED stateLock
        /\ Go(t, "awaitr") \/ Go(t, "prep")
    BY <1>19, Zenon DEF Await
  <2> QED BY <2>1
<1>20. CASE Prepare(t)
  <2>1. /\ th[t].pc = "prep" /\ UNCHANGED stateLock
        /\ Go(t, "lock") \/ Go(t, "idle")
    BY <1>20, Zenon DEF Prepare, locks
  <2> QED BY <2>1
<1>21. CASE ConnectStart(t)
  <2>1. \/ GoStatus(t, "turn", "ok") \/ Go(t, "connwait") \/ GoStatus(t, "turn", "fail")
    BY <1>21 DEF ConnectStart
  <2> QED BY <1>21, <2>1 DEF ConnectStart
<1>22. CASE Accept(t)
  <2>1. \/ th' = [th EXCEPT ![t].pc = IF th[t].op = "connect" THEN "lock" ELSE "refresh", ![t].saved = st]
        \/ Go(t, "idle")
    BY <1>22 DEF Accept
  <2>2. MovesOnly(t) /\ th'[t].pc \notin Holding /\ th'[t].op = th[t].op
    BY <2>1 DEF MovesOnly, ThreadRec
  <2> QED BY <1>22, <2>2 DEF Accept
<1>23. CASE Refresh(t)
  <2>1. /\ stateLock = NoOne /\ th[t].pc = "refresh"
        /\ \/ /\ th' = [th EXCEPT ![t].pc = "turn", ![t].goal = st, ![t].saved = st, ![t].status = "ok"]
              /\ stateLock' = t
           \/ Go(t, "idle") /\ UNCHANGED stateLock
    BY <1>23 DEF Refresh
  <2>2. CASE /\ th' = [th EXCEPT ![t].pc = "turn", ![t].goal = st, ![t].saved = st, ![t].status = "ok"]
             /\ stateLock' = t
    <3>1. MovesOnly(t) /\ th'[t].op = th[t].op
      BY <2>2 DEF MovesOnly, ThreadRec
    <3> QED BY <2>1, <2>2, <3>1
  <2>3. CASE Go(t, "idle") /\ UNCHANGED stateLock
    BY <2>1, <2>3, SMTT(60)
  <2> QED BY <2>1, <2>2, <2>3
<1>24. CASE Return(t)
  <2>1. MovesOnly(t) /\ th'[t] = Idle
    BY <1>24 DEF MovesOnly, Return
  <2> QED BY <1>24, <2>1 DEF Idle, Return
<1>25. CASE ReconnectHandler(t)
  <2>1. th' = [th EXCEPT ![t].pc = IF shutdown THEN "ret" ELSE "lock", ![t].goal = Goal]
    BY <1>25 DEF ReconnectHandler
  <2>2. MovesOnly(t) /\ th'[t].pc \notin Holding /\ th'[t].op = th[t].op
    BY <2>1 DEF MovesOnly, ThreadRec
  <2> QED BY <1>25, <2>2 DEF ReconnectHandler
<1>26. CASE IterateTurn(t)
  <2>1. PICK s, status :
          /\ th[t].pc = "turn"
          /\ \/ AfterStep(t, s, status)
             \/ /\ UNCHANGED stateLock
                /\ \/ GoStatus(t, IF s = "CONNECT" THEN "connect" ELSE "offerwait", "ok")
                   \/ th' = [th EXCEPT ![t].pc = IF s = "DELETE" THEN "delete" ELSE "call",
                                      ![t].exec = s, ![t].status = "ok"]
    BY <1>26, Zenon DEF IterateTurn, Enter
  <2>2. CASE AfterStep(t, s, status)
    BY <2>1, <2>2 DEF AfterStep, Leave
  <2>3. CASE UNCHANGED stateLock /\ GoStatus(t, IF s = "CONNECT" THEN "connect" ELSE "offerwait", "ok")
    BY <2>1, <2>3
  <2>4. CASE /\ UNCHANGED stateLock
             /\ th' = [th EXCEPT ![t].pc = IF s = "DELETE" THEN "delete" ELSE "call",
                                ![t].exec = s, ![t].status = "ok"]
    <3>1. MovesOnly(t) /\ th'[t].op = th[t].op
      BY <2>4 DEF MovesOnly, ThreadRec
    <3> QED BY <2>1, <2>4, <3>1
  <2> QED BY <2>1, <2>2, <2>3, <2>4
<1> QED
  BY <1>1, <1>2, <1>3, <1>4, <1>5, <1>6, <1>7, <1>8, <1>9, <1>10, <1>11, <1>12,
     <1>13, <1>14, <1>15, <1>16, <1>17, <1>18, <1>19, <1>20, <1>21, <1>22, <1>23, <1>24,
     <1>25, <1>26 DEF Drive

\* A call begins: one idle thread gets an operation.
LEMMA CallMoves ==
    ASSUME TypeOK, NEW t \in Apps, NEW op \in Ops, Call(t, op)
    PROVE  /\ t \in Threads /\ MovesOnly(t)
           /\ th[t].pc = "idle" /\ th'[t].op = op
           /\ th'[t].pc \in {"term", "prep", "accept"}
           /\ op = "free" => th'[t].pc = "term"
           /\ UNCHANGED <<stateLock, sockets, tracker, freed>>
           /\ ~shutdown
           /\ op # "free" => ~shutdown'
           /\ op = "free" => shutdown'
<1>0. MachineType /\ th \in [Threads -> ThreadRec] /\ t \in Threads
  BY TypeParts DEF MachineType, Threads
<1>1. PICK pc \in {"term", "prep", "accept"} :
        /\ \/ \E g : th' = [th EXCEPT ![t] = [Idle EXCEPT !.pc = pc, !.op = op, !.goal = g]]
           \/ th' = [th EXCEPT ![t] = [Idle EXCEPT !.pc = pc, !.op = op]]
        /\ op = "free" => pc = "term"
  <2>1. CASE op = "fetch"
    <3>1. th' = [th EXCEPT ![t] = [Idle EXCEPT !.pc = IF connected THEN "term" ELSE "prep",
                                     !.op = op, !.goal = "READY"]]
      BY <2>1 DEF Call
    <3> QED BY <2>1, <3>1
  <2>2. CASE op = "connect"
    <3>1. th' = [th EXCEPT ![t] = [Idle EXCEPT !.pc = "accept", !.op = op, !.goal = Goal]]
      BY <2>2 DEF Call
    <3> QED BY <2>2, <3>1
  <2>3. CASE op = "disconnect"
    <3>1. th' = [th EXCEPT ![t] = [Idle EXCEPT !.pc = "term", !.op = op, !.goal = "READY"]]
      BY <2>3 DEF Call
    <3> QED BY <2>3, <3>1
  <2>4. CASE op = "delete"
    <3>1. th' = [th EXCEPT ![t] = [Idle EXCEPT !.pc = "term", !.op = op, !.goal = "DELETED"]]
      BY <2>4 DEF Call
    <3> QED BY <2>4, <3>1
  <2>5. CASE op = "refresh"
    <3>1. th' = [th EXCEPT ![t] = [Idle EXCEPT !.pc = "accept", !.op = op]]
      BY <2>5 DEF Call
    <3> QED BY <2>5, <3>1
  <2>6. CASE op = "free"
    <3>1. th' = [th EXCEPT ![t] = [Idle EXCEPT !.pc = "term", !.op = op]]
      BY <2>6 DEF Call
    <3> QED BY <2>6, <3>1
  <2> QED BY <2>1, <2>2, <2>3, <2>4, <2>5, <2>6 DEF Ops
<1>2. MovesOnly(t) /\ th'[t].op = op /\ th'[t].pc = pc
  BY <1>0, <1>1 DEF MovesOnly, Idle
<1>3. UNCHANGED <<stateLock, sockets, tracker, freed>> /\ ~shutdown /\ th[t].pc = "idle"
  BY Zenon DEF Call, CallUnchanged
<1>4. (op # "free" => ~shutdown') /\ (op = "free" => shutdown')
  BY <1>3 DEF Call
<1> QED BY <1>0, <1>1, <1>2, <1>3, <1>4

\* Two threads are never inside the iterator at once.
LEMMA LockStep ==
    ASSUME TypeOK, LockInv, Next
    PROVE  LockInv'
<1>0. MachineType /\ th \in [Threads -> ThreadRec] /\ NoOne \notin Threads
  BY TypeParts, SignalingAssumption DEF MachineType, Threads
<1>1. CASE \E t \in Threads : Drive(t) \/ IterateExpire(t) \/ ConnectTimeout(t) \/ CallFails(t)
  <2>1. PICK t \in Threads : Locks(t)
    BY <1>1, ThreadMoves
  <2> QED BY <1>0, <2>1 DEF LockInv, Locks, MovesOnly
<1>2. CASE \E t \in Apps, op \in Ops : Call(t, op)
  <2>1. PICK t \in Apps, op \in Ops : Call(t, op)
    BY <1>2
  <2>2. t \in Threads /\ MovesOnly(t) /\ th'[t].pc \in {"term", "prep", "accept"} /\ UNCHANGED stateLock
    BY <1>0, <2>1, CallMoves
  <2> QED BY <2>2 DEF LockInv, Holding, MovesOnly
<1>3. CASE \/ \E l \in Listeners : Listen(l) \/ ConnectionError(l) \/ Offer(l)
           \/ \E l \in Listeners, peer \in BOOLEAN : Closed(l, peer)
           \/ \E l \in Listeners, o \in Orders : Order(l, o)
           \/ Expire
  <2>1. UNCHANGED stateLock /\ (UNCHANGED th \/ StartReconnecter)
    BY <1>3 DEF Listen, ListenerStart, Established, Cancelled, ListenerEnd, ConnectionError, Offer,
                Closed, Order, Expire, ListenerUnchanged, locks
  <2>2. \A u \in Threads : th'[u] = th[u] \/ th'[u].pc = "clear"
    BY <1>0, <2>1 DEF StartReconnecter, Idle
  <2> QED BY <2>1, <2>2 DEF LockInv, Holding
<1> QED BY <1>1, <1>2, <1>3 DEF Next

-----------------------------------------------------------------------------
(* Listeners                                                               *)

\* Nothing happens to the sockets, and wake is set or a wait for it is left
\* only when a listener that owns the tracker may have caused it.
Unhurried(t) ==
    /\ UNCHANGED <<tracker, lterm, ongoing, lost, li>>
    /\ MovesOnly(t)
    /\ th[t].pc = "connwait" => wake \/ tracker # 0 \/ Active = {}
    /\ wake' = wake \/ tracker # 0

\* Such a step of a thread keeps the invariant of the listeners.
LEMMA ListenersUnhurried ==
    ASSUME TypeOK, ListenerInv, NEW t \in Threads, Unhurried(t)
    PROVE  ListenerInv'
<1>1. Active' = Active
  BY DEF Unhurried, Active
<1>2. /\ \A l \in Listeners : li'[l] \in Owning <=> tracker' = l
      /\ ~lterm' => tracker' # 0
      /\ ongoing' # 0 => ongoing' \in Active'
  BY <1>1 DEF ListenerInv, Unhurried
<1>3. ASSUME lost' = {}
      PROVE  /\ ongoing' = 0 => Active' = {}
             /\ (Doomed \/ Active \subseteq {ongoing, tracker})'
  BY <1>1, <1>3 DEF ListenerInv, Unhurried, Doomed
<1>4. ASSUME lost' = {}, tracker' = 0, Active' # {}
      PROVE  ~wake' /\ \E u \in Threads : th'[u].pc = "connwait"
  <2>1. ~wake /\ tracker = 0 /\ Active # {}
    BY <1>1, <1>4 DEF ListenerInv, Unhurried
  <2>2. PICK u \in Threads : th[u].pc = "connwait"
    BY <1>1, <1>4 DEF ListenerInv, Unhurried
  <2>3. u # t
    BY <2>1, <2>2 DEF Unhurried
  <2> QED BY <2>1, <2>2, <2>3 DEF Unhurried, MovesOnly
<1> QED BY <1>2, <1>3, <1>4 DEF ListenerInv

\* All steps of threads are, except the start of a new connection.
LEMMA ThreadsUnhurried ==
    ASSUME TypeOK, LockInv, ListenerInv, NEW t \in Threads,
           Drive(t) \/ IterateExpire(t) \/ ConnectTimeout(t) \/ CallFails(t),
           ~(ConnectStart(t) /\ ~connected /\ Unused # {})
    PROVE  Unhurried(t)
<1>0. MovesOnly(t)
  BY ThreadMoves DEF Locks
<1>a. ~lterm => tracker # 0
  BY DEF ListenerInv
<1> USE <1>0, <1>a DEF Unhurried, locks, sockets
<1>1. CASE Lock(t)
  BY <1>1 DEF Lock
<1>2. CASE IterateExit(t)
  BY <1>2 DEF IterateExit
<1>3. CASE IterateExpire(t)
  BY <1>3 DEF IterateExpire
<1>4. CASE getToken(t)
  BY <1>4 DEF getToken, Succeeds, Answer
<1>5. CASE describeChannel(t)
  BY <1>5 DEF describeChannel, Remembered, Succeeds, Answer
<1>6. CASE describeMediaStorageConf(t)
  BY <1>6 DEF describeMediaStorageConf, Remembered, Succeeds, Answer
<1>7. CASE createChannel(t)
  BY <1>7 DEF createChannel, Succeeds, Answer
<1>8. CASE getChannelEndpoint(t)
  BY <1>8 DEF getChannelEndpoint, Remembered, Succeeds, Answer
<1>9. CASE getIceConfig(t)
  BY <1>9 DEF getIceConfig, Succeeds, Answer
<1>10. CASE joinStorageSession(t)
  BY <1>10 DEF joinStorageSession, Succeeds, Answer
<1>11. CASE deleteChannel(t)
  BY <1>11 DEF deleteChannel, Succeeds, Answer
<1>12. CASE CallFails(t)
  BY <1>12 DEF CallFails, Answer
<1>13. CASE ConnectDone(t)
  BY <1>13 DEF ConnectDone
<1>14. CASE ConnectAbandon(t)
  BY <1>14 DEF ConnectAbandon
<1>15. CASE OfferWait(t)
  BY <1>15 DEF OfferWait
<1>16. CASE Await(t)
  BY <1>16 DEF Await, CallUnchanged
<1>17. CASE Prepare(t)
  BY <1>17 DEF Prepare
<1>18. CASE Accept(t)
  BY <1>18 DEF Accept, CallUnchanged
<1>19. CASE Refresh(t)
  BY <1>19 DEF Refresh, CallUnchanged
<1>20. CASE Return(t)
  BY <1>20 DEF Return
<1>21. CASE ReconnectHandler(t)
  BY <1>21 DEF ReconnectHandler, CallUnchanged
<1>22. CASE IterateTurn(t)
  BY <1>22 DEF IterateTurn
<1>23. CASE ConnectStart(t)
  BY <1>23 DEF ConnectStart
<1>24. CASE DeleteStart(t)
  <2>1. UNCHANGED <<tracker, lterm, ongoing, lost, li>> /\ (wake' = wake \/ ~lterm) /\ th[t].pc # "connwait"
    BY <1>24 DEF DeleteStart, Terminate
  <2> QED BY <2>1
<1>25. CASE TerminateListener(t)
  <2>1. UNCHANGED <<tracker, lterm, ongoing, lost, li>> /\ (wake' = wake \/ ~lterm) /\ th[t].pc # "connwait"
    BY <1>25 DEF TerminateListener, CallUnchanged
  <2> QED BY <2>1
<1>26. CASE ConnectTimeout(t)
  <2>1. UNCHANGED <<tracker, lterm, ongoing, lost, li>> /\ (wake' = wake \/ ~lterm)
    BY <1>26 DEF ConnectTimeout
  <2>2. \A l \in Listeners : li[l] \in {"starting", "interlock"} => tracker # 0
    BY <1>26 DEF ConnectTimeout
  <2>3. tracker = 0 => Active = {}
    <3>1. SUFFICES ASSUME tracker = 0, NEW l \in Listeners, li[l] \notin {"none", "done"}
                   PROVE  FALSE
      BY DEF Active
    <3>2. li[l] \notin Owning
      BY <3>1, SignalingAssumption DEF ListenerInv, Listeners
    <3>3. li[l] = "starting"
      BY <3>1, <3>2 DEF TypeOK, Owning
    <3> QED BY <2>2, <3>1, <3>3
  <2> QED BY <2>1, <2>3
<1> QED
  BY <1>1, <1>2, <1>3, <1>4, <1>5, <1>6, <1>7, <1>8, <1>9, <1>10, <1>11, <1>12,
     <1>13, <1>14, <1>15, <1>16, <1>17, <1>18, <1>19, <1>20, <1>21, <1>22, <1>23, <1>24,
     <1>25, <1>26 DEF Drive

\* connectSignalingChannelLws starts a listener: no younger listener can be
\* waiting for its start, since the thread that connects holds stateLock.
LEMMA ListenersConnect ==
    ASSUME TypeOK, LockInv, ListenerInv, NEW t \in Threads,
           ConnectStart(t), ~connected, Unused # {}
    PROVE  ListenerInv'
<1>1. PICK l \in Unused : /\ li' = [li EXCEPT ![l] = "starting"] /\ ongoing' = l
                          /\ wake' = FALSE /\ Go(t, "connwait")
  BY ConnectStarts
<1>2. l \in Listeners /\ li[l] = "none" /\ l # 0 /\ li \in [Listeners -> {"none", "starting",
         "interlock", "connecting", "open", "closed", "selfwait", "done"}]
  BY SignalingAssumption DEF Unused, Listeners, TypeOK
<1>3. UNCHANGED <<tracker, lterm, lost>> /\ th[t].pc = "connect"
  BY DEF ConnectStart, locks
<1>4. tracker # l
  BY <1>2 DEF ListenerInv, Owning
<1>5. Active' = Active \cup {l} /\ l \notin Active
  BY <1>1, <1>2 DEF Active
<1>6. \A k \in Listeners : li'[k] \in Owning <=> tracker' = k
  BY <1>1, <1>2, <1>3, <1>4 DEF ListenerInv, Owning
<1>7. th'[t].pc = "connwait"
  BY <1>1, GoFields, TypeParts
<1>8. ASSUME lost = {}, tracker = 0 PROVE Active = {}
  <2>1. SUFFICES ASSUME Active # {} PROVE FALSE
    OBVIOUS
  <2>2. PICK u \in Threads : th[u].pc = "connwait"
    BY <1>8, <2>1 DEF ListenerInv
  <2>3. stateLock = u /\ stateLock = t
    BY <1>3, <2>2 DEF LockInv, Holding
  <2> QED BY <1>3, <2>2, <2>3
<1>9. ASSUME lost = {} PROVE Doomed' \/ Active' \subseteq {ongoing', tracker'}
  BY <1>1, <1>2, <1>3, <1>4, <1>5, <1>8, <1>9 DEF Doomed
<1> QED BY <1>1, <1>2, <1>3, <1>5, <1>6, <1>7, <1>9 DEF ListenerInv

\* The steps of the listeners.
LEMMA ListenersListen ==
    ASSUME TypeOK, ListenerInv, NEW l \in Listeners,
           \/ Listen(l) \/ ConnectionError(l) \/ Offer(l)
           \/ \E peer \in BOOLEAN : Closed(l, peer)
           \/ \E o \in Orders : Order(l, o)
    PROVE  ListenerInv'
<1>0. /\ l # 0 /\ l \in Nat
      /\ li \in [Listeners -> {"none", "starting", "interlock", "connecting", "open", "closed",
                              "selfwait", "done"}]
  BY SignalingAssumption DEF Listeners, TypeOK
<1>a. StartReconnecter => \A u \in Threads : th[u].pc = "connwait" => th'[u].pc = "connwait"
  <2> SUFFICES ASSUME StartReconnecter, {r \in Recs : th[r].pc = "idle"} # {}
               PROVE  \A u \in Threads : th[u].pc = "connwait" => th'[u].pc = "connwait"
    BY DEF StartReconnecter
  <2>1. PICK r \in Recs : th[r].pc = "idle" /\
          th' = [th EXCEPT ![r] = [Idle EXCEPT !.pc = "clear", !.op = "reconnect"]]
    <3>1. (CHOOSE r \in {r \in Recs : th[r].pc = "idle"} : TRUE) \in {r \in Recs : th[r].pc = "idle"}
      OBVIOUS
    <3> QED BY <3>1 DEF StartReconnecter
  <2>2. th \in [Threads -> ThreadRec]
    BY TypeParts DEF MachineType
  <2> QED BY <2>1, <2>2
<1>1. CASE ListenerStart(l)
  <2>1. CASE /\ li[l] = "starting" /\ tracker = 0 /\ tracker' = l
             /\ li' = [li EXCEPT ![l] = "interlock"]
             /\ UNCHANGED <<lterm, wake, ongoing, lost, th>>
    <3>1. Active' = Active /\ l \in Active
      BY <1>0, <2>1 DEF Active
    <3>2. \A k \in Listeners : li'[k] \in Owning <=> tracker' = k
      <4>1. \A k \in Listeners : k # 0 /\ li[k] \notin Owning
        BY <2>1, SignalingAssumption DEF ListenerInv, Listeners
      <4>2. \A k \in Listeners : k # l => li'[k] = li[k]
        BY <1>0, <2>1
      <4>3. li'[l] \in Owning
        BY <1>0, <2>1 DEF Owning
      <4> QED BY <2>1, <4>1, <4>2, <4>3
    <3>3. ASSUME lost = {} PROVE Active \subseteq {ongoing, l} \/ ongoing \notin {0, l}
      <4>1. 0 \notin Active
        BY SignalingAssumption DEF Active, Listeners
      <4>2. Active \subseteq {ongoing, 0}
        BY <2>1, <3>3 DEF ListenerInv, Doomed
      <4> QED BY <4>1, <4>2
    <3>4. ASSUME lost = {} PROVE ongoing # 0
      BY <3>1, <3>4 DEF ListenerInv
    <3>5. ASSUME lost = {} PROVE Doomed' \/ Active' \subseteq {ongoing', tracker'}
      BY <1>0, <2>1, <3>1, <3>3, <3>4, <3>5 DEF Doomed
    <3>6. (~lterm' => tracker' # 0) /\ (ongoing' # 0 => ongoing' \in Active')
      BY <1>0, <2>1, <3>1 DEF ListenerInv
    <3> QED BY <1>0, <2>1, <3>1, <3>2, <3>4, <3>5, <3>6 DEF ListenerInv
  <2>2. CASE /\ li[l] = "interlock" /\ lterm' = FALSE /\ li' = [li EXCEPT ![l] = "connecting"]
             /\ UNCHANGED <<tracker, wake, ongoing, lost, th>>
    <3>1. Active' = Active
      BY <1>0, <2>2 DEF Active
    <3>2. (\A k \in Listeners : li'[k] \in Owning <=> tracker' = k) /\ tracker' # 0
      BY <1>0, <2>2 DEF ListenerInv, Owning
    <3> QED BY <2>2, <3>1, <3>2 DEF ListenerInv, Doomed
  <2> QED BY <1>1, <2>1, <2>2 DEF ListenerStart
<1>2. CASE Established(l) \/ Cancelled(l) \/ ConnectionError(l) \/ Offer(l)
           \/ (\E peer \in BOOLEAN : Closed(l, peer)) \/ (\E o \in Orders : Order(l, o))
  <2>1. /\ li[l] \in {"connecting", "open"} /\ UNCHANGED <<tracker, lterm, ongoing, lost>>
        /\ \E s \in {"open", "closed", "selfwait"} : li' = [li EXCEPT ![l] = s] \/ UNCHANGED li
    BY <1>2 DEF Established, Cancelled, ConnectionError, Offer, Closed, Order, sockets
  <2>2. Active' = Active
    BY <1>0, <2>1 DEF Active
  <2>3. (\A k \in Listeners : li'[k] \in Owning <=> tracker' = k) /\ tracker' # 0
    BY <1>0, <2>1 DEF ListenerInv, Owning
  <2> QED BY <2>1, <2>2, <2>3 DEF ListenerInv, Doomed
<1>3. CASE ListenerEnd(l)
  <2>1. /\ li[l] \in {"connecting", "open", "closed"}
        /\ li' = [li EXCEPT ![l] = "done"] /\ ongoing' = 0
        /\ lost' = lost \cup ({ongoing} \ {0, l})
        /\ lterm' = TRUE /\ tracker' = 0
    BY <1>3 DEF ListenerEnd
  <2>2. tracker = l
    BY <2>1 DEF ListenerInv, Owning
  <2>3. Active' = Active \ {l}
    BY <1>0, <2>1 DEF Active
  <2>4. \A k \in Listeners : li'[k] \in Owning <=> tracker' = k
    BY <1>0, <2>1, <2>2, SignalingAssumption DEF ListenerInv, Owning, Listeners
  <2>5. ASSUME lost' = {} PROVE Active' = {}
    <3>1. lost = {} /\ ongoing \in {0, l}
      BY <2>1, <2>5
    <3>2. Active \subseteq {ongoing, l} /\ 0 \notin Active
      BY <2>2, <3>1, SignalingAssumption DEF ListenerInv, Doomed, Active, Listeners
    <3> QED BY <2>3, <3>1, <3>2
  <2> QED BY <2>1, <2>4, <2>5 DEF ListenerInv, Doomed
<1> QED BY <1>1, <1>2, <1>3 DEF Listen

\* The invariant of the listeners is kept by every step.
LEMMA ListenersStep ==
    ASSUME TypeOK, LockInv, ListenerInv, Next
    PROVE  ListenerInv'
<1>1. CASE \E t \in Threads : Drive(t) \/ IterateExpire(t) \/ ConnectTimeout(t) \/ CallFails(t)
  <2>1. PICK t \in Threads : Drive(t) \/ IterateExpire(t) \/ ConnectTimeout(t) \/ CallFails(t)
    BY <1>1
  <2>2. CASE ConnectStart(t) /\ ~connected /\ Unused # {}
    BY <2>2, ListenersConnect
  <2>3. CASE ~(ConnectStart(t) /\ ~connected /\ Unused # {})
    BY <2>1, <2>3, ThreadsUnhurried, ListenersUnhurried
  <2> QED BY <2>2, <2>3
<1>2. CASE \E t \in Apps, op \in Ops : Call(t, op)
  <2>1. PICK t \in Threads : MovesOnly(t) /\ th[t].pc = "idle" /\ UNCHANGED <<sockets, tracker>>
    BY <1>2, CallMoves
  <2>2. Unhurried(t)
    BY <2>1 DEF Unhurried, sockets
  <2> QED BY <2>2, ListenersUnhurried
<1>3. CASE \/ \E l \in Listeners : Listen(l) \/ ConnectionError(l) \/ Offer(l)
           \/ \E l \in Listeners, peer \in BOOLEAN : Closed(l, peer)
           \/ \E l \in Listeners, o \in Orders : Order(l, o)
  BY <1>3, ListenersListen
<1>4. CASE Expire
  BY <1>4 DEF Expire, ListenerInv, Doomed, Active, sockets, locks
<1> QED BY <1>1, <1>2, <1>3, <1>4 DEF Next
-----------------------------------------------------------------------------
(* freeSignaling                                                           *)

\* Where a thread is while it terminates the ongoing operations.
Terminating == {"term", "awaitl", "awaitr", "prep"}

\* The steps of a thread outside of that touch nothing freeSignaling relies on.
LEMMA ThreadsAside ==
    ASSUME NEW t \in Threads,
           Drive(t) \/ IterateExpire(t) \/ ConnectTimeout(t) \/ CallFails(t)
    PROVE  \/ TerminateListener(t) \/ Await(t) \/ Prepare(t)
           \/ th[t].pc \notin Terminating /\ UNCHANGED <<seen, freed, shutdown, lost, tracker>>
<1> USE DEF Terminating, flags, locks, sockets
<1>1. CASE Lock(t)
  BY <1>1 DEF Lock
<1>2. CASE IterateExit(t)
  BY <1>2 DEF IterateExit, Leave
<1>3. CASE IterateExpire(t)
  BY <1>3 DEF IterateExpire, Leave
<1>4. CASE IterateTurn(t)
  BY <1>4 DEF IterateTurn, Enter, AfterStep, Leave
<1>5. CASE DeleteStart(t)
  BY <1>5 DEF DeleteStart, Terminate
<1>6. CASE getToken(t)
  BY <1>6 DEF getToken, Succeeds, Answer
<1>7. CASE describeChannel(t)
  BY <1>7 DEF describeChannel, Remembered, Succeeds, Answer
<1>8. CASE describeMediaStorageConf(t)
  BY <1>8 DEF describeMediaStorageConf, Remembered, Succeeds, Answer
<1>9. CASE createChannel(t)
  BY <1>9 DEF createChannel, Succeeds, Answer
<1>10. CASE getChannelEndpoint(t)
  BY <1>10 DEF getChannelEndpoint, Remembered, Succeeds, Answer
<1>11. CASE getIceConfig(t)
  BY <1>11 DEF getIceConfig, Succeeds, Answer
<1>12. CASE joinStorageSession(t)
  BY <1>12 DEF joinStorageSession, Succeeds, Answer
<1>13. CASE deleteChannel(t)
  BY <1>13 DEF deleteChannel, Succeeds, Answer
<1>14. CASE CallFails(t)
  BY <1>14 DEF CallFails, Answer
<1>15. CASE ConnectStart(t)
  BY <1>15 DEF ConnectStart
<1>16. CASE ConnectDone(t)
  BY <1>16 DEF ConnectDone
<1>17. CASE ConnectTimeout(t)
  BY <1>17 DEF ConnectTimeout
<1>18. CASE ConnectAbandon(t)
  BY <1>18 DEF ConnectAbandon
<1>19. CASE OfferWait(t)
  BY <1>19 DEF OfferWait
<1>20. CASE Accept(t)
  BY <1>20 DEF Accept, CallUnchanged
<1>21. CASE Refresh(t)
  BY <1>21 DEF Refresh, CallUnchanged
<1>22. CASE Return(t)
  BY <1>22 DEF Return
<1>23. CASE ReconnectHandler(t)
  BY <1>23 DEF ReconnectHandler, CallUnchanged
<1> QED
  BY <1>1, <1>2, <1>3, <1>4, <1>5, <1>6, <1>7, <1>8, <1>9, <1>10, <1>11, <1>12, <1>13, <1>14, <1>15, <1>16, <1>17, <1>18, <1>19, <1>20, <1>21, <1>22, <1>23 DEF Drive

\* A listener that is over stays so, and one that gives up the tracker is over.
Lasting ==
    /\ \A l \in Listeners : li[l] = "done" => li'[l] = "done"
    /\ \A l \in Listeners : tracker = l => tracker' = l \/ li'[l] = "done"
    /\ lost \subseteq lost'

LEMMA LastingStep ==
    ASSUME TypeOK, LockInv, ListenerInv, Next
    PROVE  Lasting
<1>0. li \in [Listeners -> {"none", "starting", "interlock", "connecting", "open", "closed",
                            "selfwait", "done"}]
  BY DEF TypeOK
<1>1. CASE \E t \in Threads : Drive(t) \/ IterateExpire(t) \/ ConnectTimeout(t) \/ CallFails(t)
  <2>1. PICK t \in Threads : Drive(t) \/ IterateExpire(t) \/ ConnectTimeout(t) \/ CallFails(t)
    BY <1>1
  <2>2. CASE ConnectStart(t) /\ ~connected /\ Unused # {}
    <3>1. PICK l \in Unused : li' = [li EXCEPT ![l] = "starting"]
      BY <2>2, ConnectStarts
    <3>2. UNCHANGED <<tracker, lost>>
      BY <2>2 DEF ConnectStart, locks
    <3> QED BY <1>0, <3>1, <3>2 DEF Unused, Lasting
  <2>3. CASE ~(ConnectStart(t) /\ ~connected /\ Unused # {})
    BY <2>1, <2>3, ThreadsUnhurried DEF Unhurried, Lasting
  <2> QED BY <2>2, <2>3
<1>2. CASE \E t \in Apps, op \in Ops : Call(t, op)
  <2>1. UNCHANGED <<sockets, tracker>>
    BY <1>2, CallMoves
  <2> QED BY <2>1 DEF sockets, Lasting
<1>3. CASE \E l \in Listeners : ListenerEnd(l)
  <2>1. PICK l \in Listeners : ListenerEnd(l)
    BY <1>3
  <2>2. /\ li[l] \in Owning /\ li' = [li EXCEPT ![l] = "done"]
        /\ lost \subseteq lost'
    BY <2>1 DEF ListenerEnd, Owning
  <2>3. \A k \in Listeners : tracker = k => k = l
    BY <2>2 DEF ListenerInv
  <2> QED BY <1>0, <2>2, <2>3 DEF Lasting
<1>4. CASE \/ \E l \in Listeners : ConnectionError(l) \/ Offer(l) \/ ListenerStart(l) \/ Established(l)
                                     \/ Cancelled(l)
           \/ \E l \in Listeners, peer \in BOOLEAN : Closed(l, peer)
           \/ \E l \in Listeners, o \in Orders : Order(l, o)
  <2>1. UNCHANGED lost
    BY <1>4 DEF ListenerStart, Established, Cancelled, ConnectionError, Offer, Closed, Order, sockets
  <2>2. \A l \in Listeners : tracker = l => tracker' = l
    BY <1>4, SignalingAssumption
       DEF ListenerStart, Established, Cancelled, ConnectionError, Offer, Closed, Order, Listeners
  <2>3. \E l \in Listeners, s \in {"interlock", "connecting", "open", "closed", "selfwait"} :
           li[l] # "done" /\ (li' = [li EXCEPT ![l] = s] \/ UNCHANGED li)
    BY <1>4 DEF ListenerStart, Established, Cancelled, ConnectionError, Offer, Closed, Order, sockets
  <2> QED BY <1>0, <2>1, <2>2, <2>3 DEF Lasting
<1>5. CASE Expire
  BY <1>5 DEF Expire, sockets, locks, Lasting
<1> QED BY <1>1, <1>2, <1>3, <1>4, <1>5 DEF Next, Listen

\* A step that neither frees nor begins to.
LEMMA FreeAside ==
    ASSUME FreeInv, TypeOK, Lasting, UNCHANGED <<seen, freed>>, shutdown => shutdown',
           \A t \in Threads : (th'[t] = th[t]) \/ (~Freeing(t) /\ ~Freeing(t)')
    PROVE  FreeInv'
<1>0. seen \subseteq Listeners
  BY DEF TypeOK
<1>1. \A t \in Threads : Freeing(t)' => Freeing(t) /\ th'[t] = th[t]
  BY DEF Freeing
<1>2. /\ \A t \in Threads : Freeing(t)' => shutdown' /\ ~freed' /\ th'[t].pc \in {"term", "awaitl", "awaitr", "prep"}
      /\ \A t, u \in Threads : Freeing(t)' /\ Freeing(u)' => t = u
      /\ ~shutdown' => seen' = {} /\ ~freed'
      /\ \A t \in Threads : Freeing(t)' /\ th'[t].pc = "term" => seen' = {}
  BY <1>1 DEF FreeInv
<1>3. \A l \in seen' : tracker' = l \/ li'[l] = "done"
  BY <1>0 DEF FreeInv, Lasting
<1>4. ASSUME freed' \/ \E t \in Threads : Freeing(t)' /\ th'[t].pc \in {"awaitr", "prep"}, lost' = {}
      PROVE  \A l \in seen' : li'[l] = "done"
  <2>1. freed \/ \E t \in Threads : Freeing(t) /\ th[t].pc \in {"awaitr", "prep"}
    BY <1>1, <1>4
  <2>2. lost = {}
    BY <1>4 DEF Lasting
  <2>3. \A l \in seen : li[l] = "done"
    BY <2>1, <2>2 DEF FreeInv
  <2> QED BY <1>0, <2>3 DEF Lasting
<1> QED BY <1>2, <1>3, <1>4 DEF FreeInv, Freeing

\* freeSignaling itself: what it has seen is what it waits for.
LEMMA FreeTerminates ==
    ASSUME TypeOK, LockInv, ListenerInv, FreeInv, ~freed, NEW t \in Threads,
           TerminateListener(t) \/ Await(t) \/ Prepare(t)
    PROVE  FreeInv'
<1>0. MachineType /\ th \in [Threads -> ThreadRec] /\ th[t] \in ThreadRec /\ seen \subseteq Listeners
  BY TypeParts DEF MachineType, TypeOK
<1>a. \A pc : Go(t, pc) => MovesOnly(t) /\ th'[t].pc = pc /\ th'[t].op = th[t].op
  BY <1>0, GoFields
<1>b. /\ UNCHANGED <<shutdown, lost, li, tracker>>
      /\ \/ Go(t, "awaitl") \/ Go(t, "awaitr") \/ Go(t, "prep") \/ Go(t, "lock")
         \/ Go(t, "idle")
      /\ th[t].pc \in Terminating
  BY Zenon DEF TerminateListener, Await, Prepare, CallUnchanged, flags, sockets, locks, Terminating
<1>c. MovesOnly(t) /\ th'[t].op = th[t].op /\ Lasting
  BY <1>a, <1>b DEF Lasting
<1>1. CASE th[t].op # "free"
  <2>1. UNCHANGED <<seen, freed>>
    BY <1>1 DEF TerminateListener, Await, Prepare, CallUnchanged, sockets
  <2>2. \A u \in Threads : th'[u] = th[u] \/ (~Freeing(u) /\ ~Freeing(u)')
    BY <1>1, <1>c DEF MovesOnly, Freeing
  <2> QED BY <1>b, <1>c, <2>1, <2>2, FreeAside
<1>2. CASE th[t].op = "free"
  <2>1. Freeing(t) /\ shutdown
    BY <1>2, <1>b DEF Freeing, Terminating, FreeInv
  <2>2. \A u \in Threads : u # t => ~Freeing(u) /\ ~Freeing(u)'
    BY <2>1, <1>c DEF FreeInv, Freeing, MovesOnly
  <2>3. CASE TerminateListener(t)
    <3>1. /\ th[t].pc = "term" /\ seen = {} /\ UNCHANGED freed
          /\ seen' = IF ~lterm THEN {l \in Listeners : tracker = l} ELSE {}
          /\ \/ ongoing # 0 /\ ~lterm /\ Go(t, "awaitl")
             \/ ~(ongoing # 0 /\ ~lterm) /\ Go(t, "awaitr")
      BY <1>2, <2>1, <2>3 DEF TerminateListener, FreeInv, CallUnchanged
    <3>2. \A l \in seen' : tracker' = l
      BY <1>b, <3>1
    <3>3. ASSUME th'[t].pc \in {"awaitr", "prep"}, lost = {} PROVE seen' = {}
      <4>1. ~(ongoing # 0 /\ ~lterm)
        BY <1>a, <3>1, <3>3
      <4>2. SUFFICES ASSUME ~lterm PROVE FALSE
        BY <3>1
      <4>3. tracker \in Listeners /\ li[tracker] \in Owning
        BY <4>2 DEF ListenerInv, TypeOK
      <4>4. tracker \in Active
        BY <4>3 DEF Active, Owning
      <4> QED BY <3>3, <4>1, <4>2, <4>4 DEF ListenerInv
    <3>4. th'[t].pc \in {"awaitl", "awaitr"}
      BY <1>a, <3>1
    <3> QED BY <1>b, <2>1, <2>2, <3>1, <3>2, <3>3, <3>4 DEF FreeInv, Freeing
  <2>4. CASE Await(t)
    <3>1. /\ UNCHANGED <<seen, freed>>
          /\ \/ th[t].pc = "awaitl" /\ tracker = 0 /\ Go(t, "awaitr")
             \/ th[t].pc = "awaitr" /\ Go(t, "prep")
      BY <2>4 DEF Await, CallUnchanged, sockets, ListenerEnded
    <3>2. ASSUME lost = {} PROVE \A l \in seen : li[l] = "done"
      <4>1. CASE tracker = 0
        BY <4>1, <1>0, SignalingAssumption DEF FreeInv, Listeners
      <4>2. CASE th[t].pc = "awaitr"
        BY <2>1, <3>2, <4>2 DEF FreeInv
      <4> QED BY <3>1, <4>1, <4>2
    <3>3. th'[t].pc \in {"awaitr", "prep"}
      BY <1>a, <3>1
    <3>4. \A l \in seen : tracker = l \/ li[l] = "done"
      BY DEF FreeInv
    <3> QED BY <1>b, <2>1, <2>2, <3>1, <3>2, <3>3, <3>4 DEF FreeInv, Freeing
  <2>5. CASE Prepare(t)
    <3>1. /\ th[t].pc = "prep" /\ Go(t, "idle") /\ freed' = TRUE /\ UNCHANGED seen
      BY <1>2, <2>5 DEF Prepare, sockets
    <3>2. lost = {} => \A l \in seen : li[l] = "done"
      BY <2>1, <3>1 DEF FreeInv
    <3>3. \A l \in seen : tracker = l \/ li[l] = "done"
      BY DEF FreeInv
    <3>4. th'[t].pc = "idle"
      BY <1>a, <3>1
    <3> QED BY <1>b, <2>1, <2>2, <3>1, <3>2, <3>3, <3>4 DEF FreeInv, Freeing
  <2> QED BY <2>3, <2>4, <2>5
<1> QED BY <1>1, <1>2

\* The invariant of freeSignaling is kept by every step.
LEMMA FreeStep ==
    ASSUME TypeOK, LockInv, ListenerInv, FreeInv, Next
    PROVE  FreeInv'
<1>0. MachineType /\ th \in [Threads -> ThreadRec] /\ Lasting /\ ~freed
  BY TypeParts, LastingStep DEF MachineType, Next
<1>1. CASE \E t \in Threads : Drive(t) \/ IterateExpire(t) \/ ConnectTimeout(t) \/ CallFails(t)
  <2>1. PICK t \in Threads : Drive(t) \/ IterateExpire(t) \/ ConnectTimeout(t) \/ CallFails(t)
    BY <1>1
  <2>2. CASE TerminateListener(t) \/ Await(t) \/ Prepare(t)
    BY <1>0, <2>2, FreeTerminates
  <2>3. CASE th[t].pc \notin Terminating /\ UNCHANGED <<seen, freed, shutdown, lost, tracker>>
    <3>1. MovesOnly(t) /\ th'[t].op \in {th[t].op, "none"} /\ th[t].pc # "idle"
      BY <2>1, ThreadMoves DEF Locks
    <3>2. ~Freeing(t) /\ ~Freeing(t)'
      BY <2>3, <3>1 DEF FreeInv, Freeing, Terminating
    <3>3. \A u \in Threads : th'[u] = th[u] \/ (~Freeing(u) /\ ~Freeing(u)')
      BY <3>1, <3>2 DEF MovesOnly
    <3> QED BY <1>0, <2>3, <3>3, FreeAside
  <2> QED BY <2>1, <2>2, <2>3, ThreadsAside
<1>2. CASE \E t \in Apps, op \in Ops : Call(t, op)
  <2>1. PICK t \in Apps, op \in Ops : Call(t, op)
    BY <1>2
  <2>2. /\ t \in Threads /\ MovesOnly(t) /\ th[t].pc = "idle" /\ th'[t].op = op /\ ~shutdown
        /\ op = "free" => th'[t].pc = "term" /\ shutdown'
        /\ UNCHANGED <<seen, freed, li, tracker, lost>>
    BY <2>1, CallMoves DEF sockets
  <2>3. \A u \in Threads : ~Freeing(u)
    BY <2>2 DEF FreeInv
  <2>4. CASE op # "free"
    <3>1. \A u \in Threads : th'[u] = th[u] \/ (~Freeing(u) /\ ~Freeing(u)')
      BY <2>2, <2>3, <2>4 DEF MovesOnly, Freeing
    <3> QED BY <1>0, <2>2, <3>1, FreeAside
  <2>5. CASE op = "free"
    <3>1. \A u \in Threads : Freeing(u)' => u = t
      BY <2>2, <2>3 DEF MovesOnly, Freeing
    <3>2. seen = {} /\ ~freed
      BY <2>2 DEF FreeInv
    <3> QED BY <2>2, <2>5, <3>1, <3>2 DEF FreeInv, Freeing
  <2> QED BY <2>4, <2>5
<1>3. CASE \/ \E l \in Listeners : Listen(l) \/ ConnectionError(l) \/ Offer(l)
           \/ \E l \in Listeners, peer \in BOOLEAN : Closed(l, peer)
           \/ \E l \in Listeners, o \in Orders : Order(l, o)
           \/ Expire
  <2>1. UNCHANGED <<seen, freed, shutdown>> /\ (UNCHANGED th \/ StartReconnecter)
    BY <1>3 DEF Listen, ListenerStart, Established, Cancelled, ListenerEnd, ConnectionError, Offer,
                Closed, Order, Expire, ListenerUnchanged, flags, sockets
  <2>2. \A u \in Threads : th'[u] = th[u] \/ (th[u].pc = "idle" /\ th'[u].op = "reconnect")
    <3> SUFFICES ASSUME StartReconnecter, {r \in Recs : th[r].pc = "idle"} # {}
                 PROVE  \A u \in Threads : th'[u] = th[u] \/ (th[u].pc = "idle" /\ th'[u].op = "reconnect")
      BY <2>1 DEF StartReconnecter
    <3>1. PICK r \in Recs : th[r].pc = "idle" /\
            th' = [th EXCEPT ![r] = [Idle EXCEPT !.pc = "clear", !.op = "reconnect"]]
      <4>1. (CHOOSE r \in {r \in Recs : th[r].pc = "idle"} : TRUE) \in {r \in Recs : th[r].pc = "idle"}
        OBVIOUS
      <4> QED BY <4>1 DEF StartReconnecter
    <3> QED BY <1>0, <3>1 DEF Idle
  <2>3. \A u \in Threads : th'[u] = th[u] \/ (~Freeing(u) /\ ~Freeing(u)')
    BY <2>2 DEF Freeing
  <2> QED BY <1>0, <2>1, <2>3, FreeAside
<1> QED BY <1>1, <1>2, <1>3 DEF Next

-----------------------------------------------------------------------------
(* The theorems                                                            *)

\* A turn of the iterator is refused only when it leaves DISCONNECTED.
LEMMA RefusedStep ==
    ASSUME TypeOK, RefusedOnlyWhenDisconnected, Next
    PROVE  RefusedOnlyWhenDisconnected'
<1> USE DEF flags, world, machine, locks, sockets
<1>1. CASE \E t \in Threads : IterateTurn(t)
  <2>1. PICK t \in Threads : IterateTurn(t)
    BY <1>1
  <2> DEFINE r == IF th[t].status = "unauthorized" \/ expired THEN "NOT_AUTHORIZED" ELSE result
             s == NextState(st, r)
  <2>2. st \in States /\ r \in Results
    BY DEF TypeOK, Results
  <2>3. refusals' = refusals \/ (refusals' = refusals \cup {<<st, s>>} /\ st \notin AcceptStates(s))
    BY <2>1, Zenon DEF IterateTurn
  <2> HIDE DEF r
  <2>4. st # "DISCONNECTED" => st \in AcceptStates(s)
    BY <2>2, NextStateAccepted
  <2> HIDE DEF s
  <2>5. \A p \in refusals' : p \in refusals \/ p[1] = "DISCONNECTED"
    BY <2>3, <2>4
  <2> QED BY <2>5 DEF RefusedOnlyWhenDisconnected
<1>2. CASE ~ \E t \in Threads : IterateTurn(t)
  <2>1. UNCHANGED refusals
    <3>1. CASE \E t \in Threads : Lock(t) \/ IterateExit(t) \/ IterateExpire(t) \/ DeleteStart(t)
                  \/ ConnectStart(t) \/ ConnectDone(t) \/ ConnectTimeout(t) \/ ConnectAbandon(t) \/ OfferWait(t)
      BY <3>1, Zenon DEF Lock, IterateExit, IterateExpire, DeleteStart, ConnectStart, ConnectDone, ConnectTimeout,
                  ConnectAbandon, OfferWait
    <3>2. CASE \E t \in Threads : getToken(t) \/ describeChannel(t) \/ describeMediaStorageConf(t)
                  \/ createChannel(t) \/ getChannelEndpoint(t) \/ getIceConfig(t) \/ joinStorageSession(t)
                  \/ deleteChannel(t) \/ CallFails(t)
      <4>1. \A t, s, r, status : Answer(t, s, r, status) => UNCHANGED refusals
        BY DEF Answer
      <4>2. \A t, s : Succeeds(t, s) \/ Remembered(t, s) => UNCHANGED refusals
        BY <4>1, Zenon DEF Succeeds, Remembered
      <4>3. \A t : CallFails(t) => UNCHANGED refusals
        BY <4>1, Zenon DEF CallFails
      <4>4. \A t : getToken(t) \/ describeChannel(t) \/ describeMediaStorageConf(t) \/ createChannel(t)
                   => UNCHANGED refusals
        BY <4>1, <4>2, Zenon DEF getToken, describeChannel, describeMediaStorageConf, createChannel
      <4>5. \A t : getChannelEndpoint(t) \/ getIceConfig(t) \/ joinStorageSession(t) \/ deleteChannel(t)
                   => UNCHANGED refusals
        BY <4>1, <4>2, Zenon DEF getChannelEndpoint, getIceConfig, joinStorageSession, deleteChannel
      <4> QED BY <3>2, <4>3, <4>4, <4>5, Zenon
    <3>3. CASE \E t \in Threads : TerminateListener(t) \/ Await(t) \/ Prepare(t) \/ Accept(t) \/ Refresh(t)
                  \/ Return(t) \/ ReconnectHandler(t)
      BY <3>3, ZenonT(60) DEF TerminateListener, Await, Prepare, Accept, Refresh, Return, ReconnectHandler
    <3>4. CASE \E t \in Apps, op \in Ops : Call(t, op)
      BY <3>4, Zenon DEF Call
    <3>5. CASE \/ \E l \in Listeners : Listen(l) \/ ConnectionError(l) \/ Offer(l)
               \/ \E l \in Listeners, peer \in BOOLEAN : Closed(l, peer)
               \/ \E l \in Listeners, o \in Orders : Order(l, o)
               \/ Expire
      BY <3>5 DEF Listen, ListenerStart, Established, Cancelled, ListenerEnd, ConnectionError, Offer,
                  Closed, Order, Expire, ListenerUnchanged
    <3> QED BY <1>2, <3>1, <3>2, <3>3, <3>4, <3>5 DEF Next, Drive
  <2> QED BY <2>1 DEF RefusedOnlyWhenDisconnected
<1> QED BY <1>1, <1>2

LEMMA SigInit == Init => SigInv
<1> SUFFICES ASSUME Init PROVE SigInv
  OBVIOUS
<1>1. TypeOK
  <2>1. th \in [Threads -> ThreadRec]
    BY IdleType DEF Init
  <2>2. FlagType
    BY Zenon DEF Init, FlagType, FlagTypeA, FlagTypeB, FlagTypeC
  <2>3. MachineType /\ SocketType
    BY <2>1, SignalingAssumption DEF Init, MachineType, SocketType, States, Results
  <2> QED BY <2>2, <2>3, TypeParts
<1>2. LockInv /\ FreeInv
  BY DEF Init, LockInv, FreeInv, Idle, Holding, Freeing
<1>3. ListenerInv
  <2>1. Active = {}
    BY DEF Init, Active
  <2> QED BY <2>1, SignalingAssumption DEF Init, ListenerInv, Owning, Listeners, Doomed
<1>4. RefusedOnlyWhenDisconnected
  BY DEF Init, RefusedOnlyWhenDisconnected
<1> QED BY <1>1, <1>2, <1>3, <1>4 DEF SigInv

LEMMA SigStep == SigInv /\ [Next]_vars => SigInv'
<1> SUFFICES ASSUME SigInv, [Next]_vars PROVE SigInv'
  OBVIOUS
<1>1. CASE Next
  <2>1. TypeOK'
    <3>1. FlagType'
      BY <1>1, FlagsStep DEF SigInv
    <3>2. MachineType' /\ SocketType'
      BY <1>1, MachineThreads, MachineOthers DEF SigInv, Next
    <3> QED BY <3>1, <3>2, TypeParts
  <2> QED BY <1>1, <2>1, LockStep, ListenersStep, FreeStep, RefusedStep DEF SigInv
<1>2. CASE UNCHANGED vars
  <2> USE DEF vars, flags, world, machine, locks, sockets
  <2>1. TypeOK'
    <3>1. FlagTypeA' /\ FlagTypeB' /\ FlagTypeC'
      BY <1>2, TypeParts DEF SigInv, FlagType, FlagTypeA, FlagTypeB, FlagTypeC
    <3>2. MachineType' /\ SocketType'
      BY <1>2, TypeParts DEF SigInv, MachineType, SocketType
    <3> QED BY <3>1, <3>2, TypeParts DEF FlagType
  <2>2. LockInv' /\ RefusedOnlyWhenDisconnected'
    BY <1>2 DEF SigInv, LockInv, RefusedOnlyWhenDisconnected
  <2>3. ListenerInv'
    BY <1>2 DEF SigInv, ListenerInv, Active, Doomed
  <2>4. FreeInv'
    BY <1>2 DEF SigInv, FreeInv, Freeing
  <2> QED BY <2>1, <2>2, <2>3, <2>4 DEF SigInv
<1> QED BY <1>1, <1>2

LEMMA SigInvariant == Spec => []SigInv
<1> QED BY SigInit, SigStep, PTL DEF Spec

\* The types are kept for any number of threads and listeners: the machine
\* stays in its states whatever the service answers.
THEOREM TypeCorrect == Spec => []TypeOK
<1>1. SigInv => TypeOK
  BY DEF SigInv
<1> QED BY <1>1, SigInvariant, PTL

\* The from functions ask for no transition that the table of accepted states
\* refuses, except those that leave DISCONNECTED.
THEOREM TablesAgree == Spec => []RefusedOnlyWhenDisconnected
<1>1. SigInv => RefusedOnlyWhenDisconnected
  BY DEF SigInv
<1> QED BY <1>1, SigInvariant, PTL

\* freeSignaling returns only after the listener it found running has ended,
\* unless that listener's call info was lost to an older one.
THEOREM FreeWaitsForListener == Spec => []FreedAfterListener
<1>1. SigInv => FreedAfterListener
  BY DEF SigInv, FreeInv, FreedAfterListener
<1> QED BY <1>1, SigInvariant, PTL
=============================================================================
