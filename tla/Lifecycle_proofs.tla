------------------------- MODULE Lifecycle_proofs -------------------------
(***************************************************************************)
(* Shutdown is orderly, for every set of sockets and types and any number  *)
(* of packets.                                                             *)
(***************************************************************************)
EXTENDS Lifecycle, FiniteSetTheorems, TLAPS

LEMMA InitEstablishes == Init => IInv
<1> SUFFICES ASSUME Init
             PROVE  IInv
  OBVIOUS
<1>1. 0 \in 0 .. MaxPackets
  BY LifecycleAssumption
<1>2. TypeOK
  BY <1>1 DEF Init, TypeOK, Up
<1>3. CountsLive
  <2>1. Live = {}
    BY DEF Init, Live
  <2> QED
    BY <2>1, FS_EmptySet DEF Init, CountsLive
<1> QED
  BY <1>2, <1>3 DEF Init, IInv, NothingHandledAfterShutdown

-----------------------------------------------------------------------------
\* What each step does to the goroutines: one starts, one ends, one moves on, or
\* none of this.
LEMMA GoroutineSteps ==
  ASSUME [Next]_vars
  PROVE  \/ \E s \in Socket : Join(s)
         \/ \E s \in Socket : reader[s] \in {"checking", "reading"} /\ Ends(s)
         \/ \E s \in Socket, to \in {"checking", "reading", "handling", "publishing"} :
              reader[s] \in {"checking", "reading", "handling", "publishing"} /\ Goes(s, to)
         \/ reader' = reader /\ wg' = wg
<1>1. ASSUME NEW s \in Socket, Listener(s) \/ Published(s)
      PROVE  \/ reader[s] \in {"checking", "reading"} /\ Ends(s)
             \/ \E to \in {"checking", "reading", "handling", "publishing"} :
                  /\ reader[s] \in {"checking", "reading", "handling", "publishing"}
                  /\ Goes(s, to)
  BY <1>1 DEF Listener, Published, Check, ReadTimeout, Read, ReadError, Drop, Handle
<1>2. ASSUME \/ \E s \in Socket : JoinFails(s) \/ CloseSocket(s)
             \/ Started \/ CloseServer \/ Drained \/ CloseStop \/ Wait \/ Return
             \/ Signal \/ Run \/ Serve \/ AcceptFails \/ Connect \/ ClientsTurn
             \/ UNCHANGED vars
      PROVE  reader' = reader /\ wg' = wg
  BY <1>2 DEF JoinFails, CloseSocket, Started, CloseServer, Drained, CloseStop, Wait, Return,
         Signal, Run, Serve, StartQuerier, MetaQuery, TickerFires, List, Browse, RoundDone,
         Listen, ListenFails, AcceptFails, Connect, ClientsTurn, listeners, vars
<1> QED
  BY <1>1, <1>2 DEF Next, Main, Joining

\* Add and Done keep the counter of the WaitGroup at the number of live goroutines:
\* one that is counted was not live, and one that counts itself back was.
LEMMA CountStep ==
  ASSUME IInv, [Next]_vars
  PROVE  wg' \in Nat /\ CountsLive'
<1>1. /\ wg = Cardinality(Live) /\ wg \in Nat
      /\ reader \in [Socket ->
           {"none", "checking", "reading", "handling", "publishing", "ended"}]
      /\ \A s \in Socket : reader[s] = "none" <=> s \notin conns
      /\ conns \subseteq Socket \ unjoined
  BY DEF IInv, TypeOK, CountsLive
<1>2. IsFiniteSet(Live)
  <2>1. Live \subseteq Socket
    BY DEF Live
  <2> QED
    BY <2>1, FS_Subset, LifecycleAssumption
<1>3. ASSUME NEW s \in Socket, Join(s)
      PROVE  wg' \in Nat /\ CountsLive'
  <2>1. s \notin Live /\ Live' = Live \cup {s}
    BY <1>1, <1>3 DEF Join, Live
  <2>2. Cardinality(Live') = Cardinality(Live) + 1
    BY <1>2, <2>1, FS_AddElement
  <2>3. wg' = wg + 1
    BY <1>3 DEF Join
  <2> QED
    BY <1>1, <2>2, <2>3 DEF CountsLive
<1>4. ASSUME NEW s \in Socket, reader[s] \in {"checking", "reading"}, Ends(s)
      PROVE  wg' \in Nat /\ CountsLive'
  <2>1. s \in Live /\ Live' = Live \ {s}
    BY <1>1, <1>4 DEF Ends, Live
  <2>2. Cardinality(Live') = Cardinality(Live) - 1
    BY <1>2, <2>1, FS_RemoveElement
  <2>3. IsFiniteSet(Live')
    BY <1>2, <2>1, FS_RemoveElement
  <2>4. Cardinality(Live') \in Nat
    BY <2>3, FS_CardinalityType
  <2>5. wg' = wg - 1
    BY <1>4 DEF Ends
  <2> QED
    BY <1>1, <2>2, <2>4, <2>5 DEF CountsLive
<1>5. ASSUME NEW s \in Socket, Goes(s, "checking") \/ Goes(s, "reading")
                               \/ Goes(s, "handling") \/ Goes(s, "publishing"),
             reader[s] \in {"checking", "reading", "handling", "publishing"}
      PROVE  wg' \in Nat /\ CountsLive'
  <2>1. Live' = Live
    BY <1>1, <1>5 DEF Goes, Live
  <2> QED
    BY <1>1, <1>5, <2>1 DEF Goes, CountsLive
<1>6. CASE reader' = reader /\ wg' = wg
  BY <1>1, <1>6 DEF Live, CountsLive
<1> QED
  BY <1>3, <1>4, <1>5, <1>6, GoroutineSteps

\* Starting up.
LEMMA StartSteps ==
  ASSUME IInv, wg' \in Nat, CountsLive', (Joining \/ Started \/ Signal)
  PROVE  IInv'
<1>1. ASSUME NEW s \in Socket, Join(s)
      PROVE  IInv'
  BY <1>1 DEF Join, IInv, TypeOK, Up, NothingHandledAfterShutdown, queries, server
<1>2. ASSUME NEW s \in Socket, JoinFails(s)
      PROVE  IInv'
  BY <1>2 DEF JoinFails, IInv, TypeOK, Up, NothingHandledAfterShutdown, queries, server
<1>3. CASE Started
  BY <1>3 DEF Started, Exit, IInv, TypeOK, Up, NothingHandledAfterShutdown, listeners
<1>4. CASE Signal
  BY <1>4 DEF Signal, Exit, IInv, TypeOK, Up, NothingHandledAfterShutdown, listeners,
              queries, server
<1> QED
  BY <1>1, <1>2, <1>3, <1>4 DEF Joining

\* Shutting down.
LEMMA StopSteps ==
  ASSUME IInv, wg' \in Nat, CountsLive',
         \/ CloseServer \/ Drained \/ CloseStop
         \/ \E s \in Socket : CloseSocket(s)
         \/ Wait \/ Return
  PROVE  IInv'
<1>1. CASE CloseServer
  BY <1>1 DEF CloseServer, IInv, TypeOK, Up, NothingHandledAfterShutdown, listeners, queries
<1>2. CASE Drained
  BY <1>2 DEF Drained, IInv, TypeOK, Up, NothingHandledAfterShutdown, listeners, queries,
              server
<1>3. CASE CloseStop
  BY <1>3 DEF CloseStop, IInv, TypeOK, Up, NothingHandledAfterShutdown, queries, server
<1>4. ASSUME NEW s \in Socket, CloseSocket(s)
      PROVE  IInv'
  BY <1>4 DEF CloseSocket, IInv, TypeOK, Up, NothingHandledAfterShutdown, queries, server
<1>5. CASE Wait
  <2>1. IsFiniteSet(Live)
    BY FS_Subset, LifecycleAssumption DEF Live
  <2>2. Cardinality(Live) = 0
    BY <1>5 DEF Wait, IInv, CountsLive
  <2>3. Live = {}
    BY <2>1, <2>2, FS_EmptySet
  <2>4. \A s \in Socket : reader[s] \in {"none", "ended"}
    BY <2>3 DEF Live
  <2> QED
    BY <1>5, <2>4 DEF Wait, IInv, TypeOK, Up, NothingHandledAfterShutdown, listeners,
                      queries, server
<1>6. CASE Return
  BY <1>6 DEF Return, Exit, IInv, TypeOK, Up, NothingHandledAfterShutdown, listeners,
              queries, server
<1> QED
  BY <1>1, <1>2, <1>3, <1>4, <1>5, <1>6

\* A goroutine that has ended does nothing, so one that acts refutes the premise
\* of NothingHandledAfterShutdown.
LEMMA ActiveBeforeEnd ==
  ASSUME IInv, NEW s \in Socket, reader[s] \notin {"none", "ended"}
  PROVE  main # "ending" /\ exit # "clean"
  BY DEF IInv, NothingHandledAfterShutdown

LEMMA ListenerSteps ==
  ASSUME IInv, wg' \in Nat, CountsLive', NEW s \in Socket, (Listener(s) \/ Published(s))
  PROVE  IInv'
<1>1. CASE Check(s)
  <2>1. main # "ending" /\ exit # "clean"
    BY <1>1, ActiveBeforeEnd DEF Check
  <2> QED
    BY <1>1, <2>1
    DEF Check, Goes, Ends, IInv, TypeOK, Up, NothingHandledAfterShutdown, queries, server
<1>2. CASE ReadTimeout(s)
  <2>1. main # "ending" /\ exit # "clean"
    BY <1>2, ActiveBeforeEnd DEF ReadTimeout
  <2> QED
    BY <1>2, <2>1
    DEF ReadTimeout, Goes, IInv, TypeOK, Up, NothingHandledAfterShutdown, queries, server
<1>3. CASE Read(s)
  <2>1. main # "ending" /\ exit # "clean"
    BY <1>3, ActiveBeforeEnd DEF Read
  <2>2. packets' \in 0 .. MaxPackets
    BY <1>3, LifecycleAssumption DEF Read, Goes, IInv, TypeOK
  <2>3. /\ late[s] = 0
        /\ late' \in [Socket -> {0, 1}]
        /\ \A r \in Socket : late'[r] = 1 => late[r] = 1 \/ (r = s /\ stop)
    BY <1>3 DEF Read, Goes, IInv, TypeOK
  <2> QED
    BY <1>3, <2>1, <2>2, <2>3
    DEF Read, Goes, IInv, TypeOK, Up, NothingHandledAfterShutdown, queries, server
<1>4. CASE ReadError(s)
  <2>1. main # "ending" /\ exit # "clean"
    BY <1>4, ActiveBeforeEnd DEF ReadError
  <2> QED
    BY <1>4, <2>1
    DEF ReadError, Ends, IInv, TypeOK, Up, NothingHandledAfterShutdown, queries, server
<1>5. CASE Drop(s)
  <2>1. main # "ending" /\ exit # "clean"
    BY <1>5, ActiveBeforeEnd DEF Drop
  <2> QED
    BY <1>5, <2>1 DEF Drop, Goes, IInv, TypeOK, Up, NothingHandledAfterShutdown, queries, server
<1>6. ASSUME NEW types \in SUBSET Type, Handle(s, types)
      PROVE  IInv'
  <2>1. main # "ending" /\ exit # "clean"
    BY <1>6, ActiveBeforeEnd DEF Handle
  <2> QED
    BY <1>6, <2>1 DEF Handle, Goes, IInv, TypeOK, Up, NothingHandledAfterShutdown, server
<1>7. CASE Published(s)
  <2>1. main # "ending" /\ exit # "clean"
    BY <1>7, ActiveBeforeEnd DEF Published
  <2> QED
    BY <1>7, <2>1
    DEF Published, Goes, IInv, TypeOK, Up, NothingHandledAfterShutdown, queries, server
<1> QED
  BY <1>1, <1>2, <1>3, <1>4, <1>5, <1>6, <1>7 DEF Listener

LEMMA QuerierSteps ==
  ASSUME IInv, wg' \in Nat, CountsLive', Run
  PROVE  IInv'
<1>1. CASE StartQuerier
  BY <1>1 DEF StartQuerier, Exit, IInv, TypeOK, Up, NothingHandledAfterShutdown, listeners,
              server
<1>2. CASE MetaQuery
  BY <1>2 DEF MetaQuery, IInv, TypeOK, Up, NothingHandledAfterShutdown, listeners, server
<1>3. CASE TickerFires
  BY <1>3 DEF TickerFires, IInv, TypeOK, Up, NothingHandledAfterShutdown, listeners, server
<1>4. CASE List
  BY <1>4 DEF List, IInv, TypeOK, Up, NothingHandledAfterShutdown, listeners, server
<1>5. ASSUME NEW t \in Type, Browse(t)
      PROVE  IInv'
  BY <1>5 DEF Browse, IInv, TypeOK, Up, NothingHandledAfterShutdown, listeners, server
<1>6. CASE RoundDone
  BY <1>6 DEF RoundDone, IInv, TypeOK, Up, NothingHandledAfterShutdown, listeners, server
<1> QED
  BY <1>1, <1>2, <1>3, <1>4, <1>5, <1>6 DEF Run

LEMMA ServerSteps ==
  ASSUME IInv, wg' \in Nat, CountsLive', (Serve \/ AcceptFails \/ Connect \/ ClientsTurn)
  PROVE  IInv'
<1>1. CASE Listen
  BY <1>1 DEF Listen, IInv, TypeOK, Up, NothingHandledAfterShutdown, listeners, queries
<1>2. CASE ListenFails
  BY <1>2 DEF ListenFails, Exit, IInv, TypeOK, Up, NothingHandledAfterShutdown, listeners,
              queries, server
<1>3. CASE AcceptFails
  BY <1>3 DEF AcceptFails, Exit, IInv, TypeOK, Up, NothingHandledAfterShutdown, listeners,
              queries, server
<1>4. CASE Connect
  BY <1>4 DEF Connect, IInv, TypeOK, Up, NothingHandledAfterShutdown, listeners, queries
<1>5. CASE ClientsTurn
  BY <1>5 DEF ClientsTurn, IInv, TypeOK, Up, NothingHandledAfterShutdown, listeners, queries
<1> QED
  BY <1>1, <1>2, <1>3, <1>4, <1>5 DEF Serve

LEMMA NextPreserves == IInv /\ [Next]_vars => IInv'
<1> SUFFICES ASSUME IInv, [Next]_vars
             PROVE  IInv'
  OBVIOUS
<1>1. CASE Next
  BY <1>1, CountStep, StartSteps, StopSteps, ListenerSteps, QuerierSteps, ServerSteps
  DEF Next, Main
<1>2. CASE UNCHANGED vars
  BY <1>2, CountStep
  DEF vars, listeners, queries, server, IInv, TypeOK, Up, NothingHandledAfterShutdown
<1> QED
  BY <1>1, <1>2

\* The inductive invariant holds for every set of sockets and types.
THEOREM Invariance == Spec => []IInv
  BY InitEstablishes, NextPreserves, PTL DEF Spec

\* The goroutines match the sockets that were joined in every state.
THEOREM TypeCorrect == Spec => []TypeOK
<1>1. IInv => TypeOK
  BY DEF IInv
<1> QED
  BY Invariance, <1>1, PTL

\* wg.Wait leaves no goroutine that could still handle a packet: the counter it waits for
\* is the number of goroutines that live, however their starts, errors and ends interleave.
THEOREM NothingIsHandledAfterShutdown == Spec => []NothingHandledAfterShutdown
<1>1. IInv => NothingHandledAfterShutdown
  BY DEF IInv
<1> QED
  BY Invariance, <1>1, PTL

\* Each socket reads at most one packet after the stop channel was closed.
THEOREM AtMostOneMorePacket == Spec => []OneMorePacket
<1>1. IInv => OneMorePacket
  BY DEF IInv, OneMorePacket
<1> QED
  BY Invariance, <1>1, PTL

\* Only a read on an open socket fails with a message: closing the sockets is
\* never mistaken for a failure, because a closed socket implies a closed channel.
LEMMA LoggedWhileOpen ==
  ASSUME IInv, [Next]_vars, NEW s \in Socket, s \in logged' \ logged
  PROVE  sock[s] = "open"
<1>1. ReadError(s)
  BY DEF Next, Main, Joining, Listener, Run, Serve, Join, JoinFails, Started, CloseServer,
         Drained, CloseStop, CloseSocket, Wait, Return, Signal, Check, ReadTimeout, Read,
         ReadError, Drop, Handle, Published, StartQuerier, MetaQuery, TickerFires, List,
         Browse, RoundDone, Listen, ListenFails, AcceptFails, Connect, ClientsTurn, listeners, vars
<1> QED
  BY <1>1 DEF ReadError, IInv, TypeOK

THEOREM ShutdownIsQuiet == Spec => QuietShutdown
<1>1. IInv /\ [Next]_vars
        => [\A s \in Socket : s \in logged' \ logged => sock[s] = "open"]_vars
  BY LoggedWhileOpen
<1> QED
  BY Invariance, <1>1, PTL DEF Spec, QuietShutdown

-----------------------------------------------------------------------------
\* Steps of the goroutine of another socket, and of everybody else, leave a goroutine
\* where it is; its own bring it nearer to its end, as the stop channel was closed
\* before its socket.
LEMMA GoroutineStep ==
  ASSUME IInv, NEW s \in Socket, Listener(s) \/ Published(s), sock[s] = "closed",
         NEW r \in Socket, sock[r] = "closed"
  PROVE  /\ sock'[r] = "closed"
         /\ reader'[r] = reader[r] \/ StepsLeft(r)' < StepsLeft(r)
<1>1. /\ stop
      /\ reader \in [Socket ->
           {"none", "checking", "reading", "handling", "publishing", "ended"}]
  BY DEF IInv, TypeOK
<1>2. sock' = sock
  BY DEF Listener, Published, Check, ReadTimeout, Read, ReadError, Drop, Handle,
         Goes, Ends
<1>3. \E to \in {"ended", "checking", "publishing"} :
        /\ reader' = [reader EXCEPT ![s] = to]
        /\ \/ reader[s] \in {"checking", "reading"} /\ to = "ended"
           \/ reader[s] = "handling" /\ to \in {"checking", "publishing"}
           \/ reader[s] = "publishing" /\ to = "checking"
  BY <1>1 DEF Listener, Published, Check, ReadTimeout, Read, ReadError, Drop, Handle,
         Goes, Ends
<1>4. CASE r = s
  <2>1. StepsLeft(s)' < StepsLeft(s)
    BY <1>1, <1>3 DEF StepsLeft
  <2> QED
    BY <1>2, <1>4, <2>1
<1>5. CASE r # s
  BY <1>1, <1>2, <1>3, <1>5
<1> QED
  BY <1>4, <1>5

LEMMA WindsDownStep ==
  ASSUME IInv, [Next]_vars, NEW r \in Socket, sock[r] = "closed"
  PROVE  /\ sock'[r] = "closed"
         /\ reader'[r] = reader[r] \/ StepsLeft(r)' < StepsLeft(r)
<1>1. /\ sock \in [Socket -> {"none", "open", "closed"}]
      /\ reader \in [Socket ->
           {"none", "checking", "reading", "handling", "publishing", "ended"}]
      /\ r \in conns /\ conns \subseteq Socket \ unjoined
  BY DEF IInv, TypeOK
<1>2. ASSUME NEW s \in Socket, Join(s) \/ CloseSocket(s)
      PROVE  sock'[r] = "closed" /\ reader'[r] = reader[r]
  BY <1>1, <1>2 DEF Join, CloseSocket
<1>3. ASSUME NEW s \in Socket, Listener(s) \/ Published(s), sock[s] = "closed"
      PROVE  /\ sock'[r] = "closed"
             /\ reader'[r] = reader[r] \/ StepsLeft(r)' < StepsLeft(r)
  BY <1>3, GoroutineStep
<1>4. ASSUME NEW s \in Socket, Listener(s) \/ Published(s), sock[s] # "closed"
      PROVE  sock'[r] = "closed" /\ reader'[r] = reader[r]
  <2>1. sock' = sock /\ \E to : reader' = [reader EXCEPT ![s] = to]
    BY <1>4 DEF Listener, Published, Check, ReadTimeout, Read, ReadError, Drop, Handle,
         Goes, Ends
  <2> QED
    BY <1>1, <1>4, <2>1
<1>5. ASSUME \/ \E s \in Socket : JoinFails(s)
             \/ Started \/ CloseServer \/ Drained \/ CloseStop \/ Wait \/ Return
             \/ Signal \/ Run \/ Serve \/ AcceptFails \/ Connect \/ ClientsTurn
             \/ UNCHANGED vars
      PROVE  sock' = sock /\ reader' = reader
  BY <1>5 DEF JoinFails, Started, CloseServer, Drained, CloseStop, Wait, Return, Signal, Run,
         Serve, StartQuerier, MetaQuery, TickerFires, List, Browse, RoundDone, Listen,
         ListenFails, AcceptFails, Connect, ClientsTurn, listeners, vars
<1> QED
  BY <1>2, <1>3, <1>4, <1>5 DEF Next, Main, Joining

\* After its socket was closed a goroutine takes three steps at most, whatever packet it
\* holds: only a Publish that blocks can keep the closure of Start waiting for it.
THEOREM ShutdownWindsDown == Spec => WindsDown
<1>1. IInv /\ [Next]_vars =>
        [\A s \in Socket : sock[s] = "closed" =>
           /\ sock'[s] = "closed"
           /\ reader'[s] = reader[s] \/ StepsLeft(s)' < StepsLeft(s)]_vars
  BY WindsDownStep
<1> QED
  BY Invariance, <1>1, PTL DEF Spec, WindsDown

=============================================================================
