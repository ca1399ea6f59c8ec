----------------------------- MODULE Lifecycle -----------------------------
(***************************************************************************)
(* The life of the process: main starts one goroutine per multicast socket *)
(* (internal/listener/listener.go), the DNS-SD querier                     *)
(* (internal/discovery/querier.go) and the HTTP server, waits for SIGINT   *)
(* or SIGTERM, and runs its deferred calls (cmd/mdns-topoviz/main.go).     *)
(*                                                                         *)
(* HandleDNS is two steps here: what it does to the engine, of which the   *)
(* types seen matter to the querier, and Publish, which does not return    *)
(* while a client of the stream stalls (HubFanout shows why).              *)
(***************************************************************************)
EXTENDS Integers, FiniteSets

CONSTANTS
    Socket,         \* the eligible interfaces, once for IPv4 and once for IPv6
    Type,           \* service types that enumeration answers name
    QueryInterval,  \* the values -query-interval may have
    MaxPackets      \* bound: packets read by all sockets together

ASSUME LifecycleAssumption ==
    /\ IsFiniteSet(Socket)
    /\ QueryInterval \subseteq Int
    /\ MaxPackets \in Nat

VARIABLES
    main,           \* where main is; "exited" once the process is gone
    exit,           \* how the process ended
    unjoined,       \* sockets listener.Start has not come to
    conns,          \* the sockets it joined
    stop,           \* is the stop channel of the listeners closed?
    sock,           \* each socket: none, open or closed
    reader,         \* the goroutine of each socket
    wg,             \* the counter of the WaitGroup of listener.Start
    logged,         \* sockets whose read error was logged
    packets,        \* packets read so far (counts to MaxPackets)
    late,           \* history: packets each socket read after stop was closed
    seen,           \* Engine.seenTypes
    querier,        \* the goroutine of the querier
    interval,       \* its interval
    todo,           \* types it still has to browse in this round
    browsed,        \* history: types it has asked for
    http,           \* the HTTP server
    clients         \* the clients of the stream, together

listeners == <<unjoined, conns, stop, sock, reader, wg, logged, packets, late>>
queries == <<seen, querier, interval, todo, browsed>>
server == <<http, clients>>
vars == <<main, exit, listeners, queries, server>>

Up == main # "exited"

Exit(how) == main' = "exited" /\ exit' = how

Init ==
    /\ main = "starting" /\ exit = "none"
    /\ unjoined = Socket
    /\ conns = {}
    /\ stop = FALSE
    /\ sock = [s \in Socket |-> "none"]
    /\ reader = [s \in Socket |-> "none"]
    /\ wg = 0
    /\ logged = {}
    /\ packets = 0
    /\ late = [s \in Socket |-> 0]
    /\ seen = {}
    /\ querier = "off"
    /\ interval \in QueryInterval
    /\ todo = {} /\ browsed = {}
    /\ http = "off"
    /\ clients = "none"

-----------------------------------------------------------------------------
(* main and listener.Start                                                 *)

\* Mutant: the goroutine is not counted.
JoinUncounted(s) ==
    /\ main = "starting"
    /\ s \in unjoined
    /\ unjoined' = unjoined \ {s}
    /\ conns' = conns \cup {s}
    /\ sock' = [sock EXCEPT ![s] = "open"]
    /\ reader' = [reader EXCEPT ![s] = "checking"]
    /\ UNCHANGED <<main, exit, stop, wg, logged, packets, late, queries, server>>

\* ListenMulticastUDP succeeds for the next socket: startRead counts its
\* goroutine, wg.Add(1), and starts it.
Join(s) ==
    /\ main = "starting"
    /\ s \in unjoined
    /\ unjoined' = unjoined \ {s}
    /\ conns' = conns \cup {s}
    /\ sock' = [sock EXCEPT ![s] = "open"]
    /\ wg' = wg + 1
    /\ reader' = [reader EXCEPT ![s] = "checking"]
    /\ UNCHANGED <<main, exit, stop, logged, packets, late, queries, server>>

\* It fails, which is logged.
JoinFails(s) ==
    /\ main = "starting"
    /\ s \in unjoined
    /\ unjoined' = unjoined \ {s}
    /\ UNCHANGED <<main, exit, conns, stop, sock, reader, wg, logged, packets, late,
                   queries, server>>

\* Mutant: no socket is needed.
StartedAnyway ==
    /\ main = "starting"
    /\ unjoined = {}
    /\ main' = "serving"
    /\ querier' = "starting"
    /\ http' = "starting"
    /\ UNCHANGED <<exit, listeners, seen, interval, todo, browsed, clients>>

\* Start returns.  Without a single socket main gives up, else it starts the
\* querier and the HTTP server and waits for a signal.
Started ==
    /\ main = "starting"
    /\ unjoined = {}
    /\ IF conns = {}
         THEN /\ Exit("fatal")
              /\ UNCHANGED <<querier, http>>
         ELSE /\ main' = "serving"
              /\ querier' = "starting"
              /\ http' = "starting"
              /\ UNCHANGED exit
    /\ UNCHANGED <<listeners, seen, interval, todo, browsed, clients>>

\* SIGINT or SIGTERM: fatal before signal.Notify; later it starts the shutdown.
\* a second signal stays in the channel.
Signal ==
    /\ \/ main = "starting" /\ Exit("killed")
       \/ main = "serving" /\ main' = "draining" /\ UNCHANGED exit
    /\ UNCHANGED <<listeners, queries, server>>

\* srv.Shutdown accepts no more requests ...
CloseServer ==
    /\ main = "draining"
    /\ http # "closed"
    /\ http' = "closed"
    /\ UNCHANGED <<main, exit, listeners, queries, clients>>

\* ... and returns when none is in flight or its context is 5 s old, so always.
\* The connections of the stream are hijacked: it leaves them open.
Drained ==
    /\ main = "draining"
    /\ http = "closed"
    /\ main' = "stopping"
    /\ UNCHANGED <<exit, listeners, queries, server>>

\* Mutant: the stop channel stays open.
LeaveStop ==
    /\ main = "stopping"
    /\ main' = "closing"
    /\ UNCHANGED <<exit, listeners, queries, server>>

\* The closure that Start returned, deferred: close(stop) ...
CloseStop ==
    /\ main = "stopping"
    /\ stop' = TRUE
    /\ main' = "closing"
    /\ UNCHANGED <<exit, unjoined, conns, sock, reader, wg, logged, packets, late,
                   queries, server>>

\* ... Close for each socket ...
CloseSocket(s) ==
    /\ main = "closing"
    /\ s \in conns
    /\ sock[s] = "open"
    /\ sock' = [sock EXCEPT ![s] = "closed"]
    /\ UNCHANGED <<main, exit, unjoined, conns, stop, reader, wg, logged, packets, late,
                   queries, server>>

\* ... and wg.Wait.
Wait ==
    /\ main = "closing"
    /\ \A s \in conns : sock[s] = "closed"
    /\ wg = 0
    /\ main' = "ending"
    /\ UNCHANGED <<exit, listeners, queries, server>>

\* The last deferred call closes the stop channel of the querier; main returns,
\* which ends the process and all its goroutines.
Return ==
    /\ main = "ending"
    /\ Exit("clean")
    /\ UNCHANGED <<listeners, queries, server>>

-----------------------------------------------------------------------------
(* The goroutine of a socket                                               *)

Goes(s, to) == reader' = [reader EXCEPT ![s] = to] /\ UNCHANGED wg

\* The goroutine returns, for good: the deferred wg.Done().
Ends(s) == reader' = [reader EXCEPT ![s] = "ended"] /\ wg' = wg - 1

\* The select statement at the head of the loop.
Check(s) ==
    /\ Up
    /\ reader[s] = "checking"
    /\ IF stop THEN Ends(s) ELSE Goes(s, "reading")
    /\ UNCHANGED <<main, exit, unjoined, conns, stop, sock, logged, packets, late,
                   queries, server>>

\* No packet for 750 ms.
ReadTimeout(s) ==
    /\ Up
    /\ reader[s] = "reading"
    /\ sock[s] = "open"
    /\ Goes(s, "checking")
    /\ UNCHANGED <<main, exit, unjoined, conns, stop, sock, logged, packets, late,
                   queries, server>>

Read(s) ==
    /\ Up
    /\ reader[s] = "reading"
    /\ sock[s] = "open"
    /\ packets < MaxPackets
    /\ packets' = packets + 1
    /\ late' = [late EXCEPT ![s] = IF stop THEN @ + 1 ELSE @]
    /\ Goes(s, "handling")
    /\ UNCHANGED <<main, exit, unjoined, conns, stop, sock, logged, queries, server>>

\* Mutant: a goroutine whose read fails does not call Done.
ReadErrorUndone(s) ==
    /\ Up
    /\ reader[s] = "reading"
    /\ Goes(s, "ended")
    /\ logged' = IF stop THEN logged ELSE logged \cup {s}
    /\ UNCHANGED <<main, exit, unjoined, conns, stop, sock, packets, late,
                   queries, server>>

\* Another error: the socket was closed, or the interface is in trouble.  It is
\* logged unless the listeners are being stopped; the goroutine ends.
ReadError(s) ==
    /\ Up
    /\ reader[s] = "reading"
    /\ Ends(s)
    /\ logged' = IF stop THEN logged ELSE logged \cup {s}
    /\ UNCHANGED <<main, exit, unjoined, conns, stop, sock, packets, late,
                   queries, server>>

\* HandleDNS drops a packet without records ...
Drop(s) ==
    /\ Up
    /\ reader[s] = "handling"
    /\ Goes(s, "checking")
    /\ UNCHANGED <<main, exit, unjoined, conns, stop, sock, logged, packets, late,
                   queries, server>>

\* ... or applies it; an enumeration answer names types.
Handle(s, types) ==
    /\ Up
    /\ reader[s] = "handling"
    /\ seen' = seen \cup types
    /\ Goes(s, "publishing")
    /\ UNCHANGED <<main, exit, unjoined, conns, stop, sock, logged, packets, late,
                   querier, interval, todo, browsed, server>>

\* Publish returns.
Published(s) ==
    /\ Up
    /\ reader[s] = "publishing"
    /\ clients # "stalled"
    /\ Goes(s, "checking")
    /\ UNCHANGED <<main, exit, unjoined, conns, stop, sock, logged, packets, late,
                   queries, server>>

-----------------------------------------------------------------------------
(* Querier.Run                                                             *)

\* NewTicker panics for an interval that is not positive.
StartQuerier ==
    /\ Up
    /\ querier = "starting"
    /\ IF interval <= 0
         THEN Exit("panic") /\ UNCHANGED querier
         ELSE querier' = "asking" /\ UNCHANGED <<main, exit>>
    /\ UNCHANGED <<listeners, seen, interval, todo, browsed, server>>

\* metaQuery returns: at the start and before a round of browsing.  An answer
\* that comes to the querier itself is discarded.
MetaQuery ==
    /\ Up
    /\ querier \in {"asking", "ticked"}
    /\ querier' = IF querier = "asking" THEN "waiting" ELSE "listing"
    /\ UNCHANGED <<main, exit, listeners, seen, interval, todo, browsed, server>>

TickerFires ==
    /\ Up
    /\ querier = "waiting"
    /\ querier' = "ticked"
    /\ UNCHANGED <<main, exit, listeners, seen, interval, todo, browsed, server>>

\* browseDiscovered: DiscoveredTypes ...
List ==
    /\ Up
    /\ querier = "listing"
    /\ todo' = seen
    /\ querier' = "browsing"
    /\ UNCHANGED <<main, exit, listeners, seen, interval, browsed, server>>

\* ... and a query for each, in any order; an error is logged.
Browse(t) ==
    /\ Up
    /\ querier = "browsing"
    /\ t \in todo
    /\ todo' = todo \ {t}
    /\ browsed' = browsed \cup {t}
    /\ UNCHANGED <<main, exit, listeners, seen, querier, interval, server>>

\* Mutant: the querier returns after its first round.
RoundLast ==
    /\ Up
    /\ querier = "browsing"
    /\ todo = {}
    /\ querier' = "off"
    /\ UNCHANGED <<main, exit, listeners, seen, interval, todo, browsed, server>>

RoundDone ==
    /\ Up
    /\ querier = "browsing"
    /\ todo = {}
    /\ querier' = "waiting"
    /\ UNCHANGED <<main, exit, listeners, seen, interval, todo, browsed, server>>

-----------------------------------------------------------------------------
(* The HTTP server and the clients of the stream                           *)

\* ListenAndServe cannot listen.  (After Shutdown it returns ErrServerClosed at
\* once, which ends its goroutine only.)
ListenFails ==
    /\ Up
    /\ http = "starting"
    /\ Exit("fatal")
    /\ UNCHANGED <<listeners, queries, server>>

\* Accept fails: ListenAndServe returns the error, which is fatal as well.
AcceptFails ==
    /\ Up
    /\ http = "listening"
    /\ Exit("fatal")
    /\ UNCHANGED <<listeners, queries, server>>

Listen ==
    /\ Up
    /\ http = "starting"
    /\ http' = "listening"
    /\ UNCHANGED <<main, exit, listeners, queries, clients>>

\* A client subscribes; clients stop reading, read again, leave.
Connect ==
    /\ Up
    /\ http = "listening"
    /\ clients = "none"
    /\ clients' = "reading"
    /\ UNCHANGED <<main, exit, listeners, queries, http>>

ClientsTurn ==
    /\ Up
    /\ clients # "none"
    /\ clients' \in {"none", "reading", "stalled"} \ {clients}
    /\ UNCHANGED <<main, exit, listeners, queries, http>>

-----------------------------------------------------------------------------
Joining == \E s \in Socket : Join(s) \/ JoinFails(s)

Main ==
    \/ Joining \/ Started
    \/ CloseServer \/ Drained
    \/ CloseStop
    \/ \E s \in Socket : CloseSocket(s)
    \/ Wait \/ Return

Listener(s) ==
    \/ Check(s)
    \/ ReadTimeout(s) \/ Read(s) \/ ReadError(s)
    \/ Drop(s)
    \/ \E types \in SUBSET Type : Handle(s, types)

Run ==
    \/ StartQuerier \/ MetaQuery \/ TickerFires \/ List
    \/ \E t \in Type : Browse(t)
    \/ RoundDone

Serve == Listen \/ ListenFails

Next ==
    \/ Main \/ Signal
    \/ \E s \in Socket : Listener(s) \/ Published(s)
    \/ Run
    \/ Serve \/ AcceptFails \/ Connect \/ ClientsTurn

\* Goroutines that can run are run; reads, exchanges and the ticker have
\* deadlines.  A listener that wants to publish does once clients read often
\* enough (strong fairness: see HubFanout).  No client has to read, no packet
\* and no signal has to come.
Spec ==
    /\ Init /\ [][Next]_vars
    /\ WF_vars(Main) /\ WF_vars(Run) /\ WF_vars(Serve)
    /\ \A s \in Socket : WF_vars(Listener(s)) /\ SF_vars(Published(s))

-----------------------------------------------------------------------------
\* The shape of the state: a goroutine runs only for a socket that was joined,
\* and main serves only with one.
TypeOK ==
    /\ main \in {"starting", "serving", "draining", "stopping", "closing",
                 "ending", "exited"}
    /\ exit \in {"none", "fatal", "killed", "panic", "clean"}
    /\ exit = "none" <=> Up
    /\ unjoined \subseteq Socket /\ conns \subseteq Socket \ unjoined
    /\ stop \in BOOLEAN
    /\ sock \in [Socket -> {"none", "open", "closed"}]
    /\ reader \in [Socket ->
         {"none", "checking", "reading", "handling", "publishing", "ended"}]
    /\ \A s \in Socket : /\ reader[s] = "none" <=> s \notin conns
                         /\ sock[s] = "none" <=> s \notin conns
    /\ wg \in Nat
    /\ logged \subseteq conns
    /\ packets \in 0 .. MaxPackets
    /\ late \in [Socket -> Nat]
    /\ seen \subseteq Type /\ todo \subseteq seen /\ browsed \subseteq seen
    /\ querier \in {"off", "starting", "asking", "waiting", "ticked", "listing", "browsing"}
    /\ http \in {"off", "starting", "listening", "closed"}
    /\ clients \in {"none", "reading", "stalled"}
    /\ main \notin {"starting", "exited"} => conns # {}

\* When the closure that Start returned is through, no goroutine of a socket is
\* left to touch the registry, the history or the hub.  wg.Wait sees a number and
\* no goroutine: this holds because startRead counts each goroutine before main
\* can come to Wait, and each way out of its loop counts it back once.
NothingHandledAfterShutdown ==
    main = "ending" \/ exit = "clean" =>
        \A s \in Socket : reader[s] \in {"none", "ended"}

\* A shutdown logs no read errors: the stop channel is closed before the first
\* socket, so a goroutine whose socket is closed under its read sees it.
QuietShutdown ==
    [][\A s \in Socket : s \in logged' \ logged => sock[s] = "open"]_vars

\* Once stopped, a socket reads at most one more packet: the read that may
\* already be past the check of the stop channel.
OneMorePacket == \A s \in Socket : late[s] <= 1

\* The goroutines of the sockets that have not returned, which the WaitGroup counts.
Live == {s \in Socket : reader[s] \notin {"none", "ended"}}
CountsLive == wg = Cardinality(Live)

\* What makes these inductive: the WaitGroup counts the live goroutines, the
\* sockets are closed after the stop channel, and a goroutine that read a packet
\* too many is not reading.
IInv ==
    /\ TypeOK
    /\ NothingHandledAfterShutdown
    /\ CountsLive
    /\ \A s \in Socket :
         /\ sock[s] = "closed" => stop
         /\ late[s] \in {0, 1}
         /\ late[s] = 1 => stop /\ reader[s] # "reading"
    /\ main \in {"closing", "ending"} => stop

\* The steps the goroutine of a closed socket has left, at most.
StepsLeft(s) ==
    CASE reader[s] \in {"none", "ended"} -> 0
      [] reader[s] \in {"checking", "reading"} -> 1
      [] reader[s] = "publishing" -> 2
      [] reader[s] = "handling" -> 3

\* The variant of the shutdown: once a socket is closed, each step of its goroutine brings
\* it nearer to its end, whichever packet it has in hand, since neither the loop nor the
\* read starts again.  Nothing but a Publish that blocks can then hold wg.Wait.
WindsDown ==
    [][\A s \in Socket : sock[s] = "closed" =>
         /\ sock'[s] = "closed"
         /\ reader'[s] = reader[s] \/ StepsLeft(s)' < StepsLeft(s)]_vars

\* After a signal the process ends, unless the clients of the stream stall for
\* ever: then the listener that is publishing never returns, wg.Wait waits for
\* it, and later signals are caught and not acted on.
ExitsUnlessStalled == main = "draining" ~> (~Up \/ [](clients = "stalled"))

\* A type that was enumerated is browsed as long as the process lives, whichever
\* moment of the querier's round it is seen in.
SeenTypesBrowsed == \A t \in Type : t \in seen ~> (t \in browsed \/ ~Up)

=============================================================================
