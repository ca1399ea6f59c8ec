----------------------------- MODULE HubFanout -----------------------------
(***************************************************************************)
(* The hub (internal/api/hub.go), the handler of GET /api/v1/stream and    *)
(* its reader goroutine (internal/api/server.go), the listener goroutines  *)
(* that publish, and the clients at the other end of the connections.      *)
(*                                                                         *)
(* Publish writes to every subscriber while it holds the mutex of the hub, *)
(* and a write blocks while the send buffer of the connection is full: no  *)
(* write deadline is set.  Add and Remove hold the mutex for one statement *)
(* only, so each is one action.                                            *)
(***************************************************************************)
EXTENDS Integers, Sequences, FiniteSets

CONSTANTS
    Conn,           \* connections, one per upgraded request
    Listener,       \* the goroutines that call Publish
    Nobody,         \* no connection, or the holder of a free mutex
    SendBuffer,     \* frames the sockets between server and client hold
    MaxEvents       \* bound: events published by all listeners together

ASSUME HubAssumption ==
    /\ Nobody \notin Conn \cup Listener
    /\ SendBuffer \in Nat \ {0}
    /\ MaxEvents \in Nat

VARIABLES
    subs,           \* Hub.subs
    mu,             \* the listener that holds Hub.mu, or Nobody
    handler,        \* handleStream, per connection
    reader,         \* its reader goroutine
    conn,           \* is the server's end of the connection open?
    client,         \* the client: connected or gone
    sock,           \* frames written and not yet read by the client
    got,            \* events the client has received
    start,          \* history: events broadcast before the connection was added
    pub,            \* Publish, per listener
    ev,             \* the event it publishes
    todo,           \* subscribers the range loop has not reached
    target,         \* the subscriber it is writing to
    issued,         \* events handed to Publish so far (counts to MaxEvents)
    order           \* history: events in the order Publish took the mutex

hub == <<subs, mu>>
stream == <<handler, reader, conn, client, sock, got, start>>
publisher == <<pub, ev, todo, target, issued, order>>
vars == <<hub, stream, publisher>>

Event == 1 .. MaxEvents

-----------------------------------------------------------------------------
Init ==
    /\ subs = {}
    /\ mu = Nobody
    /\ handler = [c \in Conn |-> "none"]
    /\ reader = [c \in Conn |-> "none"]
    /\ conn = [c \in Conn |-> "none"]
    /\ client = [c \in Conn |-> "none"]
    /\ sock = [c \in Conn |-> << >>]
    /\ got = [c \in Conn |-> << >>]
    /\ start = [c \in Conn |-> 0]
    /\ pub = [l \in Listener |-> "idle"]
    /\ ev = [l \in Listener |-> 0]
    /\ todo = [l \in Listener |-> {}]
    /\ target = [l \in Listener |-> Nobody]
    /\ issued = 0
    /\ order = << >>

\* handleStream: the upgrade succeeds ...
Upgrade(c) ==
    /\ handler[c] = "none"
    /\ handler' = [handler EXCEPT ![c] = "upgraded"]
    /\ conn' = [conn EXCEPT ![c] = "open"]
    /\ client' = [client EXCEPT ![c] = "connected"]
    /\ UNCHANGED <<hub, reader, sock, got, start, publisher>>

\* ... Hub.Add ...
Add(c) ==
    /\ handler[c] = "upgraded"
    /\ mu = Nobody
    /\ subs' = subs \cup {c}
    /\ start' = [start EXCEPT ![c] = Len(order)]
    /\ handler' = [handler EXCEPT ![c] = "added"]
    /\ UNCHANGED <<mu, reader, conn, client, sock, got, publisher>>

\* ... and the go statement, after which the handler returns.
StartReader(c) ==
    /\ handler[c] = "added"
    /\ handler' = [handler EXCEPT ![c] = "returned"]
    /\ reader' = [reader EXCEPT ![c] = "reading"]
    /\ UNCHANGED <<hub, conn, client, sock, got, start, publisher>>

\* Mutant: Remove is never called.
ReadFailsOnly(c) ==
    /\ reader[c] = "reading"
    /\ client[c] = "gone" \/ conn[c] = "closed"
    /\ conn' = [conn EXCEPT ![c] = "closed"]
    /\ reader' = [reader EXCEPT ![c] = "ended"]
    /\ UNCHANGED <<hub, handler, client, sock, got, start, publisher>>

\* Mutant: the reader waits for the mutex before it closes the connection.
ReadFailsOpen(c) ==
    /\ reader[c] = "reading"
    /\ client[c] = "gone" \/ conn[c] = "closed"
    /\ reader' = [reader EXCEPT ![c] = "removing"]
    /\ UNCHANGED <<hub, handler, conn, client, sock, got, start, publisher>>

\* ReadMessage fails, because the client has gone or Publish has closed the
\* connection; the reader closes it.
ReadFails(c) ==
    /\ reader[c] = "reading"
    /\ client[c] = "gone" \/ conn[c] = "closed"
    /\ conn' = [conn EXCEPT ![c] = "closed"]
    /\ reader' = [reader EXCEPT ![c] = "removing"]
    /\ UNCHANGED <<hub, handler, client, sock, got, start, publisher>>

\* The deferred Hub.Remove.
Remove(c) ==
    /\ reader[c] = "removing"
    /\ mu = Nobody
    /\ subs' = subs \ {c}
    /\ reader' = [reader EXCEPT ![c] = "ended"]
    /\ UNCHANGED <<mu, handler, conn, client, sock, got, start, publisher>>

-----------------------------------------------------------------------------
\* HandleDNS calls Publish; json.Marshal needs no lock.
Begin(l) ==
    /\ pub[l] = "idle"
    /\ issued < MaxEvents
    /\ issued' = issued + 1
    /\ ev' = [ev EXCEPT ![l] = issued + 1]
    /\ pub' = [pub EXCEPT ![l] = "locking"]
    /\ UNCHANGED <<hub, stream, todo, target, order>>

\* Mutant: no mutex.
LockFree(l) ==
    /\ pub[l] = "locking"
    /\ mu' = l
    /\ todo' = [todo EXCEPT ![l] = subs]
    /\ order' = Append(order, ev[l])
    /\ pub' = [pub EXCEPT ![l] = "ranging"]
    /\ UNCHANGED <<subs, stream, ev, target, issued>>

Lock(l) ==
    /\ pub[l] = "locking"
    /\ mu = Nobody
    /\ mu' = l
    /\ todo' = [todo EXCEPT ![l] = subs]
    /\ order' = Append(order, ev[l])
    /\ pub' = [pub EXCEPT ![l] = "ranging"]
    /\ UNCHANGED <<subs, stream, ev, target, issued>>

\* Mutant: the loop returns to subscribers it has served.
PickAgain(l, c) ==
    /\ pub[l] = "ranging"
    /\ todo[l] # {} /\ c \in subs
    /\ target' = [target EXCEPT ![l] = c]
    /\ pub' = [pub EXCEPT ![l] = "writing"]
    /\ UNCHANGED <<hub, stream, ev, todo, issued, order>>

\* The range loop takes the subscribers in any order.
Pick(l, c) ==
    /\ pub[l] = "ranging"
    /\ c \in todo[l]
    /\ target' = [target EXCEPT ![l] = c]
    /\ pub' = [pub EXCEPT ![l] = "writing"]
    /\ UNCHANGED <<hub, stream, ev, todo, issued, order>>

\* Back to the range loop.
Reached(l) ==
    /\ todo' = [todo EXCEPT ![l] = @ \ {target[l]}]
    /\ target' = [target EXCEPT ![l] = Nobody]
    /\ pub' = [pub EXCEPT ![l] = "ranging"]
    /\ UNCHANGED <<ev, issued, order>>

\* WriteMessage succeeds when the connection has room for the frame, which it
\* may have for a while after the client has gone.
WriteOk(l) ==
    /\ pub[l] = "writing"
    /\ conn[target[l]] = "open"
    /\ Len(sock[target[l]]) < SendBuffer
    /\ sock' = [sock EXCEPT ![target[l]] = Append(@, ev[l])]
    /\ Reached(l)
    /\ UNCHANGED <<hub, handler, reader, conn, client, got, start>>

\* Mutant: the loop ends at the first error.
WriteFailsLast(l) ==
    /\ pub[l] = "writing"
    /\ conn' = [conn EXCEPT ![target[l]] = "closed"]
    /\ subs' = subs \ {target[l]}
    /\ todo' = [todo EXCEPT ![l] = {}]
    /\ target' = [target EXCEPT ![l] = Nobody]
    /\ pub' = [pub EXCEPT ![l] = "ranging"]
    /\ UNCHANGED <<mu, ev, issued, order, handler, reader, client, sock, got, start>>

\* The error branch: close the connection and delete it from the subscribers.
WriteFails(l) ==
    /\ pub[l] = "writing"
    /\ conn' = [conn EXCEPT ![target[l]] = "closed"]
    /\ subs' = subs \ {target[l]}
    /\ Reached(l)
    /\ UNCHANGED <<mu, handler, reader, client, sock, got, start>>

\* A write fails for sure on a connection the server has closed, even if it was
\* blocked before ...
WriteClosed(l) ==
    /\ pub[l] = "writing"
    /\ conn[target[l]] = "closed"
    /\ WriteFails(l)

\* ... and may fail when the client has gone (its host resets the connection).
WriteReset(l) ==
    /\ pub[l] = "writing"
    /\ conn[target[l]] = "open"
    /\ client[target[l]] = "gone"
    /\ WriteFails(l)

\* The loop is done; the deferred Unlock.
Unlock(l) ==
    /\ pub[l] = "ranging"
    /\ todo[l] = {}
    /\ mu' = Nobody
    /\ pub' = [pub EXCEPT ![l] = "idle"]
    /\ UNCHANGED <<subs, stream, ev, todo, target, issued, order>>

-----------------------------------------------------------------------------
\* The client reads a frame: its onmessage handler runs.
ClientReads(c) ==
    /\ client[c] = "connected"
    /\ sock[c] # << >>
    /\ got' = [got EXCEPT ![c] = Append(@, Head(sock[c]))]
    /\ sock' = [sock EXCEPT ![c] = Tail(@)]
    /\ UNCHANGED <<hub, handler, reader, conn, client, start, publisher>>

\* The client closes its end: it reads nothing any more.
ClientLeaves(c) ==
    /\ client[c] = "connected"
    /\ client' = [client EXCEPT ![c] = "gone"]
    /\ UNCHANGED <<hub, handler, reader, conn, sock, got, start, publisher>>

Serve(c) == Upgrade(c) \/ Add(c) \/ StartReader(c) \/ ReadFails(c) \/ Remove(c)

Publish(l) ==
    \/ Begin(l)
    \/ Lock(l)
    \/ \E c \in Conn : Pick(l, c)
    \/ WriteOk(l)
    \/ WriteClosed(l)
    \/ WriteReset(l)
    \/ Unlock(l)

Next ==
    \/ \E c \in Conn : Serve(c) \/ ClientReads(c) \/ ClientLeaves(c)
    \/ \E l \in Listener : Publish(l)

Spec == Init /\ [][Next]_vars

\* Goroutines that can run are run, and sync.Mutex serves every waiter in the
\* end (its starvation mode): strong fairness where the mutex is taken.  The
\* steps of a goroutine are enabled one at a time, so it has one condition of
\* each kind.
ServerFairness ==
    /\ \A c \in Conn :
         /\ SF_vars(Add(c) \/ Remove(c))
         /\ WF_vars(StartReader(c) \/ ReadFails(c))
    /\ \A l \in Listener :
         /\ SF_vars(Lock(l))
         /\ WF_vars(\/ \E c \in Conn : Pick(l, c)
                    \/ WriteOk(l)
                    \/ WriteClosed(l)
                    \/ Unlock(l))

\* Clients that read what they are sent, as a browser tab does, or leave.
LiveClients == \A c \in Conn : WF_vars(ClientReads(c))

FairSpec == Spec /\ ServerFairness /\ LiveClients

StallingSpec == Spec /\ ServerFairness

-----------------------------------------------------------------------------
\* The shape of the state, and who is where in the range loop.
TypeOK ==
    /\ subs \subseteq Conn
    /\ mu \in Listener \cup {Nobody}
    /\ handler \in [Conn -> {"none", "upgraded", "added", "returned"}]
    /\ reader \in [Conn -> {"none", "reading", "removing", "ended"}]
    /\ conn \in [Conn -> {"none", "open", "closed"}]
    /\ client \in [Conn -> {"none", "connected", "gone"}]
    /\ sock \in [Conn -> Seq(Event)]
    /\ got \in [Conn -> Seq(Event)]
    /\ start \in [Conn -> Nat]
    /\ pub \in [Listener -> {"idle", "locking", "ranging", "writing"}]
    /\ ev \in [Listener -> Event \cup {0}]
    /\ todo \in [Listener -> SUBSET Conn]
    /\ target \in [Listener -> Conn \cup {Nobody}]
    /\ issued \in 0 .. MaxEvents
    /\ order \in Seq(Event)
    /\ \A c \in Conn : Len(sock[c]) <= SendBuffer
    /\ \A l \in Listener : pub[l] = "writing" => target[l] \in todo[l]

\* A connection has one writer at a time, as the WebSocket library requires
\* (it panics otherwise): the hub's mutex sees to it.
OneWriter ==
    \A l, m \in Listener :
        pub[l] = "writing" /\ pub[m] = "writing" => l = m

\* A subscriber that is still owed the event being published.
Owed(c) == \E l \in Listener : c \in todo[l]

\* What a subscriber got and what is on its way to it are the events published
\* since it was added, each once and in the order of the stream, whatever
\* becomes of the other subscribers (the loop of Publish goes on after an
\* error, and nobody joins or leaves the set while it runs).
NoGaps ==
    \A c \in subs :
        LET due == Len(order) - (IF Owed(c) THEN 1 ELSE 0)
        IN  got[c] \o sock[c] = SubSeq(order, start[c] + 1, due)

-----------------------------------------------------------------------------
\* What makes these inductive.  The mutex is held by the one Publish that is in its
\* loop; it writes the last event of the order, to subscribers only; ...
Looping(l) == pub[l] \in {"ranging", "writing"}

MutexHeld ==
    \A l \in Listener :
        /\ mu = l <=> Looping(l)
        /\ Looping(l) => order # << >> /\ ev[l] = order[Len(order)]
        /\ ~Looping(l) => todo[l] = {}
        /\ todo[l] \subseteq subs
        /\ pub[l] # "idle" => ev[l] \in Event

\* ... nothing was written to a connection before it is added; and what was written,
\* to one that has since been removed too, continues the order where it joined.
InOrder(c) ==
    /\ handler[c] \in {"none", "upgraded"} => c \notin subs /\ got[c] = << >> /\ sock[c] = << >>
    /\ start[c] + Len(got[c]) + Len(sock[c]) <= Len(order)
    /\ \A i \in 1 .. Len(got[c]) : got[c][i] = order[start[c] + i]
    /\ \A i \in 1 .. Len(sock[c]) : sock[c][i] = order[start[c] + Len(got[c]) + i]

\* The number of events of the order that a subscriber has been written.
Complete(c) ==
    c \in subs =>
        start[c] + Len(got[c]) + Len(sock[c]) = Len(order) - (IF Owed(c) THEN 1 ELSE 0)

IInv ==
    /\ TypeOK /\ MutexHeld
    /\ \A c \in Conn : InOrder(c) /\ Complete(c)

\* A connection that was added and is still open has not dropped out of Hub.subs,
\* where its client would wait in vain for events; and it is not left there when its
\* reader has ended, after which nothing but a failing write would take it out.
Subscribed(c) ==
    /\ handler[c] \in {"added", "returned"} /\ conn[c] = "open" => c \in subs
    /\ reader[c] = "ended" => c \notin subs

\* NoGaps speaks of subscribers; these are the right ones.
SubscribersAreLive == \A c \in Conn : Subscribed(c)

\* What makes this inductive: the reader is there once the handler has returned, and
\* closes the connection before it waits to remove it.
InStep(c) ==
    /\ handler[c] = "none" <=> client[c] = "none"
    /\ handler[c] = "returned" <=> reader[c] # "none"
    /\ reader[c] \in {"removing", "ended"} => conn[c] = "closed"
    /\ Subscribed(c)

\* A Publish that is blocked, with the mutex held, because nobody makes room on the
\* connection it writes to.
Blocked(l) ==
    /\ pub[l] = "writing"
    /\ conn[target[l]] = "open"
    /\ Len(sock[target[l]]) = SendBuffer

\* No deadlock over the mutex of the hub: whoever can end a blocked write does not wait
\* for the mutex the writer holds.  It is the client, as long as it is connected; else
\* the reader, which is in its read and closes the connection before its deferred
\* Remove; or the handler, which is past Add and starts the reader.
NoMutexCycle ==
    \A l \in Listener :
        Blocked(l) =>
            \/ client[target[l]] = "connected"
            \/ handler[target[l]] = "added"
            \/ reader[target[l]] = "reading"

-----------------------------------------------------------------------------
\* The stream as its clients see it.
Stream == INSTANCE EventStream WITH received <- got

ImplementsStream == Stream!Spec

\* Publish returns, and with it every listener reads on: the reader of a client
\* that has gone closes the connection before it waits for the mutex, which
\* ends a write blocked on that connection.
PublishReturns ==
    \A l \in Listener : pub[l] = "locking" ~> pub[l] = "idle"

\* The variant of the range loop: nobody adds to what a Publish has to reach or changes
\* its event, and each write, whether it succeeds or fails, leaves one subscriber less.
LoopAdvances ==
    [][\A l \in Listener : Looping(l) /\ Looping(l)' =>
         /\ ev'[l] = ev[l]
         /\ todo'[l] \subseteq todo[l]
         /\ pub[l] = "writing" =>
              \/ pub'[l] = "writing" /\ target'[l] = target[l]
              \/ todo'[l] = todo[l] \ {target[l]} /\ todo'[l] # todo[l]]_vars

\* A client that has gone does not stay a subscriber.
GoneIsRemoved ==
    \A c \in Conn : client[c] = "gone" ~> [](c \notin subs)

\* Every event published after a connection was added reaches its client, unless
\* the client leaves.
Arrives(c) ==
    \A n \in Event :
        (c \in subs /\ start[c] < n /\ n <= Len(order))
            ~> (client[c] = "gone" \/ n <= start[c] + Len(got[c]))

\* A subscriber that stays connected receives everything.
EverythingArrives == \A c \in Conn : Arrives(c)

\* "Hub fans out discovery events to WebSocket subscribers"
\* (internal/api/hub.go:11): a subscriber whose own client keeps reading receives
\* everything.  It does not when another client stays connected without reading,
\* because Publish then blocks, with the mutex held, before it gets to the rest.
ReadersAreServed ==
    \A c \in Conn : WF_vars(ClientReads(c)) => Arrives(c)

=============================================================================
