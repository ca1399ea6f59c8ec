---------------------------- MODULE EventStream ----------------------------
(***************************************************************************)
(* What the WebSocket stream promises: all events fall into one order, and *)
(* a subscriber receives, from the point at which it joined, each event of *)
(* that order exactly once and without a gap, until it leaves.             *)
(***************************************************************************)
EXTENDS Naturals, Sequences

CONSTANTS
    Conn,       \* the connections
    Event       \* the events

VARIABLES
    order,      \* all events, in the order of the stream
    start,      \* how many events were in it when a connection joined
    received    \* what the client of each connection has received

vars == <<order, start, received>>

Init ==
    /\ order = << >>
    /\ start = [c \in Conn |-> 0]
    /\ received = [c \in Conn |-> << >>]

\* The next event of the stream.
Broadcast(e) ==
    /\ order' = Append(order, e)
    /\ UNCHANGED <<start, received>>

\* A connection that has received nothing joins at the end of the stream.
Join(c) ==
    /\ received[c] = << >>
    /\ start' = [start EXCEPT ![c] = Len(order)]
    /\ UNCHANGED <<order, received>>

\* A client receives the event after the last one it has received.
Deliver(c) ==
    /\ start[c] + Len(received[c]) < Len(order)
    /\ received' = [received EXCEPT ![c] =
                      Append(@, order[start[c] + Len(@) + 1])]
    /\ UNCHANGED <<order, start>>

Next ==
    \/ \E e \in Event : Broadcast(e)
    \/ \E c \in Conn : Join(c) \/ Deliver(c)

Spec == Init /\ [][Next]_vars

=============================================================================
