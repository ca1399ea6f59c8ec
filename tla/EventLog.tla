------------------------------ MODULE EventLog ------------------------------
(***************************************************************************)
(* What GET /api/v1/events promises: a first-in first-out history of the   *)
(* newest Cap discovery events, served oldest first.  Nothing here says    *)
(* how the history is stored; EventRing shows that the ring buffer of      *)
(* internal/model/events.go is such a history.                             *)
(***************************************************************************)
EXTENDS Naturals, Sequences

CONSTANTS
    Event,      \* the discovery events
    Cap         \* how many of them are retained

VARIABLES
    retained,   \* the retained events, oldest first
    response    \* the body of the last answer to GET /api/v1/events

vars == <<retained, response>>

\* The newest Cap elements of a history that is at most one event too long.
Newest(log) == IF Len(log) > Cap THEN Tail(log) ELSE log

Init ==
    /\ retained = << >>
    /\ response = << >>

Record(e) ==
    /\ retained' = Newest(Append(retained, e))
    /\ UNCHANGED response

Serve ==
    /\ response' = retained
    /\ UNCHANGED retained

Next ==
    \/ \E e \in Event : Record(e)
    \/ Serve

Spec == Init /\ [][Next]_vars

=============================================================================
