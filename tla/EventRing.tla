----------------------------- MODULE EventRing -----------------------------
(***************************************************************************)
(* The ring buffer of discovery events (internal/model/events.go): Add is  *)
(* called by every listener goroutine at the end of HandleDNS, Snapshot by *)
(* the handler of GET /api/v1/events.  Both run under the RWMutex of the   *)
(* ring for their whole body, so each is one action.                       *)
(***************************************************************************)
EXTENDS Integers, Sequences

CONSTANTS
    Capacity,   \* the -events flag or MDNS_TOPOVIZ_EVENTS, any integer
    Event,      \* the discovery events
    ZeroEvent   \* model.Event{}: what a slot holds before it is written

ASSUME CapacityAssumption == Capacity \in Int
ASSUME EventAssumption == ZeroEvent \notin Event

VARIABLES
    buf,        \* the slots, indexed from 0
    head,       \* the slot the next Add writes
    full,       \* has head wrapped around at least once?
    response    \* what the last Snapshot returned

vars == <<buf, head, full, response>>

\* NewRing clamps a capacity below 1 (an operator's typo) to 1.
cap == IF Capacity < 1 THEN 1 ELSE Capacity

Slots == 0 .. cap - 1

\* Mutant: as if the ring were always full.
RingLenFixed == cap

\* How many events are retained (Ring.len).
RingLen == IF full THEN cap ELSE head

\* The slot of the oldest event.
Start == IF full THEN head ELSE 0

\* The slot i places after slot s, around the end of the buffer.
Index(s, i) == (s + i) % cap

\* The events Snapshot copies out, oldest first.
Contents == [i \in 1 .. RingLen |-> buf[Index(Start, i - 1)]]

Init ==
    /\ buf = [s \in Slots |-> ZeroEvent]
    /\ head = 0
    /\ full = FALSE
    /\ response = << >>

\* Mutant: the first wrap-around goes unnoticed.
AddForgettingFull(e) ==
    /\ buf' = [buf EXCEPT ![head] = e]
    /\ head' = IF head + 1 >= cap THEN 0 ELSE head + 1
    /\ UNCHANGED <<full, response>>

Add(e) ==
    /\ buf' = [buf EXCEPT ![head] = e]
    /\ IF head + 1 >= cap
         THEN head' = 0 /\ full' = TRUE
         ELSE head' = head + 1 /\ UNCHANGED full
    /\ UNCHANGED response

Snapshot ==
    /\ response' = Contents
    /\ UNCHANGED <<buf, head, full>>

Next ==
    \/ \E e \in Event : Add(e)
    \/ Snapshot

Spec == Init /\ [][Next]_vars

-----------------------------------------------------------------------------
\* The shape of the state.  In particular an answer holds real events only:
\* Snapshot never serves a slot that no Add has written.
TypeOK ==
    /\ buf \in [Slots -> Event \cup {ZeroEvent}]
    /\ head \in Slots
    /\ full \in BOOLEAN
    /\ response \in Seq(Event)

\* Exactly the slots that Snapshot will visit have been written (the
\* strengthening that makes TypeOK inductive).
WrittenSlots ==
    \A s \in Slots : buf[s] \in Event <=> (full \/ s < head)

IInv == TypeOK /\ WrittenSlots

\* The ring is a FIFO history of the newest cap events ("a fixed-capacity FIFO
\* of events for replay and export"): its contents, unrolled from the oldest
\* slot, behave as the abstract log, across any number of wrap-arounds.
Log == INSTANCE EventLog WITH Cap <- cap, retained <- Contents

RefinesLog == Log!Spec

=============================================================================
