----------------------------- MODULE EventFeed -----------------------------
(***************************************************************************)
(* The events a tab has received (web/src/App.tsx): the list of the newest *)
(* ones, filtered to the device that is selected, and the histogram of the *)
(* bottom bar, whose counts are kept by bucket of time so that they        *)
(* survive the eviction of events from the list.                           *)
(*                                                                         *)
(* Three clocks take part: the server's, which dates the events; Date.now, *)
(* by which buckets are pruned; and the state "clock", which an interval   *)
(* sets and which decides what is drawn.  The graph does not change here.  *)
(***************************************************************************)
EXTENDS GraphElements, Sequences

CONSTANTS
    Graph,          \* the graph the tab has loaded
    Hosts,          \* its "hosts": the label and the other names of each
    Short,          \* names of fewer than four characters
    EventRingCap,   \* EVENT_RING_CAP
    Width,          \* HUD_HIST_BUCKET_MS, in units of time
    Buckets,        \* HUD_HIST_BUCKETS
    PruneMargin,    \* HUD_HIST_PRUNE_MARGIN
    Ahead,          \* bound: how far the server's clock is ahead of the tab's
    Lag,            \* bound: how late setClock is, or how far Date.now is set back
    MaxTime,        \* bound: when the clock stops
    MaxPerBucket    \* bound: events with a time in one bucket

ASSUME FeedAssumption ==
    /\ IsGraph(Graph) /\ Short \subseteq Name
    /\ \A h \in DOMAIN Hosts :
         Hosts[h] \in [displayLabel : Name \cup {Nothing}, aliases : SUBSET Name]
    /\ EventRingCap \in Nat \ {0} /\ Width \in Nat \ {0} /\ Buckets \in Nat \ {0}
    /\ PruneMargin \in Nat /\ Ahead \in Nat /\ MaxTime \in Nat /\ MaxPerBucket \in Nat

\* The clock on the screen is at most as late as the margin of the pruning
\* (53 s in the code) allows for.
ASSUME LagAssumption == Lag \in Nat /\ Lag <= (PruneMargin + 1) * Width

\* As rebuildHostNodes labels the nodes of hosts.
ASSUME LabelAssumption ==
    \A n \in DOMAIN Graph.nodes : n.kind = "host" =>
        Graph.nodes[n].label = IF n.name \in DOMAIN Hosts /\ Hosts[n.name].displayLabel # Nothing
                                 THEN Hosts[n.name].displayLabel ELSE n.name

VARIABLES
    now,            \* Date.now()
    highest,        \* the latest it has been (history)
    clock,          \* the state "clock"
    events,         \* the newest events, newest first
    counts,         \* hudBucketCountsRef: bucket -> count
    received,       \* bucket -> events ever received with a time in it (history)
    selected        \* the node that is selected

vars == <<now, highest, clock, events, counts, received, selected>>

DiscoveryEvent == [src : Ip, names : SUBSET Name]

Init ==
    /\ now \in 0 .. MaxTime /\ highest = now /\ clock = now
    /\ events = << >>
    /\ counts = << >> /\ received = << >>
    /\ selected = Nothing

-----------------------------------------------------------------------------
\* Mutant: an event is put in front and none is dropped.
PrependAll(ev, evs) == <<ev>> \o evs

\* setEvents: the new event first, the oldest beyond the cap dropped.
Prepend(ev, evs) ==
    SubSeq(<<ev>> \o evs, 1, IF Len(evs) < EventRingCap THEN Len(evs) + 1 ELSE EventRingCap)

Count(k, c) == IF k \in DOMAIN c THEN c[k] ELSE 0

\* One more event at time t.
Counted(t, c) ==
    [k \in DOMAIN c \cup {t \div Width} |-> Count(k, c) + (IF k = t \div Width THEN 1 ELSE 0)]

\* Mutant: nothing is dropped.
PrunedNever(c) == c

\* Mutant: what has left the window is dropped without a margin.
PrunedAtWindow(c) == [k \in {j \in DOMAIN c : j > now \div Width - Buckets} |-> c[k]]

\* The buckets that are left when those before the window and its margin are dropped.
Pruned(c) ==
    [k \in {j \in DOMAIN c : j >= now \div Width - Buckets - PruneMargin} |-> c[k]]

\* onmessage, as far as the list and the histogram go.
Message ==
    /\ \E t \in 0 .. now + Ahead :
         /\ Count(t \div Width, received) < MaxPerBucket
         /\ counts' = Pruned(Counted(t, counts))
         /\ received' = Counted(t, received)
    /\ \E ev \in DiscoveryEvent : events' = Prepend(ev, events)
    /\ UNCHANGED <<now, highest, clock, selected>>

\* Time passes; the interval that sets the clock is at most Lag late.
Passes ==
    /\ now < MaxTime /\ now < clock + Lag
    /\ now' = now + 1
    /\ highest' = IF now' > highest THEN now' ELSE highest
    /\ UNCHANGED <<clock, events, counts, received, selected>>

\* The system clock is set back.
SetBack ==
    /\ now > 0 /\ now > highest - Lag
    /\ now' = now - 1
    /\ UNCHANGED <<highest, clock, events, counts, received, selected>>

\* setClock(Date.now())
TickClock ==
    /\ clock # now
    /\ clock' = now
    /\ UNCHANGED <<now, highest, events, counts, received, selected>>

\* setSelected, from a tap or because the node is gone.
Select ==
    /\ selected' \in (DOMAIN Graph.nodes \cup {Nothing}) \ {selected}
    /\ UNCHANGED <<now, highest, clock, events, counts, received>>

Next == Message \/ Passes \/ SetBack \/ TickClock \/ Select

Spec == Init /\ [][Next]_vars

-----------------------------------------------------------------------------
\* The bars of packetTimeline, from left to right.
Shown == (clock \div Width - Buckets + 1) .. clock \div Width

\* Mutant: only the key and the other names are looked for.
NeedlesWithoutLabel(h) ==
    {h} \cup (IF h \in DOMAIN Hosts THEN Hosts[h].aliases ELSE {})

\* What filteredEvents looks for in the events of a device; eventRelatesToHost does
\* not look for short names.
Needles(h) ==
    {h} \cup (IF h \in DOMAIN Hosts
                THEN Hosts[h].aliases \cup ({Hosts[h].displayLabel} \ {Nothing}) ELSE {})

EventRelatesToHost(ev, n) ==
    \/ ev.src \in Graph.nodes[n].ips
    \/ (Needles(n.name) \ Short) \cap ev.names # {}

\* filteredEvents, which keeps the order: the places in the list of those that stay.
FilteredEvents ==
    {i \in DOMAIN events :
       selected \in DOMAIN Graph.nodes /\ selected.kind = "host"
         => EventRelatesToHost(events[i], selected)}

-----------------------------------------------------------------------------
\* The shape of the state.  The list never holds more than its cap, and what a clock
\* shows that is set now and then is not too far behind.
TypeOK ==
    /\ now \in Nat /\ highest \in Nat /\ clock \in Nat
    /\ now <= highest /\ highest <= now + Lag /\ highest <= clock + Lag
    /\ events \in Seq(DiscoveryEvent) /\ Len(events) <= EventRingCap
    /\ \A c \in {counts, received} :
         DOMAIN c \subseteq Nat /\ \A k \in DOMAIN c : c[k] \in Nat \ {0}
    /\ selected \in DOMAIN Graph.nodes \cup {Nothing}

\* "Past buckets keep their counts even when the event list ring drops old rows"
\* (App.tsx:1539): each bar on the screen is the number of all events received
\* with a time in its bucket, those that are out of the list included, although
\* buckets are pruned by one clock and drawn by another.  Their sum, the count
\* beside the bars, is therefore not bounded by EVENT_RING_CAP, although the comment
\* on that constant says so (App.tsx:134); nor can the true count be higher than it,
\* as the tooltip says when the list is full (App.tsx:1554).
BarsExact ==
    \A k \in Shown : Count(k, counts) = Count(k, received)

\* The buckets that are kept do not become more and more: when the last event came
\* all but those of the window, the margin, and what clocks may differ by were dropped.
BucketsBounded ==
    Cardinality(DOMAIN counts) <=
        Buckets + PruneMargin + 1 + (Lag + Ahead + Width - 1) \div Width

\* What makes these inductive: the counts are exact from the window of the latest time
\* there has been on, less the margin; and when the last event came, at t, what is
\* older was dropped, and no event is dated later than by the latest time so far.
KeptExact ==
    /\ DOMAIN counts \subseteq DOMAIN received
    /\ \A k \in DOMAIN received :
         k >= highest \div Width - Buckets - PruneMargin => Count(k, counts) = received[k]

Spread ==
    /\ \E t \in 0 .. highest :
         DOMAIN counts \subseteq
           (t \div Width - Buckets - PruneMargin) .. ((t + Lag + Ahead) \div Width)
    /\ \A k \in DOMAIN received : k <= (highest + Ahead) \div Width

IInv == TypeOK /\ KeptExact /\ Spread

\* An event that makes the selected device pulse is the first of the list that is
\* "filtered to device", although the two are decided by different rules; not so
\* where it is known by a short label.
PulseIsListed ==
    LET ev == events[1]
    IN  /\ events # << >>
        /\ selected \in RelatedNodes(ev, Graph) /\ selected.kind = "host"
        /\ selected.name \notin Short /\ Graph.nodes[selected].label \notin Short
        => 1 \in FilteredEvents

=============================================================================
