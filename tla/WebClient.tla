----------------------------- MODULE WebClient -----------------------------
(***************************************************************************)
(* A tab of the browser (web/src/App.tsx): it loads the graph when it      *)
(* opens, every 12 s, and 1.8 s after the last event of the stream, and    *)
(* draws it by changing the elements Cytoscape already has.  Requests may  *)
(* overlap, fail and be answered out of order; the WebSocket may close and *)
(* is not reopened; the user filters and selects; and the effects of the   *)
(* component may be cleaned up and run again while Cytoscape is still      *)
(* being imported, as StrictMode and Fast Refresh do in development.       *)
(*                                                                         *)
(* The server is the list of graphs it shows one after the other, with the *)
(* event that announces each.  React renders an answer first and runs the  *)
(* effects of that render later, so handlers may run in between; what an   *)
(* effect sets is rendered later again.  What is due comes before what is  *)
(* set next, except that a click is rendered at once, with its effects,    *)
(* before what an effect has set (react-dom 18, external).                 *)
(***************************************************************************)
EXTENDS GraphElements, Sequences
LOCAL INSTANCE Functions

CONSTANTS
    Graphs,         \* the successive graphs of the server
    News,           \* the event of each: its source address and the names in it
    Sent,           \* no version yet: a request that is not answered
    InFlight,       \* bound: how many requests may overlap
    Queries,        \* bound: what the user searches for
    Rows,           \* bound: the rows of the legend the user clicks on
    Mounts,         \* bound: how often the effects are run
    Clicks          \* bound: how often the user does something

ASSUME GraphsAssumption ==
    /\ Len(Graphs) \in Nat \ {0} /\ DOMAIN Graphs = 1 .. Len(Graphs)
    /\ \A v \in DOMAIN Graphs :
         /\ IsGraph(Graphs[v])
         /\ \A n \in DOMAIN Graphs[v].nodes :
              n.kind = "service" => n.name \in DOMAIN Graphs[v].target
    /\ \A v \in DOMAIN Graphs : News[v] \in [src : Ip, names : SUBSET Name]
    /\ Nothing \notin Node \cup Nat
    /\ Sent \notin Nat
    /\ InFlight \in Nat \ {0}
    /\ Queries \subseteq Name /\ Rows \subseteq LegendKey
    /\ Mounts \in Nat \ {0} /\ Clicks \in Nat

VARIABLES
    version,        \* which of Graphs the server has
    ws,             \* the WebSocket
    frames,         \* events on their way to the tab, by version
    debounce,       \* is the 1.8 s timer set?
    requests,       \* how many are not answered, and how many with each version
    snap,           \* the version in the state of React, which the panel shows
    snapRef,        \* snapRef.current: the one the effects last ran with
    work,           \* what React still has to do: nothing, effects, a render
    mount,          \* how often the effects have been run
    loading,        \* the mounts that are still setting up Cytoscape
    engines,        \* the mounts whose Cytoscape exists
    cyReady,
    view,           \* what Cytoscape shows, and the two refs of the draw effect
    filters,        \* types, iface, query and legendPick
    selected,       \* the node whose details are shown
    clicks          \* what the user has done so far

server == <<version, ws, frames>>
screen == <<mount, loading, engines, cyReady>>
user == <<filters, clicks>>
panel == <<snap, snapRef, work, selected>>
vars == <<server, debounce, requests, panel, screen, view, user>>

Versions == DOMAIN Graphs

NoView == [drawn |-> Empty, hidden |-> {}, placed |-> {}, ripples |-> {},
           structureSig |-> Nothing, hasInitialLayout |-> FALSE]

\* The draw effect: merge, hide, pulse, and lay out anew when the structure is not
\* the one of the last layout.  A node that pulsed less than 140 ms ago does not
\* pulse again, hence any part of those touched.
Draw(v, g, f) ==
    LET same == GraphStructureKey(g) = v.structureSig
        touched == IF v.hasInitialLayout /\ same
                     THEN CollectDataTouchPulseIds(v.drawn, g) ELSE {}
        empty == DOMAIN g.nodes = {}
        layOut == ~empty /\ (~v.hasInitialLayout \/ ~same)
    IN  {[drawn |-> MergeGraphElements(v.drawn, g),
          hidden |-> FilterHidden(MergeGraphElements(v.drawn, g), f),
          placed |-> IF layOut THEN DOMAIN g.nodes ELSE v.placed \cap DOMAIN g.nodes,
          ripples |-> IF empty \/ layOut THEN {} ELSE v.ripples \cup R,
          structureSig |-> GraphStructureKey(g),
          hasInitialLayout |-> v.hasInitialLayout \/ ~empty] : R \in SUBSET touched}

\* The effect runs when the graph, a filter or cyReady changes.
Redraw(ready, s, f) ==
    IF ready /\ s # Nothing THEN Draw(view, Graphs[s], f) ELSE {view}

-----------------------------------------------------------------------------
\* The component is mounted: Cytoscape is being imported, the first loadGraph is
\* on its way, the WebSocket is opening.
Init ==
    /\ version = 1 /\ ws = "connecting" /\ frames = << >>
    /\ debounce = FALSE
    /\ requests = [a \in Versions \cup {Sent} |-> IF a = Sent THEN 1 ELSE 0]
    /\ snap = Nothing /\ snapRef = Nothing /\ work = "none"
    /\ mount = 1 /\ loading = {1} /\ engines = {} /\ cyReady = FALSE
    /\ view = NoView
    /\ filters = NoFilter /\ selected = Nothing /\ clicks = 0

\* The registry changes and the event of the change is published.
ServerChanges ==
    /\ version < Len(Graphs)
    /\ version' = version + 1
    /\ frames' = IF ws = "open" THEN Append(frames, version + 1) ELSE frames
    /\ UNCHANGED <<ws, debounce, requests, panel, screen, view, user>>

Opens ==
    /\ ws = "connecting"
    /\ ws' = "open"
    /\ UNCHANGED <<version, frames, debounce, requests, panel, screen, view, user>>

\* onclose only changes the status that is shown.
Closes ==
    /\ ws # "closed"
    /\ ws' = "closed"
    /\ frames' = << >>
    /\ UNCHANGED <<version, debounce, requests, panel, screen, view, user>>

\* onmessage: nodes of the event pulse, as snapRef has them, and the timer starts
\* anew.
Message ==
    /\ frames # << >>
    /\ frames' = Tail(frames)
    /\ debounce' = TRUE
    /\ IF cyReady /\ snapRef # Nothing
         THEN \E R \in DiscoveryEventRelatedNodeIds(News[Head(frames)], Graphs[snapRef]) :
                \E S \in SUBSET (R \cap DOMAIN view.drawn.nodes) :
                  view' = [view EXCEPT !.ripples = @ \cup S]
         ELSE view' = view
    /\ UNCHANGED <<version, ws, requests, panel, screen, user>>

\* The animation of a ripple is over.
RippleEnds ==
    /\ \E n \in view.ripples : view' = [view EXCEPT !.ripples = @ \ {n}]
    /\ UNCHANGED <<server, debounce, requests, panel, screen, user>>

\* loadGraph sends its request.
LoadGraph ==
    /\ FoldFunction(+, 0, requests) < InFlight
    /\ requests' = [requests EXCEPT ![Sent] = @ + 1]

DebounceFires ==
    /\ debounce
    /\ debounce' = FALSE
    /\ LoadGraph
    /\ UNCHANGED <<server, panel, screen, view, user>>

\* Mutant: the timer is set once.
PollOnce ==
    /\ snap = Nothing
    /\ LoadGraph
    /\ UNCHANGED <<server, debounce, panel, screen, view, user>>

\* The interval of 12 s.
PollFires ==
    /\ LoadGraph
    /\ UNCHANGED <<server, debounce, panel, screen, view, user>>

\* The server takes its snapshot (GraphRequest).
Answer ==
    /\ requests[Sent] > 0
    /\ requests' = [requests EXCEPT ![Sent] = @ - 1, ![version] = @ + 1]
    /\ UNCHANGED <<server, debounce, panel, screen, view, user>>

\* fetch rejects or the answer is not ok: the graph stays.
FetchFails(a) ==
    /\ requests[a] > 0
    /\ requests' = [requests EXCEPT ![a] = @ - 1]
    /\ UNCHANGED <<server, debounce, panel, screen, view, user>>

\* An answer arrives: setSnap.  The panel is rendered with the new graph and the
\* old selection, which the graph may no longer have; the effects are due.
Response(v) ==
    /\ requests[v] > 0
    /\ work = "none"
    /\ requests' = [requests EXCEPT ![v] = @ - 1]
    /\ snap' = v
    /\ work' = "effects"
    /\ UNCHANGED <<server, debounce, snapRef, selected, screen, view, user>>

\* The selection is no node of that graph.
Gone(n, v) == n # Nothing /\ n \notin DOMAIN Graphs[v].nodes

\* Mutant: the selection is not looked at.
EffectsKeepingSelection ==
    /\ work = "effects"
    /\ snapRef' = snap
    /\ view' \in Redraw(cyReady, snap, filters)
    /\ work' = "none"
    /\ UNCHANGED <<server, debounce, requests, snap, selected, screen, user>>

\* The effects on snap: the ref, setSelected(null) if the selection is gone, and
\* drawing.
Effects ==
    /\ work = "effects"
    /\ snapRef' = snap
    /\ view' \in Redraw(cyReady, snap, filters)
    /\ work' = IF Gone(selected, snap) THEN "render" ELSE "none"
    /\ UNCHANGED <<server, debounce, requests, snap, selected, screen, user>>

\* The render without the selection.
Deselect ==
    /\ work = "render"
    /\ selected' = Nothing
    /\ work' = "none"
    /\ UNCHANGED <<server, debounce, requests, snap, snapRef, screen, view, user>>

-----------------------------------------------------------------------------
\* Mutant: nobody asks whether the effect was cleaned up in between.
CyCreatedAnyway(m) ==
    /\ m \in loading
    /\ work = "none"
    /\ loading' = loading \ {m}
    /\ engines' = engines \cup {m} /\ cyReady' = TRUE
    /\ view' \in Redraw(TRUE, snap, filters)
    /\ UNCHANGED <<server, debounce, requests, panel, mount, user>>

\* The import of a mount has ended.  If the mount was cleaned up meanwhile nothing
\* is made of it; else Cytoscape is there and what was loaded before is drawn.
CyCreated(m) ==
    /\ m \in loading
    /\ loading' = loading \ {m}
    /\ IF m # mount
         THEN UNCHANGED <<engines, cyReady, view>>
         ELSE /\ work = "none"
              /\ engines' = engines \cup {m} /\ cyReady' = TRUE
              /\ view' \in Redraw(TRUE, snap, filters)
    /\ UNCHANGED <<server, debounce, requests, panel, mount, user>>

\* The import or the constructor throws.
SetupFails(m) ==
    /\ m \in loading
    /\ loading' = loading \ {m}
    /\ UNCHANGED <<server, debounce, requests, panel, mount, engines, cyReady, view, user>>

\* Mutant: the two refs survive Cytoscape.
RemountKeepingRefs ==
    /\ mount < Mounts /\ work = "none"
    /\ mount' = mount + 1
    /\ loading' = loading \cup {mount + 1}
    /\ engines' = engines \ {mount} /\ cyReady' = FALSE
    /\ view' = [NoView EXCEPT !.structureSig = view.structureSig,
                             !.hasInitialLayout = view.hasInitialLayout]
    /\ ws' = "connecting" /\ frames' = << >> /\ debounce' = FALSE
    /\ LoadGraph
    /\ UNCHANGED <<version, panel, user>>

\* All effects are cleaned up and run again.  The state stays, and so do requests
\* that are under way; Cytoscape, the two refs, the WebSocket and the timers do not.
Remount ==
    /\ mount < Mounts /\ work = "none"
    /\ mount' = mount + 1
    /\ loading' = loading \cup {mount + 1}
    /\ engines' = engines \ {mount} /\ cyReady' = FALSE
    /\ view' = NoView
    /\ ws' = "connecting" /\ frames' = << >> /\ debounce' = FALSE
    /\ LoadGraph
    /\ UNCHANGED <<version, panel, user>>

-----------------------------------------------------------------------------
Click ==
    /\ clicks < Clicks
    /\ clicks' = clicks + 1

Toggled(S, x) == IF x \in S THEN S \ {x} ELSE S \cup {x}

\* What one filter control can make of the filters: a check box of the list of
\* types, an option of the interface menu, the search field, a row of the legend.
ToggleType == IF snap = Nothing THEN {} ELSE
    {[filters EXCEPT !.types = Toggled(@, t)] : t \in ServiceTypeRows(Graphs[snap])}
PickIface == IF snap = Nothing THEN {} ELSE
    {[filters EXCEPT !.iface = i] : i \in IfaceChoices(Graphs[snap])}
Search == {[filters EXCEPT !.query = q] : q \in Queries \cup {Nothing}}
ToggleLegendKey == {[filters EXCEPT !.legend = Toggled(@, k)] : k \in Rows}

SetFilter ==
    /\ Click
    /\ work # "effects"
    /\ filters' \in (ToggleType \cup PickIface \cup Search \cup ToggleLegendKey) \ {filters}
    /\ view' \in Redraw(cyReady, snap, filters')
    /\ UNCHANGED <<server, debounce, requests, panel, screen>>

\* A tap on a node that is drawn, hidden or not, or on the background: setSelected.
\* Effects that are due run first, for the old selection; its own run at once.  What
\* they set is rendered later, the last of the calls to setSelected last.
Tap ==
    /\ cyReady
    /\ Click
    /\ selected' \in (DOMAIN view.drawn.nodes \cup {Nothing}) \ {selected}
    /\ IF work = "effects"
         THEN /\ snapRef' = snap
              /\ view' \in Redraw(cyReady, snap, filters)
              /\ work' = IF Gone(selected, snap) \/ Gone(selected', snap) THEN "render" ELSE "none"
         ELSE work' = "none" /\ UNCHANGED <<snapRef, view>>
    /\ UNCHANGED <<server, debounce, requests, snap, screen, filters>>

React == Effects \/ Deselect

\* A step that gets done what React has to do: one of React, or a tap while effects
\* are due.
Turn == work # "none" /\ work' \in {"none", "render"}

Next ==
    \/ ServerChanges
    \/ Opens \/ Closes \/ Message \/ RippleEnds
    \/ DebounceFires \/ PollFires
    \/ Answer
    \/ \E a \in Versions \cup {Sent} : FetchFails(a)
    \/ \E v \in Versions : Response(v)
    \/ React
    \/ \E m \in loading : CyCreated(m) \/ SetupFails(m)
    \/ Remount
    \/ SetFilter \/ Tap

Spec == Init /\ [][Next]_vars

\* React does what is due, the interval keeps firing, and of the requests sent
\* again and again one is answered now and then, and received.  Nothing is assumed
\* of a single request, of the stream or of Cytoscape.
FairSpec ==
    /\ Spec
    /\ WF_work(Turn) /\ WF_vars(PollFires)
    /\ SF_vars(Answer) /\ SF_vars(\E v \in Versions : Response(v))

-----------------------------------------------------------------------------
\* The shape of the state.  There is one Cytoscape, that of the current mount, when
\* the tab is ready and none else: a mount that was cleaned up during its import
\* leaves nothing behind in the container.
TypeOK ==
    /\ version \in Versions
    /\ ws \in {"connecting", "open", "closed"}
    /\ frames \in Seq(Versions) /\ Len(frames) < Len(Graphs)
    /\ debounce \in BOOLEAN
    /\ requests \in [Versions \cup {Sent} -> Nat]
    /\ snap \in Versions \cup {Nothing} /\ snapRef \in Versions \cup {Nothing}
    /\ work \in {"none", "effects", "render"}
    /\ work # "effects" => snapRef = snap
    /\ mount \in 1 .. Mounts /\ loading \subseteq 1 .. mount
    /\ cyReady \in BOOLEAN
    /\ engines = IF cyReady THEN {mount} ELSE {}
    /\ mount \in loading => ~cyReady
    /\ DOMAIN view.drawn.nodes \subseteq Node /\ view.placed \subseteq Node
    /\ filters \in Filters
    /\ selected \in Node \cup {Nothing}
    /\ clicks \in 0 .. Clicks

\* Whatever graphs follow each other, older ones included, and whichever filters
\* are set in between: the elements that are drawn, and the data of the
\* nodes, are those of the graph the effects last ran with, the one in the state
\* unless they are due; a node is dimmed iff its data in that graph fail the
\* filters, and no edge is shown at a node that is dimmed.
DrawnMatchesSnap ==
    LET g == Graphs[snapRef]
    IN  cyReady /\ snapRef # Nothing =>
          /\ view.drawn.nodes = g.nodes
          /\ DOMAIN view.drawn.ends = DrawnEdges(g)
          /\ DrawnEdges(view.drawn) = DOMAIN view.drawn.ends
          /\ view.hidden \cap Node =
               {n \in DOMAIN g.nodes : ~NodeMatchesFilters(n, g.nodes[n], filters)}
          /\ view.hidden \ Node = {e \in DOMAIN view.drawn.ends :
                                     \E i \in {1, 2} : view.drawn.ends[e][i] \in view.hidden}

\* Every node on the screen has been given its place by a layout, after an empty
\* graph and after a second mount too; and a ripple spreads only where a node is.
LaidOut ==
    /\ DOMAIN view.drawn.nodes \subseteq view.placed
    /\ view.ripples \subseteq DOMAIN view.drawn.nodes

\* A node starts to pulse because of an event, or because an answer changed its
\* data: a poll that brings nothing new and a filter that is changed do not pulse.
PulseOnlyOnNews ==
    [][\A n \in view'.ripples \ view.ripples :
         \/ frames' # frames
         \/ view.drawn.nodes[n] # view'.drawn.nodes[n]]_vars

\* A panel that says "not found" is one React has still to correct: between the
\* render of an answer without the selected node and the effects, or the render
\* they ask for.  When it has nothing left to do the node that is selected is in
\* the graph the panel shows, and its card can be found.
SelectionHasDetails ==
    work = "none" /\ selected # Nothing =>
        /\ snap # Nothing
        /\ selected \in DOMAIN Graphs[snap].nodes
        /\ SelectionCurated(Graphs[snap], selected).card
             \notin {"service not found", "node not found"}

\* In the end the tab has drawn the last graph of the server and stays with it: an
\* answer that overtakes another shows an older graph only until the next poll,
\* and no event has to arrive (the two timers of loadGraph).
ShownConverges ==
    version = Len(Graphs) ~> [](snap = Len(Graphs) /\ snapRef = Len(Graphs))

\* The variant of ShownConverges: when the server has come to its last graph no more
\* answers get behind it, and the tab goes back to an older graph only by using one up.
FallsBackOnOldAnswers ==
    [][version = Len(Graphs) =>
         /\ \A v \in 1 .. Len(Graphs) - 1 : requests'[v] <= requests[v]
         /\ \/ snap = Len(Graphs) => snap' = snap
            \/ \E v \in 1 .. Len(Graphs) - 1 : requests'[v] < requests[v]]_vars

-----------------------------------------------------------------------------
\* What makes these inductive: nothing is drawn without Cytoscape and a graph,
\* effects are due only with a graph, and once there was a layout the structure it
\* was made for is that of the nodes drawn.
ViewFits ==
    /\ view = [drawn |-> view.drawn, hidden |-> view.hidden, placed |-> view.placed,
               ripples |-> view.ripples, structureSig |-> view.structureSig,
               hasInitialLayout |-> view.hasInitialLayout]
    /\ ~cyReady \/ snapRef = Nothing => view = NoView
    /\ work = "effects" => snap # Nothing
    /\ view.hasInitialLayout => view.structureSig[1] = DOMAIN view.drawn.nodes

IInv ==
    /\ TypeOK /\ DrawnMatchesSnap /\ LaidOut /\ SelectionHasDetails
    /\ ViewFits
    /\ Len(frames) < version

-----------------------------------------------------------------------------
\* "draws a **live graph** of discovered hosts and service instances"
\* (README.md:3): each edge is drawn between the nodes it has in the graph.
\* An edge whose instance moved to another host is not, while its old host is
\* still in the graph.
EdgesDrawnInPlace ==
    cyReady /\ snapRef # Nothing =>
        \A e \in DOMAIN view.drawn.ends : view.drawn.ends[e] = Graphs[snapRef].ends[e]

=============================================================================
