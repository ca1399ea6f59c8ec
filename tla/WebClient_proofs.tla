-------------------------- MODULE WebClient_proofs --------------------------
(***************************************************************************)
(* What a tab shows is the graph it was last sent, for every sequence of   *)
(* graphs and events, every number of requests that overlap, and every     *)
(* interleaving of answers, events, imports, clicks and remounts.          *)
(***************************************************************************)
EXTENDS WebClient, TLAPS

-----------------------------------------------------------------------------
(* Drawing                                                                 *)

LEMMA GraphIs ==
  ASSUME NEW s \in Versions
  PROVE  /\ IsGraph(Graphs[s])
         /\ \A n \in DOMAIN Graphs[s].nodes :
              n.kind = "service" => n.name \in DOMAIN Graphs[s].target
         /\ s \in Nat /\ s # Nothing /\ s # Sent
BY GraphsAssumption DEF Versions

LEMMA NodesAreNotEdges == Node \cap EdgeId = {} /\ Nothing \notin Node
BY GraphsAssumption DEF Node, EdgeId, Kind

\* The elements after a merge are those of the graph, whatever was drawn before.
LEMMA Merge ==
  ASSUME NEW d, NEW g, IsGraph(g)
  PROVE  LET m == MergeGraphElements(d, g)
         IN  /\ m.nodes = g.nodes
             /\ DOMAIN m.ends = DrawnEdges(g)
             /\ DrawnEdges(m) = DrawnEdges(g)
             /\ DrawnEdges(g) \subseteq EdgeId
<1> DEFINE m == MergeGraphElements(d, g)
<1>1. m.nodes = g.nodes /\ DOMAIN m.ends = DrawnEdges(g) /\ DrawnEdges(g) \subseteq EdgeId
  BY DEF MergeGraphElements, DrawnEdges, IsGraph
<1>2. ASSUME NEW e \in DrawnEdges(g)
      PROVE  m.ends[e][1] \in DOMAIN g.nodes /\ m.ends[e][2] \in DOMAIN g.nodes
  BY <1>2 DEF MergeGraphElements, Kept, DrawnEdges
<1>3. DrawnEdges(m) = DrawnEdges(g)
  <2> HIDE DEF m
  <2> QED
    BY <1>1, <1>2 DEF DrawnEdges
<1> QED
  BY <1>1, <1>3

\* What the filters dim.
LEMMA Hide ==
  ASSUME NEW d, NEW f, DOMAIN d.nodes \subseteq Node, DOMAIN d.ends \subseteq EdgeId,
         DrawnEdges(d) = DOMAIN d.ends
  PROVE  LET hidden == FilterHidden(d, f)
         IN  /\ hidden \cap Node = {n \in DOMAIN d.nodes : ~NodeMatchesFilters(n, d.nodes[n], f)}
             /\ hidden \ Node = {e \in DOMAIN d.ends : \E i \in {1, 2} : d.ends[e][i] \in hidden}
<1> DEFINE out == {n \in DOMAIN d.nodes : ~NodeMatchesFilters(n, d.nodes[n], f)}
           hidden == FilterHidden(d, f)
<1>1. hidden = out \cup {e \in DOMAIN d.ends : d.ends[e][1] \in out \/ d.ends[e][2] \in out}
  BY DEF FilterHidden
<1>2. \A e \in DOMAIN d.ends : d.ends[e][1] \in Node /\ d.ends[e][2] \in Node
  BY DEF DrawnEdges
<1>3. out \subseteq Node
  OBVIOUS
<1> HIDE DEF out, hidden
<1>4. hidden \cap Node = out
  BY <1>1, <1>3, NodesAreNotEdges
<1>5. \A x \in Node : x \in hidden <=> x \in out
  BY <1>4
<1>6. \A e \in DOMAIN d.ends :
         (\E i \in {1, 2} : d.ends[e][i] \in hidden)
           <=> d.ends[e][1] \in out \/ d.ends[e][2] \in out
  BY <1>2, <1>5
<1>7. hidden \ Node = {e \in DOMAIN d.ends : \E i \in {1, 2} : d.ends[e][i] \in hidden}
  BY <1>1, <1>3, <1>6, NodesAreNotEdges
<1> QED
  BY <1>4, <1>7 DEF hidden, out

\* A view that fits its nodes is turned into one that shows the graph.
Fits(v) ==
    /\ DOMAIN v.drawn.nodes \subseteq v.placed
    /\ v.ripples \subseteq DOMAIN v.drawn.nodes
    /\ v.hasInitialLayout => v.structureSig[1] = DOMAIN v.drawn.nodes

ShapeOf(v) ==
    v = [drawn |-> v.drawn, hidden |-> v.hidden, placed |-> v.placed, ripples |-> v.ripples,
         structureSig |-> v.structureSig, hasInitialLayout |-> v.hasInitialLayout]

Shows(v, g, f) ==
    /\ v.drawn.nodes = g.nodes
    /\ DOMAIN v.drawn.ends = DrawnEdges(g)
    /\ DrawnEdges(v.drawn) = DOMAIN v.drawn.ends
    /\ v.hidden \cap Node = {n \in DOMAIN g.nodes : ~NodeMatchesFilters(n, g.nodes[n], f)}
    /\ v.hidden \ Node = {e \in DOMAIN v.drawn.ends :
                             \E i \in {1, 2} : v.drawn.ends[e][i] \in v.hidden}

LEMMA DrawIs ==
  ASSUME NEW v, NEW g, NEW f, IsGraph(g), Fits(v), v.placed \subseteq Node,
         NEW w \in Draw(v, g, f)
  PROVE  /\ ShapeOf(w) /\ Fits(w) /\ Shows(w, g, f)
         /\ DOMAIN w.drawn.nodes \subseteq Node /\ w.placed \subseteq Node
         /\ \A n \in w.ripples \ v.ripples : v.drawn.nodes[n] # w.drawn.nodes[n]
<1> DEFINE same == GraphStructureKey(g) = v.structureSig
           touched == IF v.hasInitialLayout /\ same
                        THEN CollectDataTouchPulseIds(v.drawn, g) ELSE {}
           empty == DOMAIN g.nodes = {}
           layOut == ~empty /\ (~v.hasInitialLayout \/ ~same)
           m == MergeGraphElements(v.drawn, g)
<1>1. PICK R \in SUBSET touched :
        w = [drawn |-> m, hidden |-> FilterHidden(m, f),
             placed |-> IF layOut THEN DOMAIN g.nodes ELSE v.placed \cap DOMAIN g.nodes,
             ripples |-> IF empty \/ layOut THEN {} ELSE v.ripples \cup R,
             structureSig |-> GraphStructureKey(g),
             hasInitialLayout |-> v.hasInitialLayout \/ ~empty]
  BY DEF Draw
<1>2. /\ m.nodes = g.nodes /\ DOMAIN m.ends = DrawnEdges(g)
      /\ DrawnEdges(m) = DrawnEdges(g) /\ DrawnEdges(g) \subseteq EdgeId
  BY Merge
<1>3. DOMAIN g.nodes \subseteq Node
  BY DEF IsGraph
<1>4. \A n \in R : v.hasInitialLayout /\ same /\ n \in DOMAIN g.nodes /\ v.drawn.nodes[n] # g.nodes[n]
  BY DEF CollectDataTouchPulseIds
<1>5. GraphStructureKey(g)[1] = DOMAIN g.nodes
  BY DEF GraphStructureKey
<1> HIDE DEF m
<1>6. same /\ v.hasInitialLayout => DOMAIN v.drawn.nodes = DOMAIN g.nodes
  BY <1>5 DEF Fits
<1> HIDE DEF same, touched
<1>7. /\ w.drawn = m /\ w.hidden = FilterHidden(m, f)
      /\ w.placed = IF layOut THEN DOMAIN g.nodes ELSE v.placed \cap DOMAIN g.nodes
      /\ w.ripples = IF empty \/ layOut THEN {} ELSE v.ripples \cup R
      /\ w.structureSig = GraphStructureKey(g)
      /\ w.hasInitialLayout = (v.hasInitialLayout \/ ~empty)
      /\ ShapeOf(w)
  BY <1>1 DEF ShapeOf
<1>8. ~layOut => empty \/ (v.hasInitialLayout /\ same)
  OBVIOUS
<1>9. Fits(w)
  <2>1. DOMAIN g.nodes \subseteq w.placed
    BY <1>6, <1>7, <1>8 DEF Fits
  <2>2. w.ripples \subseteq DOMAIN g.nodes
    BY <1>4, <1>6, <1>7, <1>8 DEF Fits
  <2> QED
    BY <1>2, <1>5, <1>7, <2>1, <2>2 DEF Fits
<1>10. Shows(w, g, f)
  BY <1>2, <1>3, <1>7, Hide DEF Shows
<1>11. ASSUME NEW n \in w.ripples \ v.ripples
       PROVE  v.drawn.nodes[n] # w.drawn.nodes[n]
  BY <1>2, <1>4, <1>7, <1>11
<1> QED
  BY <1>2, <1>3, <1>7, <1>9, <1>10, <1>11

-----------------------------------------------------------------------------
(* The invariant                                                           *)

ViewIs ==
    /\ cyReady /\ snapRef # Nothing => Shows(view, Graphs[snapRef], filters)
    /\ ~cyReady \/ snapRef = Nothing => view = NoView
    /\ work = "effects" => snap # Nothing
    /\ Fits(view) /\ ShapeOf(view)

\* The invariant in the terms of the lemmas above.
LEMMA Invariant ==
  /\ IInv <=> TypeOK /\ ViewIs /\ SelectionHasDetails /\ Len(frames) < version
  /\ IInv' <=> (TypeOK /\ ViewIs /\ SelectionHasDetails /\ Len(frames) < version)'
<1>1. DrawnMatchesSnap /\ LaidOut /\ ViewFits <=> ViewIs
  BY DEF DrawnMatchesSnap, LaidOut, ViewFits, ViewIs, Shows, Fits, ShapeOf
<1>2. (DrawnMatchesSnap /\ LaidOut /\ ViewFits)' <=> ViewIs'
  BY DEF DrawnMatchesSnap, LaidOut, ViewFits, ViewIs, Shows, Fits, ShapeOf
<1> QED
  BY <1>1, <1>2 DEF IInv

LEMMA NoViewIs ==
  /\ ShapeOf(NoView) /\ Fits(NoView)
  /\ DOMAIN NoView.drawn.nodes = {} /\ NoView.placed = {} /\ NoView.ripples = {}
<1>1. /\ NoView.drawn.nodes = << >> /\ NoView.placed = {} /\ NoView.ripples = {}
      /\ NoView.hasInitialLayout = FALSE
  BY DEF NoView, Empty
<1>2. DOMAIN NoView.drawn.nodes = {}
  BY <1>1
<1> QED
  BY <1>1, <1>2 DEF ShapeOf, Fits, NoView

\* The details of a node of a graph can be shown.
LEMMA Details ==
  ASSUME NEW s \in Versions, NEW n \in DOMAIN Graphs[s].nodes
  PROVE  SelectionCurated(Graphs[s], n).card \notin {"service not found", "node not found"}
<1>1. n.kind \in Kind
  BY GraphIs DEF IsGraph, Node
<1>2. n.kind = "service" => n.name \in DOMAIN Graphs[s].target
  BY GraphIs
<1> QED
  BY <1>1, <1>2 DEF SelectionCurated, Kind

\* The draw effect makes the view that of the graph, if there is something to draw
\* and something to draw it with.
LEMMA RedrawIs ==
  ASSUME IInv, NEW ready \in BOOLEAN, NEW s \in Versions \cup {Nothing}, NEW f,
         NEW w \in Redraw(ready, s, f)
  PROVE  /\ ShapeOf(w) /\ Fits(w)
         /\ ready /\ s # Nothing => Shows(w, Graphs[s], f)
         /\ ~ready \/ s = Nothing => w = view
         /\ DOMAIN w.drawn.nodes \subseteq Node /\ w.placed \subseteq Node
         /\ \A n \in w.ripples \ view.ripples : view.drawn.nodes[n] # w.drawn.nodes[n]
<1>1. /\ ShapeOf(view) /\ Fits(view)
      /\ DOMAIN view.drawn.nodes \subseteq Node /\ view.placed \subseteq Node
  BY Invariant DEF ViewIs, TypeOK
<1>2. CASE ready /\ s # Nothing
  <2>1. IsGraph(Graphs[s]) /\ w \in Draw(view, Graphs[s], f)
    BY <1>2, GraphIs DEF Redraw
  <2> QED
    BY <1>1, <1>2, <2>1, DrawIs
<1>3. CASE ~(ready /\ s # Nothing)
  BY <1>1, <1>3 DEF Redraw
<1> QED
  BY <1>2, <1>3

LEMMA InitEstablishes == Init => IInv
<1> SUFFICES ASSUME Init
             PROVE  IInv
  OBVIOUS
<1>1. 1 \in Versions /\ 1 \in 1 .. Mounts /\ 0 \in 0 .. Clicks /\ 0 < 1
  BY GraphsAssumption DEF Versions
<1>2. NoFilter \in Filters
  BY DEF NoFilter, Filters
<1>3. requests \in [Versions \cup {Sent} -> Nat]
  BY DEF Init
<1>4. TypeOK
  <2>1. << >> \in Seq(Versions) /\ Len(<< >>) = 0 /\ 0 < Len(Graphs)
    BY GraphsAssumption
  <2> QED
    <3>1. frames \in Seq(Versions) /\ Len(frames) < Len(Graphs)
      BY <2>1 DEF Init
    <3>2. mount \in 1 .. Mounts /\ loading \subseteq 1 .. mount
      BY <1>1 DEF Init
    <3>3. DOMAIN view.drawn.nodes \subseteq Node /\ view.placed \subseteq Node
      BY NoViewIs DEF Init
    <3> QED
      BY <1>1, <1>2, <1>3, <3>1, <3>2, <3>3 DEF Init, TypeOK
<1>5. ViewIs
  BY NoViewIs DEF Init, ViewIs
<1>6. SelectionHasDetails /\ Len(frames) < version
  BY DEF Init, SelectionHasDetails
<1> QED
  BY <1>4, <1>5, <1>6, Invariant

-----------------------------------------------------------------------------
(* The steps                                                               *)

LEMMA LoadGraphIs ==
  ASSUME LoadGraph, requests \in [Versions \cup {Sent} -> Nat]
  PROVE  /\ requests' \in [Versions \cup {Sent} -> Nat]
         /\ requests' = [requests EXCEPT ![Sent] = requests[Sent] + 1]
<1>1. requests' = [requests EXCEPT ![Sent] = requests[Sent] + 1]
  BY DEF LoadGraph
<1> QED
  BY <1>1

\* Steps that leave the tab as it is: the server, the stream and the requests.
LEMMA ServerSteps ==
  ASSUME IInv,
         \/ ServerChanges \/ Opens \/ Closes \/ DebounceFires \/ PollFires
         \/ Answer \/ \E a \in Versions \cup {Sent} : FetchFails(a)
  PROVE  IInv'
<1>1. TypeOK /\ ViewIs /\ SelectionHasDetails /\ Len(frames) < version
  BY Invariant
<1>2. UNCHANGED <<panel, screen, view, user>>
  BY DEF ServerChanges, Opens, Closes, DebounceFires, PollFires, Answer, FetchFails
<1>3. ViewIs' /\ SelectionHasDetails'
  BY <1>1, <1>2 DEF panel, screen, user, ViewIs, SelectionHasDetails
<1>4. /\ version' \in Versions /\ ws' \in {"connecting", "open", "closed"}
      /\ frames' \in Seq(Versions) /\ Len(frames') < version'
      /\ debounce' \in BOOLEAN
  <2>1. CASE ServerChanges
    <3>1. version \in Nat /\ version + 1 \in Versions /\ version' = version + 1
      BY <1>1, <2>1, GraphsAssumption DEF ServerChanges, TypeOK, Versions
    <3>2. frames \in Seq(Versions) /\ Len(frames) \in Nat
      BY <1>1 DEF TypeOK
    <3>3. frames' \in Seq(Versions) /\ Len(frames') <= Len(frames) + 1
      BY <2>1, <3>1, <3>2 DEF ServerChanges
    <3>4. Len(frames') \in Nat
      BY <3>3
    <3> QED
      BY <1>1, <2>1, <3>1, <3>2, <3>3, <3>4 DEF ServerChanges, TypeOK
  <2>2. CASE Opens
    BY <1>1, <2>2 DEF Opens, TypeOK
  <2>3. CASE Closes
    <3>1. version \in Nat /\ version > 0
      BY <1>1, GraphsAssumption DEF TypeOK, Versions
    <3> QED
      BY <1>1, <2>3, <3>1 DEF Closes, TypeOK
  <2>4. CASE \/ DebounceFires \/ PollFires \/ Answer
             \/ \E a \in Versions \cup {Sent} : FetchFails(a)
    BY <1>1, <2>4 DEF DebounceFires, PollFires, Answer, FetchFails, server, TypeOK
  <2> QED
    BY <2>1, <2>2, <2>3, <2>4
<1>5. requests' \in [Versions \cup {Sent} -> Nat]
  <2>1. version \in Versions /\ requests \in [Versions \cup {Sent} -> Nat] /\ Sent \notin Versions
    BY <1>1, GraphsAssumption DEF TypeOK, Versions
  <2>2. CASE ServerChanges \/ Opens \/ Closes
    BY <2>1, <2>2 DEF ServerChanges, Opens, Closes
  <2>3. CASE DebounceFires \/ PollFires
    BY <2>1, <2>3, LoadGraphIs DEF DebounceFires, PollFires
  <2>4. CASE Answer
    BY <2>1, <2>4 DEF Answer
  <2>5. ASSUME NEW a \in Versions \cup {Sent}, FetchFails(a)
        PROVE  requests' \in [Versions \cup {Sent} -> Nat]
    <3>1. requests[a] - 1 \in Nat
      BY <2>1, <2>5 DEF FetchFails
    <3> QED
      BY <2>1, <2>5, <3>1 DEF FetchFails
  <2> QED
    BY <2>2, <2>3, <2>4, <2>5
<1>6. Len(frames') < Len(Graphs)
  <2>1. version' <= Len(Graphs) /\ version' \in Nat /\ Len(Graphs) \in Nat /\ Len(frames') \in Nat
    BY <1>4, GraphsAssumption DEF Versions
  <2> QED
    BY <1>4, <2>1
<1>7. TypeOK'
  BY <1>1, <1>2, <1>4, <1>5, <1>6 DEF panel, screen, user, TypeOK
<1> QED
  BY <1>3, <1>4, <1>7, Invariant

\* Ripples come and go, over nodes only.
LEMMA RippleSteps ==
  ASSUME IInv, NEW R \in SUBSET Node, view' = [view EXCEPT !.ripples = R],
         R \subseteq DOMAIN view.drawn.nodes,
         UNCHANGED <<panel, screen, filters>>
  PROVE  /\ ViewIs'
         /\ DOMAIN view'.drawn.nodes \subseteq Node /\ view'.placed \subseteq Node
<1>1. ViewIs /\ TypeOK
  BY Invariant
<1>2. /\ view'.drawn = view.drawn /\ view'.hidden = view.hidden /\ view'.placed = view.placed
      /\ view'.structureSig = view.structureSig
      /\ view'.hasInitialLayout = view.hasInitialLayout
      /\ view'.ripples = R
      /\ ShapeOf(view')
  BY <1>1 DEF ViewIs, ShapeOf
<1>3. Fits(view')
  BY <1>1, <1>2 DEF ViewIs, Fits
<1>4. cyReady /\ snapRef # Nothing => Shows(view', Graphs[snapRef], filters)
  BY <1>1, <1>2 DEF ViewIs, Shows
<1>5. ~cyReady \/ snapRef = Nothing => view' = NoView
  <2>1. view = NoView => R = {}
    BY NoViewIs
  <2> QED
    BY <1>1, <2>1, NoViewIs DEF ViewIs, NoView
<1> QED
  BY <1>1, <1>2, <1>3, <1>4, <1>5 DEF panel, screen, ViewIs, TypeOK

\* An event makes nodes pulse; the animation ends.
LEMMA EventSteps ==
  ASSUME IInv, (Message \/ RippleEnds)
  PROVE  IInv'
<1>1. TypeOK /\ ViewIs /\ SelectionHasDetails /\ Len(frames) < version
  BY Invariant
<1>2. UNCHANGED <<version, ws, requests, panel, screen, user, filters>>
  BY DEF Message, RippleEnds, server, user
<1>3. /\ view.ripples \subseteq DOMAIN view.drawn.nodes
      /\ DOMAIN view.drawn.nodes \subseteq Node
  BY <1>1 DEF ViewIs, Fits, TypeOK
<1>4. /\ frames' \in Seq(Versions) /\ Len(frames') <= Len(frames) /\ Len(frames') \in Nat
      /\ debounce' \in BOOLEAN
  <2>1. frames \in Seq(Versions) /\ debounce \in BOOLEAN
    BY <1>1 DEF TypeOK
  <2>2. CASE Message
    BY <2>1, <2>2 DEF Message
  <2>3. CASE RippleEnds
    BY <2>1, <2>3 DEF RippleEnds, server
  <2> QED
    BY <2>2, <2>3
<1>5. ViewIs' /\ DOMAIN view'.drawn.nodes \subseteq Node /\ view'.placed \subseteq Node
  <2>1. CASE view' = view
    BY <1>1, <1>2, <2>1 DEF panel, screen, ViewIs, TypeOK
  <2>2. CASE view' # view
    <3>1. PICK R \in SUBSET Node :
            R \subseteq DOMAIN view.drawn.nodes /\ view' = [view EXCEPT !.ripples = R]
      <4>1. CASE Message
        <5>1. PICK S \in SUBSET DOMAIN view.drawn.nodes :
                view' = [view EXCEPT !.ripples = view.ripples \cup S]
          BY <2>2, <4>1 DEF Message
        <5> QED
          BY <1>3, <5>1
      <4>2. CASE RippleEnds
        BY <1>3, <4>2 DEF RippleEnds
      <4> QED
        BY <4>1, <4>2
    <3> QED
      BY <1>2, <3>1, RippleSteps
  <2> QED
    BY <2>1, <2>2
<1>6. SelectionHasDetails'
  BY <1>1, <1>2 DEF panel, SelectionHasDetails
<1>7. Len(frames') < version' /\ Len(frames') < Len(Graphs)
  <2>1. Len(frames) \in Nat /\ version \in Nat /\ Len(frames) < Len(Graphs) /\ Len(Graphs) \in Nat
    BY <1>1, GraphsAssumption DEF TypeOK, Versions
  <2> QED
    BY <1>1, <1>2, <1>4, <2>1
<1>8. TypeOK'
  BY <1>1, <1>2, <1>4, <1>5, <1>7 DEF panel, screen, user, TypeOK
<1> QED
  BY <1>5, <1>6, <1>7, <1>8, Invariant

\* An answer becomes what the panel shows; what is drawn stays.
LEMMA ResponseStep ==
  ASSUME IInv, NEW v \in Versions, Response(v)
  PROVE  IInv'
<1>1. TypeOK /\ ViewIs /\ Len(frames) < version
  BY Invariant
<1>2. /\ snap' = v /\ snap' # Nothing /\ work' = "effects"
      /\ UNCHANGED <<server, debounce, snapRef, selected, screen, view, user>>
  BY GraphIs DEF Response
<1>3. requests' \in [Versions \cup {Sent} -> Nat]
  <2>1. requests \in [Versions \cup {Sent} -> Nat]
    BY <1>1 DEF TypeOK
  <2>2. requests[v] - 1 \in Nat
    BY <2>1 DEF Response
  <2> QED
    BY <2>1, <2>2 DEF Response
<1>4. ViewIs'
  BY <1>1, <1>2 DEF screen, user, ViewIs
<1>5. SelectionHasDetails'
  BY <1>2 DEF SelectionHasDetails
<1>6. TypeOK'
  BY <1>1, <1>2, <1>3 DEF server, screen, user, TypeOK
<1> QED
  BY <1>1, <1>2, <1>4, <1>5, <1>6, Invariant DEF server

\* The effects draw the graph of the panel; a selection that is gone leaves work.
LEMMA ReactSteps ==
  ASSUME IInv, React
  PROVE  IInv'
<1>1. TypeOK /\ ViewIs /\ Len(frames) < version
  BY Invariant
<1>2. CASE Effects
  <2>1. snap \in Versions /\ cyReady \in BOOLEAN /\ selected \in Node \cup {Nothing}
    BY <1>1, <1>2 DEF Effects, ViewIs, TypeOK
  <2>2. /\ snapRef' = snap /\ view' \in Redraw(cyReady, snap, filters)
        /\ work' = IF Gone(selected, snap) THEN "render" ELSE "none"
        /\ UNCHANGED <<server, debounce, requests, snap, selected, screen, user>>
    BY <1>2 DEF Effects
  <2>3. /\ ShapeOf(view') /\ Fits(view')
        /\ cyReady => Shows(view', Graphs[snap], filters)
        /\ ~cyReady => view' = view
        /\ DOMAIN view'.drawn.nodes \subseteq Node /\ view'.placed \subseteq Node
    BY <2>1, <2>2, RedrawIs, GraphIs
  <2>4. ViewIs'
    BY <1>1, <2>1, <2>2, <2>3, GraphIs DEF screen, user, ViewIs
  <2>5. SelectionHasDetails'
    BY <2>1, <2>2, Details, GraphIs DEF Gone, SelectionHasDetails
  <2>6. TypeOK'
    BY <1>1, <2>2, <2>3 DEF server, screen, user, TypeOK
  <2> QED
    BY <1>1, <2>2, <2>4, <2>5, <2>6, Invariant DEF server
<1>3. CASE Deselect
  <2>1. /\ selected' = Nothing /\ work = "render" /\ work' = "none"
        /\ UNCHANGED <<server, debounce, requests, snap, snapRef, screen, view, user>>
    BY <1>3 DEF Deselect
  <2>2. ViewIs' /\ SelectionHasDetails'
    BY <1>1, <2>1 DEF screen, user, ViewIs, SelectionHasDetails
  <2>3. TypeOK'
    BY <1>1, <2>1 DEF server, screen, user, TypeOK
  <2> QED
    BY <1>1, <2>1, <2>2, <2>3, Invariant DEF server
<1> QED
  BY <1>2, <1>3 DEF React

-----------------------------------------------------------------------------
\* A mount that is still current draws what was loaded before; another leaves no trace.
LEMMA MountSteps ==
  ASSUME IInv, \/ \E m \in loading : CyCreated(m) \/ SetupFails(m)
               \/ Remount
  PROVE  IInv'
<1>1. TypeOK /\ ViewIs /\ SelectionHasDetails /\ Len(frames) < version
  BY Invariant
<1>2. UNCHANGED <<version, panel, filters, clicks>> /\ version \in Nat /\ version > 0
  <2>1. UNCHANGED <<version, panel, filters, clicks>>
    BY DEF CyCreated, SetupFails, Remount, server, user
  <2>2. version \in Nat /\ version > 0
    BY <1>1, GraphsAssumption DEF TypeOK, Versions
  <2> QED
    BY <2>1, <2>2
<1>3. SelectionHasDetails'
  BY <1>1, <1>2 DEF panel, SelectionHasDetails
<1>4. ASSUME NEW m \in loading, CyCreated(m)
      PROVE  IInv'
  <2>1. CASE m # mount
    <3>1. TypeOK'
      BY <1>1, <1>4, <2>1 DEF CyCreated, server, panel, user, TypeOK
    <3>2. ViewIs'
      BY <1>1, <1>4, <2>1 DEF CyCreated, panel, user, ViewIs
    <3> QED
      BY <1>1, <1>3, <1>4, <3>1, <3>2, Invariant DEF CyCreated, server
  <2>2. CASE m = mount
    <3>1. ~cyReady /\ engines = {} /\ view = NoView
      BY <1>1, <1>4, <2>2 DEF TypeOK, ViewIs
    <3>2. /\ loading' = loading \ {mount} /\ engines' = {mount} /\ cyReady' = TRUE
          /\ mount' = mount /\ view' \in Redraw(TRUE, snap, filters)
          /\ work = "none" /\ snapRef = snap
      BY <1>1, <1>4, <2>2, <3>1 DEF CyCreated, TypeOK
    <3>3. /\ ShapeOf(view') /\ Fits(view')
          /\ snap # Nothing => Shows(view', Graphs[snap], filters)
          /\ snap = Nothing => view' = view
          /\ DOMAIN view'.drawn.nodes \subseteq Node /\ view'.placed \subseteq Node
      <4>1. snap \in Versions \cup {Nothing}
        BY <1>1 DEF TypeOK
      <4> QED
        <5>1. PICK ready \in BOOLEAN : ready = TRUE
          OBVIOUS
        <5>2. view' \in Redraw(ready, snap, filters)
          BY <3>2, <5>1
        <5> QED
          BY <4>1, <5>1, <5>2, RedrawIs
    <3>4. TypeOK'
      BY <1>1, <1>4, <3>2, <3>3 DEF CyCreated, server, panel, user, TypeOK
    <3>5. ViewIs'
      BY <1>2, <3>1, <3>2, <3>3 DEF panel, ViewIs
    <3> QED
      BY <1>1, <1>3, <1>4, <3>4, <3>5, Invariant DEF CyCreated, server
  <2> QED
    BY <2>1, <2>2
<1>5. ASSUME NEW m \in loading, SetupFails(m)
      PROVE  IInv'
  <2>1. TypeOK'
    BY <1>1, <1>5 DEF SetupFails, server, panel, user, TypeOK
  <2>2. ViewIs'
    BY <1>1, <1>5 DEF SetupFails, panel, user, ViewIs
  <2> QED
    BY <1>1, <1>3, <1>5, <2>1, <2>2, Invariant DEF SetupFails, server
<1>6. CASE Remount
  <2>1. /\ mount' = mount + 1 /\ mount' \in 1 .. Mounts
        /\ loading' = loading \cup {mount + 1} /\ loading' \subseteq 1 .. mount'
        /\ engines' = {} /\ cyReady' = FALSE /\ view' = NoView
    <3>1. mount \in Nat /\ mount >= 1 /\ loading \subseteq 1 .. mount
      BY <1>1, GraphsAssumption DEF TypeOK
    <3>2. engines \ {mount} = {}
      BY <1>1 DEF TypeOK
    <3>3. mount + 1 \in 1 .. Mounts
      BY <1>6, <3>1, GraphsAssumption DEF Remount
    <3>4. loading \cup {mount + 1} \subseteq 1 .. mount + 1
      BY <3>1
    <3> QED
      BY <1>6, <3>2, <3>3, <3>4 DEF Remount
  <2>2. /\ ws' = "connecting" /\ frames' = << >> /\ debounce' = FALSE
        /\ requests' \in [Versions \cup {Sent} -> Nat]
    BY <1>1, <1>6, LoadGraphIs DEF Remount, TypeOK
  <2>3. frames' \in Seq(Versions) /\ Len(frames') < Len(Graphs) /\ Len(frames') < version
    BY <1>2, <2>2, GraphsAssumption
  <2>4. DOMAIN view'.drawn.nodes \subseteq Node /\ view'.placed \subseteq Node
    BY <2>1, NoViewIs
  <2>5. TypeOK'
    BY <1>1, <1>2, <2>1, <2>2, <2>3, <2>4 DEF panel, TypeOK
  <2>6. ViewIs'
    BY <1>1, <1>2, <2>1, NoViewIs DEF panel, ViewIs
  <2> QED
    BY <1>2, <1>3, <2>3, <2>5, <2>6, Invariant
<1> QED
  BY <1>4, <1>5, <1>6

\* What a filter control offers is a filter.
LEMMA ControlsAreFilters ==
  ASSUME filters \in Filters, snap \in Versions \cup {Nothing},
         NEW f \in ToggleType \cup PickIface \cup Search \cup ToggleLegendKey
  PROVE  f \in Filters
<1>1. ASSUME NEW s \in Versions
      PROVE  /\ ServiceTypeRows(Graphs[s]) \subseteq ServiceType
             /\ IfaceChoices(Graphs[s]) \subseteq Iface \cup {NoIface}
  <2>1. \A n \in DOMAIN Graphs[s].nodes :
           /\ Graphs[s].nodes[n].type \in ServiceType \cup {NoType}
           /\ Graphs[s].nodes[n].iface \in Iface \cup {NoIface}
    BY GraphIs DEF IsGraph, NodeData
  <2> QED
    BY <2>1 DEF ServiceTypeRows, IfaceChoices
<1>2. CASE f \in ToggleType
  BY <1>1, <1>2 DEF ToggleType, Toggled, Filters
<1>3. CASE f \in PickIface
  BY <1>1, <1>3 DEF PickIface, Filters
<1>4. CASE f \in Search
  BY <1>4, GraphsAssumption DEF Search, Filters
<1>5. CASE f \in ToggleLegendKey
  BY <1>5, GraphsAssumption DEF ToggleLegendKey, Toggled, Filters
<1> QED
  BY <1>2, <1>3, <1>4, <1>5

\* What the user does.
LEMMA UserSteps ==
  ASSUME IInv, (SetFilter \/ Tap)
  PROVE  IInv'
<1>1. TypeOK /\ ViewIs /\ SelectionHasDetails /\ Len(frames) < version
  BY Invariant
<1>2. clicks' \in 0 .. Clicks
  BY <1>1, GraphsAssumption DEF SetFilter, Tap, Click, TypeOK
<1>3. CASE SetFilter
  <2>1. filters' \in Filters
    BY <1>1, <1>3, ControlsAreFilters DEF SetFilter, TypeOK
  <2>2. /\ ShapeOf(view') /\ Fits(view')
        /\ cyReady /\ snapRef # Nothing => Shows(view', Graphs[snapRef], filters')
        /\ ~cyReady \/ snapRef = Nothing => view' = view
        /\ DOMAIN view'.drawn.nodes \subseteq Node /\ view'.placed \subseteq Node
    <3>1. view' \in Redraw(cyReady, snap, filters') /\ snapRef = snap
      BY <1>1, <1>3 DEF SetFilter, TypeOK
    <3>2. cyReady \in BOOLEAN /\ snap \in Versions \cup {Nothing}
      BY <1>1 DEF TypeOK
    <3> QED
      BY <3>1, <3>2, RedrawIs
  <2>3. UNCHANGED <<server, debounce, requests, panel, screen>>
    BY <1>3 DEF SetFilter
  <2>4. TypeOK'
    BY <1>1, <1>2, <2>1, <2>2, <2>3 DEF server, panel, screen, TypeOK
  <2>5. ViewIs' /\ SelectionHasDetails'
    BY <1>1, <2>2, <2>3 DEF panel, screen, ViewIs, SelectionHasDetails
  <2> QED
    BY <1>1, <2>3, <2>4, <2>5, Invariant DEF server
<1>4. CASE Tap
  <2>1. UNCHANGED <<server, debounce, requests, snap, screen, filters>>
    BY <1>4 DEF Tap
  <2>2. /\ selected' \in DOMAIN view.drawn.nodes \cup {Nothing} /\ cyReady
        /\ selected' \in Node \cup {Nothing}
    BY <1>1, <1>4 DEF Tap, TypeOK
  <2>3. CASE work = "effects"
    <3>1. /\ snapRef' = snap /\ view' \in Redraw(cyReady, snap, filters) /\ snap \in Versions
          /\ work' \in {"none", "render"}
          /\ work' = "none" => ~Gone(selected', snap)
      BY <1>1, <1>4, <2>3 DEF Tap, ViewIs, TypeOK
    <3>2. /\ ShapeOf(view') /\ Fits(view') /\ Shows(view', Graphs[snap], filters)
          /\ DOMAIN view'.drawn.nodes \subseteq Node /\ view'.placed \subseteq Node
      <4>1. cyReady \in BOOLEAN
        BY <1>1 DEF TypeOK
      <4> QED
        BY <2>2, <3>1, <4>1, RedrawIs, GraphIs
    <3>3. TypeOK'
      BY <1>1, <1>2, <2>1, <2>2, <3>1, <3>2 DEF server, screen, TypeOK
    <3>4. ViewIs'
      BY <2>1, <2>2, <3>1, <3>2, GraphIs DEF screen, ViewIs
    <3>5. SelectionHasDetails'
      BY <2>1, <3>1, Details, GraphIs DEF Gone, SelectionHasDetails
    <3> QED
      BY <1>1, <2>1, <3>3, <3>4, <3>5, Invariant DEF server
  <2>4. CASE work # "effects"
    <3>1. snapRef' = snapRef /\ view' = view /\ work' = "none" /\ snapRef = snap
      BY <1>1, <1>4, <2>4 DEF Tap, TypeOK
    <3>2. selected' # Nothing => /\ snap \in Versions
                                 /\ selected' \in DOMAIN Graphs[snap].nodes
      BY <1>1, <2>2, <3>1, NoViewIs DEF ViewIs, Shows, TypeOK
    <3>3. TypeOK'
      BY <1>1, <1>2, <2>1, <2>2, <3>1 DEF server, screen, TypeOK
    <3>4. ViewIs'
      BY <1>1, <2>1, <3>1 DEF screen, ViewIs
    <3>5. SelectionHasDetails'
      BY <2>1, <3>2, Details, GraphIs DEF SelectionHasDetails
    <3> QED
      BY <1>1, <2>1, <3>3, <3>4, <3>5, Invariant DEF server
  <2> QED
    BY <2>3, <2>4
<1> QED
  BY <1>3, <1>4

LEMMA NextPreserves == IInv /\ [Next]_vars => IInv'
<1> SUFFICES ASSUME IInv, [Next]_vars
             PROVE  IInv'
  OBVIOUS
<1>1. CASE Next
  BY <1>1, ServerSteps, EventSteps, ResponseStep, ReactSteps, MountSteps, UserSteps
  DEF Next
<1>2. CASE UNCHANGED vars
  BY <1>2, Invariant DEF vars, server, panel, screen, user, TypeOK, ViewIs, SelectionHasDetails
<1> QED
  BY <1>1, <1>2

\* The inductive invariant holds however answers, events and imports interleave.
THEOREM Invariance == Spec => []IInv
  BY InitEstablishes, NextPreserves, PTL DEF Spec

\* There is one Cytoscape at most, that of the current mount.
THEOREM TypeCorrect == Spec => []TypeOK
<1>1. IInv => TypeOK
  BY DEF IInv
<1> QED
  BY Invariance, <1>1, PTL

\* The elements on the screen are those of the graph the effects last ran with, and
\* dimmed as the filters say.
THEOREM DrawingMatches == Spec => []DrawnMatchesSnap
<1>1. IInv => DrawnMatchesSnap
  BY DEF IInv
<1> QED
  BY Invariance, <1>1, PTL

\* Every node drawn has its place.
THEOREM EveryNodeIsPlaced == Spec => []LaidOut
<1>1. IInv => LaidOut
  BY DEF IInv
<1> QED
  BY Invariance, <1>1, PTL

\* When React has nothing left to do, the panel need not say that what is selected was
\* not found: whatever render, effect, tap or older answer came in between.
THEOREM DetailsAreThere == Spec => []SelectionHasDetails
<1>1. IInv => SelectionHasDetails
  BY DEF IInv
<1> QED
  BY Invariance, <1>1, PTL

-----------------------------------------------------------------------------
\* A node starts to pulse only for an event or for data that changed.
THEOREM PulsesAreNews == Spec => PulseOnlyOnNews
<1> DEFINE News1 == \A n \in view'.ripples \ view.ripples :
                       \/ frames' # frames
                       \/ view.drawn.nodes[n] # view'.drawn.nodes[n]
<1>1. IInv /\ [Next]_vars => [News1]_vars
  <2> SUFFICES ASSUME IInv, Next
               PROVE  News1 \/ UNCHANGED vars
    OBVIOUS
  <2>1. ViewIs /\ TypeOK
    BY Invariant
  <2>2. CASE UNCHANGED view
    BY <2>2
  <2>3. CASE Message
    <3>1. frames \in Seq(Versions) /\ frames # << >> /\ frames' = Tail(frames)
      BY <2>1, <2>3 DEF Message, TypeOK
    <3>2. frames' # frames
      <4>1. Len(frames') = Len(frames) - 1 /\ Len(frames) \in Nat
        BY <3>1
      <4> QED
        BY <4>1
    <3> QED
      BY <3>2
  <2>4. CASE RippleEnds
    <3>1. view'.ripples \subseteq view.ripples
      BY <2>1, <2>4 DEF RippleEnds, ViewIs, ShapeOf
    <3> QED
      BY <3>1
  <2>5. CASE Effects \/ Tap
    <3>1. view' = view \/ view' \in Redraw(cyReady, snap, filters)
      BY <2>5 DEF Effects, Tap
    <3>2. cyReady \in BOOLEAN /\ snap \in Versions \cup {Nothing}
      BY <2>1 DEF TypeOK
    <3> QED
      BY <3>1, <3>2, RedrawIs
  <2>6. ASSUME NEW m \in loading, CyCreated(m)
        PROVE  News1
    <3>1. snap \in Versions \cup {Nothing}
      BY <2>1 DEF TypeOK
    <3>2. view' = view \/ view' \in Redraw(TRUE, snap, filters)
      BY <2>6 DEF CyCreated
    <3> QED
      BY <3>1, <3>2, RedrawIs
  <2>7. CASE Remount
    <3>1. view'.ripples = {}
      BY <2>7, NoViewIs DEF Remount
    <3> QED
      BY <3>1
  <2>8. CASE SetFilter
    <3>1. cyReady \in BOOLEAN /\ snap \in Versions \cup {Nothing}
      BY <2>1 DEF TypeOK
    <3>2. view' \in Redraw(cyReady, snap, filters')
      BY <2>8 DEF SetFilter
    <3> QED
      BY <3>1, <3>2, RedrawIs
  <2>9. ASSUME \/ ServerChanges \/ Opens \/ Closes \/ DebounceFires \/ PollFires
               \/ Answer \/ \E a \in Versions \cup {Sent} : FetchFails(a)
               \/ \E v \in Versions : Response(v)
               \/ Deselect
               \/ \E m \in loading : SetupFails(m)
        PROVE  UNCHANGED view
    BY <2>9 DEF ServerChanges, Opens, Closes, DebounceFires, PollFires, Answer, FetchFails,
                Response, Deselect, SetupFails
  <2> HIDE DEF News1
  <2> QED
    BY <2>2, <2>3, <2>4, <2>5, <2>6, <2>7, <2>8, <2>9 DEF Next, React
<1> QED
  BY Invariance, <1>1, PTL DEF Spec, PulseOnlyOnNews

-----------------------------------------------------------------------------
(* The variant of convergence.                                             *)

LEMMA OldAnswersStep ==
  ASSUME IInv, [Next]_vars, version = Len(Graphs)
  PROVE  /\ \A v \in 1 .. Len(Graphs) - 1 : requests'[v] <= requests[v]
         /\ \/ snap = Len(Graphs) => snap' = snap
            \/ \E v \in 1 .. Len(Graphs) - 1 : requests'[v] < requests[v]
<1> DEFINE Old == 1 .. Len(Graphs) - 1
<1>1. /\ Sent \notin Versions /\ Old \subseteq Versions
      /\ Versions = 1 .. Len(Graphs) /\ Len(Graphs) \in Nat
      /\ requests \in [Versions \cup {Sent} -> Nat]
      /\ Len(Graphs) \notin Old /\ Sent \notin Old
  BY GraphsAssumption DEF IInv, TypeOK, Versions
<1> HIDE DEF Old
<1>2. CASE requests' = requests /\ snap' = snap
  BY <1>1, <1>2
<1>3. ASSUME LoadGraph, snap' = snap
      PROVE  \A v \in Old : requests'[v] <= requests[v]
  BY <1>1, <1>3, LoadGraphIs
<1>4. ASSUME Answer \/ \E a \in Versions \cup {Sent} : FetchFails(a)
      PROVE  (\A v \in Old : requests'[v] <= requests[v]) /\ snap' = snap
  <2>1. CASE Answer
    <3>1. /\ requests' = [requests EXCEPT ![Sent] = requests[Sent] - 1,
                                         ![Len(Graphs)] = requests[Len(Graphs)] + 1]
          /\ snap' = snap
      BY <1>1, <2>1 DEF Answer, panel
    <3> QED
      BY <1>1, <3>1
  <2>2. ASSUME NEW a \in Versions \cup {Sent}, FetchFails(a)
        PROVE  (\A v \in Old : requests'[v] <= requests[v]) /\ snap' = snap
    <3>1. requests' = [requests EXCEPT ![a] = requests[a] - 1] /\ snap' = snap
      BY <2>2 DEF FetchFails, panel
    <3> QED
      BY <1>1, <3>1
  <2> QED
    BY <1>4, <2>1, <2>2
<1>5. ASSUME NEW v \in Versions, Response(v)
      PROVE  /\ \A u \in Old : requests'[u] <= requests[u]
             /\ snap' = Len(Graphs) \/ \E u \in Old : requests'[u] < requests[u]
  <2>1. requests' = [requests EXCEPT ![v] = requests[v] - 1] /\ snap' = v
    BY <1>5 DEF Response
  <2>2. v = Len(Graphs) \/ v \in Old
    BY <1>1 DEF Old
  <2> QED
    BY <1>1, <2>1, <2>2
<1>6. DebounceFires \/ PollFires \/ Remount => LoadGraph /\ snap' = snap
  BY DEF DebounceFires, PollFires, Remount, panel
<1>7. \/ ServerChanges \/ Opens \/ Closes \/ Message \/ RippleEnds \/ SetFilter \/ Tap
      \/ React
      \/ (\E m \in loading : CyCreated(m) \/ SetupFails(m))
      \/ UNCHANGED vars
      => requests' = requests /\ snap' = snap
  BY DEF ServerChanges, Opens, Closes, Message, RippleEnds, SetFilter, Tap, CyCreated,
         SetupFails, React, Effects, Deselect, panel, vars
<1> QED
  BY <1>1, <1>2, <1>3, <1>4, <1>5, <1>6, <1>7 DEF Next, Old

\* When the server has come to rest an older graph can replace the last one only as
\* often as there are old answers under way, and no new ones come: overlapping requests
\* (setSnap in loadGraph) disturb the screen a bounded number of times.
THEOREM OldAnswersRunOut == Spec => FallsBackOnOldAnswers
<1>1. IInv /\ [Next]_vars =>
        [version = Len(Graphs) =>
           /\ \A v \in 1 .. Len(Graphs) - 1 : requests'[v] <= requests[v]
           /\ \/ snap = Len(Graphs) => snap' = snap
              \/ \E v \in 1 .. Len(Graphs) - 1 : requests'[v] < requests[v]]_vars
  BY OldAnswersStep
<1> QED
  BY Invariance, <1>1, PTL DEF Spec, FallsBackOnOldAnswers

=============================================================================
