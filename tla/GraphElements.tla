--------------------------- MODULE GraphElements ---------------------------
(***************************************************************************)
(* What the browser makes of a graph (web/src/App.tsx), without state: the *)
(* elements Cytoscape is given, how they are merged with those it has,     *)
(* which of them the filters dim, which nodes an event is about, and what  *)
(* the panel shows of a node.  Captions, colours and geometry are left     *)
(* out; a text is the set of names that occur in it.                       *)
(***************************************************************************)
EXTENDS Integers, FiniteSets

CONSTANTS
    Name,           \* names of hosts, instances and types, of three characters or more
    ServiceType,    \* types of services, as numbers in the order of their names
    NoType,         \* the type of what is not a service, or has none
    Iface, NoIface, \* interfaces; no hint, and no filter
    Ip,
    Nothing,        \* no text to search for, no node, no graph
    TopTypes,       \* TOP_SERVICE_TYPE_ROWS
    MaxRelated      \* how many nodes one event may pulse

ASSUME ElementsAssumption ==
    /\ ServiceType \subseteq Nat /\ NoType \notin ServiceType
    /\ NoIface \notin Iface
    /\ TopTypes \in Nat /\ MaxRelated \in Nat

Kind == {"host", "service", "service_type"}
Node == [kind : Kind, name : Name]              \* host:..., svc:..., type:...
EdgeId == [kind : {"advertises", "type_parent"}, name : Name]  \* adv:..., sub:...

NodeState == {"active", "stale", "offline", "new"}
NodeData == [state : NodeState, type : ServiceType \cup {NoType},
             iface : Iface \cup {NoIface}, label : Name, ips : SUBSET Ip,
             words : SUBSET Name]

\* GraphSnapshot, and as much of "services" and "hosts" as the panel looks up.
IsGraph(g) ==
    /\ DOMAIN g.nodes \subseteq Node /\ \A n \in DOMAIN g.nodes : g.nodes[n] \in NodeData
    /\ DOMAIN g.ends \subseteq EdgeId /\ \A e \in DOMAIN g.ends : g.ends[e] \in Node \X Node
    /\ DOMAIN g.target \subseteq Name

\* What a filter may ask for.
LegendKey == {"offline", "stale", "new"} \cup Kind
Filters == [types : SUBSET ServiceType, iface : Iface \cup {NoIface},
            query : Name \cup {Nothing}, legend : SUBSET LegendKey]
NoFilter == [types |-> {}, iface |-> NoIface, query |-> Nothing, legend |-> {}]

-----------------------------------------------------------------------------
\* toElementsFull draws all nodes and the edges whose two ends are among them.
DrawnEdges(g) ==
    {e \in DOMAIN g.ends : g.ends[e][1] \in DOMAIN g.nodes /\ g.ends[e][2] \in DOMAIN g.nodes}

Empty == [nodes |-> << >>, ends |-> << >>]

\* The edges that survive the first half of the merge: Cytoscape removes the
\* edges of a removed node with it.
Kept(d, g) ==
    {e \in DrawnEdges(g) \cap DOMAIN d.ends :
       d.ends[e][1] \in DOMAIN g.nodes /\ d.ends[e][2] \in DOMAIN g.nodes}

\* Mutant: the ids that exist are looked up before the removal.
MergeStale(d, g) ==
    [nodes |-> g.nodes,
     ends |-> [e \in (DrawnEdges(g) \ DOMAIN d.ends) \cup Kept(d, g) |->
                 IF e \in Kept(d, g) THEN d.ends[e] ELSE g.ends[e]]]

\* Mutant: only what is new is added.
MergeNew(d, g) ==
    [nodes |-> [n \in DOMAIN g.nodes |-> IF n \in DOMAIN d.nodes THEN d.nodes[n] ELSE g.nodes[n]],
     ends |-> [e \in DrawnEdges(g) |-> IF e \in Kept(d, g) THEN d.ends[e] ELSE g.ends[e]]]

\* mergeGraphElements.  What is no longer there is removed, what is new is added,
\* the data of the rest is set, except the ends of an edge, which Cytoscape does not
\* let data() change.
MergeGraphElements(d, g) ==
    [nodes |-> g.nodes,
     ends |-> [e \in DrawnEdges(g) |-> IF e \in Kept(d, g) THEN d.ends[e] ELSE g.ends[e]]]

\* The ids of all nodes and edges, drawn or not.
GraphStructureKey(g) == <<DOMAIN g.nodes, DOMAIN g.ends>>

\* The nodes whose data an answer changes.
CollectDataTouchPulseIds(d, g) ==
    {n \in DOMAIN d.nodes \cap DOMAIN g.nodes : d.nodes[n] # g.nodes[n]}

-----------------------------------------------------------------------------
\* The row of the legend a node belongs to.
NodeLegendKey(n, data) == IF data.state # "active" THEN data.state ELSE n.kind

NodeMatchesFilters(n, data, f) ==
    /\ f.legend # {} => NodeLegendKey(n, data) \in f.legend
    /\ n.kind = "service" /\ f.types # {} => data.type \in f.types
    /\ n.kind = "service" /\ f.iface # NoIface => data.iface \in {f.iface, NoIface}
    /\ f.query # Nothing => f.query \in data.words

\* The elements that get the class filter-hide.
FilterHidden(d, f) ==
    LET out == {n \in DOMAIN d.nodes : ~NodeMatchesFilters(n, d.nodes[n], f)}
    IN  out \cup {e \in DOMAIN d.ends : d.ends[e][1] \in out \/ d.ends[e][2] \in out}

\* The types of the check boxes: the TopTypes with the most instances, by name
\* where they have equally many.
ServiceTypeRows(g) ==
    LET services == {n \in DOMAIN g.nodes : n.kind = "service" /\ g.nodes[n].type # NoType}
        count(t) == Cardinality({n \in services : g.nodes[n].type = t})
        listed == {g.nodes[n].type : n \in services}
        before(t) == {u \in listed : count(u) > count(t) \/ (count(u) = count(t) /\ u < t)}
    IN  {t \in listed : Cardinality(before(t)) < TopTypes}

\* The options of the interface menu.
IfaceChoices(g) == {NoIface} \cup {g.nodes[n].iface : n \in DOMAIN g.nodes}

-----------------------------------------------------------------------------
\* The hosts an event names, by id or label, or has as its source, and the services
\* it names by label.
RelatedNodes(ev, g) ==
    {n \in DOMAIN g.nodes :
       \/ n.kind = "host" /\ (ev.src \in g.nodes[n].ips \/ n.name \in ev.names)
       \/ n.kind \in {"host", "service"} /\ g.nodes[n].label \in ev.names}

\* discoveryEventRelatedNodeIds: the first MaxRelated of them in the order of the
\* answer, which is that of the ids.
DiscoveryEventRelatedNodeIds(ev, g) ==
    {R \in SUBSET RelatedNodes(ev, g) :
       Cardinality(R) = IF Cardinality(RelatedNodes(ev, g)) < MaxRelated
                          THEN Cardinality(RelatedNodes(ev, g)) ELSE MaxRelated}

\* What the panel shows of the node that is selected: which card, and the
\* instances it lists.
SelectionCurated(g, n) ==
    [card |-> CASE n.kind = "service" ->
                     IF n.name \in DOMAIN g.target THEN "service" ELSE "service not found"
                [] n.kind = "host" -> "device"
                [] n.kind = "service_type" ->
                     IF n \in DOMAIN g.nodes THEN "service type" ELSE "node not found",
     instances |-> {i \in DOMAIN g.target : n.kind = "host" /\ g.target[i] = n.name}]

=============================================================================
