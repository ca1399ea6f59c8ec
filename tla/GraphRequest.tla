---------------------------- MODULE GraphRequest ----------------------------
(***************************************************************************)
(* One GET /api/v1/graph (handleGraph of internal/api/server.go): a        *)
(* snapshot of the registry, enrichment from the ARP cache, merging of the *)
(* hosts that share an address or a MAC, enrichment again.  The ARP cache  *)
(* may be reloaded between any two lookups of hosts.                       *)
(*                                                                         *)
(* The snapshot is taken under the read lock and is a copy, so a request   *)
(* starts from any registry.  Hosts are numbered in the order of their     *)
(* names.  Labels, hints, vendors, node states and ports are left out.     *)
(***************************************************************************)
EXTENDS Integers, SequencesExt

CONSTANTS
    Instance,       \* DNS-SD instances
    Host,           \* host names, as numbers in the order of the names
    NoHost,         \* the target of an instance without an SRV record
    Type,           \* parent types of subtypes such as _printer._sub._http._tcp
    NoType,
    Ip,             \* addresses as A and AAAA records give them
    Ipv4,           \* those that can be in the ARP cache
    IpKey,          \* ipMergeKey: what makes two addresses the same
    NoKey,          \* ipMergeKey of what is not an address
    MergeKey,
    Mac,
    NoMac,
    ArpTable,       \* the tables /proc/net/arp may show
    Score,          \* hostnameScoreVal of each host name
    RegistryHosts,  \* the hosts and the instances a registry may hold
    RegistryServices,
    MaxReloads      \* bound: reloads of the ARP cache during the request

\* A host and its addresses in the order heard; an instance, its target and the
\* parent of its type.
RegisteredHost == [ips : Seq(Ip)]
RegisteredService == [target : Host \cup {NoHost}, parent : Type \cup {NoType}]

ASSUME GraphAssumption ==
    /\ Host \subseteq Nat
    /\ NoHost \notin Host /\ NoType \notin Type
    /\ NoKey \notin IpKey /\ NoMac \notin Mac
    /\ Ipv4 \subseteq Ip
    /\ MergeKey \in [Ip -> IpKey \cup {NoKey}]
    /\ ArpTable \subseteq [Ipv4 -> Mac \cup {NoMac}]
    /\ Score \in [Host -> Int]
    /\ \A r \in RegistryHosts :
         /\ DOMAIN r \subseteq Host /\ IsFiniteSet(DOMAIN r)
         /\ \A h \in DOMAIN r : r[h] \in RegisteredHost
    /\ \A r \in RegistryServices :
         DOMAIN r \subseteq Instance /\ \A k \in DOMAIN r : r[k] \in RegisteredService
    /\ MaxReloads \in Nat

VARIABLES
    registered,     \* Registry.hosts when the snapshot is taken
    known,          \* Registry.services then
    arp,            \* arpCache
    reloads,        \* how often it was reloaded (counts to MaxReloads)
    pc,             \* where the handler is
    hosts,          \* GraphSnapshot.Hosts
    services,       \* GraphSnapshot.Services: the target of each instance
    nodes,          \* GraphSnapshot.Nodes: <<kind, key>>
    edges,          \* GraphSnapshot.Edges
    left,           \* hosts this Apply has not come to
    classes,        \* the sets of the union-find
    macGroups,      \* hosts with the same MAC, still to be united
    ipGroups,       \* hosts with the same address, still to be united
    merging         \* history: the hosts MergeDuplicateHosts was given

unionFind == <<classes, macGroups, ipGroups, merging>>
vars == <<registered, known, arp, reloads, pc, hosts, services, nodes, edges,
          left, unionFind>>

-----------------------------------------------------------------------------
(* Registry.Snapshot                                                       *)

SnapshotHosts ==
    [h \in DOMAIN registered |->
       [ips |-> registered[h].ips, mac |-> NoMac, aliases |-> {}, advertised |-> {}]]

Advertised(ks) == {k \in DOMAIN ks : ks[k].target # NoHost}
Subtyped(ks) == {k \in DOMAIN ks : ks[k].parent # NoType}

\* A target that is not registered gets a node all the same.
SnapshotNodes ==
    {<<"host", h>> : h \in DOMAIN registered}
      \cup {<<"service", k>> : k \in DOMAIN known}
      \cup {<<"host", known[k].target>> : k \in Advertised(known)}
      \cup {<<"service_type", known[k].parent>> : k \in Subtyped(known)}

SnapshotEdges ==
    {[source |-> <<"host", known[k].target>>, target |-> <<"service", k>>]
        : k \in Advertised(known)}
      \cup {[source |-> <<"service", k>>, target |-> <<"service_type", known[k].parent>>]
              : k \in Subtyped(known)}

(* hostenrich                                                              *)

\* MACForIP: IPv4 only.
MACForIP(ip) == IF ip \in Ipv4 THEN arp[ip] ELSE NoMac

\* The MAC of the first address that has one.
FirstMac(ips) ==
    LET found == {i \in DOMAIN ips : MACForIP(ips[i]) # NoMac}
    IN  IF found = {} THEN NoMac ELSE MACForIP(ips[Min(found)])

\* applyToHost: the MAC of an address, else the old one; the instances that point
\* at the host.
Enriched(h) ==
    [hosts[h] EXCEPT
       !.mac = IF FirstMac(hosts[h].ips) = NoMac THEN @ ELSE FirstMac(hosts[h].ips),
       !.advertised = {k \in DOMAIN services : services[k] = h}]

(* graphmerge                                                              *)

SameMac(m) == {h \in DOMAIN hosts : hosts[h].mac = m}

\* Mutant: only the first address of a host counts.
SameFirstAddress(key) ==
    {h \in DOMAIN hosts : hosts[h].ips # << >> /\ MergeKey[Head(hosts[h].ips)] = key}

SameAddress(key) == {h \in DOMAIN hosts : \E ip \in ToSet(hosts[h].ips) : MergeKey[ip] = key}

MacGroups == {SameMac(m) : m \in Mac} \ {{}}
IpGroups == {SameAddress(key) : key \in IpKey} \ {{}}

\* Mutant: the sets that were united stay.
UnionAllKept(group) == classes \cup {UNION {class \in classes : class \cap group # {}}}

\* unionAll: the sets that meet the group become one.
UnionAll(group) ==
    LET Meets(class) == class \cap group # {}
    IN  {class \in classes : ~Meets(class)}
          \cup {UNION {class \in classes : Meets(class)}}

\* pickCanonicalKey: the highest score, then the first name.
CanonicalKey(class) ==
    CHOOSE h \in class : \A g \in class :
        Score[g] < Score[h] \/ (Score[g] = Score[h] /\ h <= g)

\* Mutant: the first name of the set instead of the canonical one.
RedirectToFirst(h) ==
    IF h \in DOMAIN hosts
      THEN LET class == CHOOSE class \in classes : h \in class
           IN  CHOOSE g \in class : \A k \in class : g <= k
      ELSE h

\* The canonical key of a host; a name that is not registered has none.
Redirect(h) ==
    IF h \in DOMAIN hosts
      THEN CanonicalKey(CHOOSE class \in classes : h \in class)
      ELSE h

\* mergeHostGroup walks the addresses by host and then as they were heard, and keeps
\* each where it meets it first.
Places(class) == UNION {{h} \X DOMAIN hosts[h].ips : h \in class}
AddressAt(p) == hosts[p[1]].ips[p[2]]
Before(p, q) == p[1] < q[1] \/ (p[1] = q[1] /\ p[2] < q[2])

FirstPlaces(class) ==
    {p \in Places(class) : \A q \in Places(class) :
       AddressAt(q) = AddressAt(p) => ~Before(q, p)}

InOrder(places) ==
    CHOOSE s \in [1 .. Cardinality(places) -> places] :
        \A m, n \in DOMAIN s : m < n => Before(s[m], s[n])

\* Mutant: the canonical host without what the others add.
MergedAlone(class) ==
    [hosts[CanonicalKey(class)] EXCEPT !.aliases = class \ {CanonicalKey(class)}]

\* mergeHostGroup: the addresses of all, the MAC of the last that has one.
Merged(class) ==
    LET walk == InOrder(FirstPlaces(class))
        withMac == {h \in class : hosts[h].mac # NoMac}
    IN  [ips |-> [n \in DOMAIN walk |-> AddressAt(walk[n])],
         mac |-> IF withMac = {} THEN NoMac ELSE hosts[Max(withMac)].mac,
         aliases |-> class \ {CanonicalKey(class)},
         advertised |-> {}]

\* remapHostID
RemapNode(n) == IF n[1] = "host" THEN <<"host", Redirect(n[2])>> ELSE n

-----------------------------------------------------------------------------
Init ==
    /\ registered \in RegistryHosts
    /\ known \in RegistryServices
    /\ arp \in ArpTable
    /\ reloads = 0
    /\ pc = "start"
    /\ hosts = << >> /\ services = << >>
    /\ nodes = {} /\ edges = {}
    /\ left = {}
    /\ classes = {} /\ macGroups = {} /\ ipGroups = {}
    /\ merging = << >>

\* The cache is older than its 4 s when an address is looked up.
ReloadArp ==
    /\ pc \in {"enriching", "again"}
    /\ left # {}
    /\ reloads < MaxReloads
    /\ reloads' = reloads + 1
    /\ arp' \in ArpTable
    /\ UNCHANGED <<registered, known, pc, hosts, services, nodes, edges, left, unionFind>>

Snapshot ==
    /\ pc = "start"
    /\ hosts' = SnapshotHosts
    /\ services' = [k \in DOMAIN known |-> known[k].target]
    /\ nodes' = SnapshotNodes
    /\ edges' = SnapshotEdges
    /\ left' = DOMAIN registered
    /\ pc' = "enriching"
    /\ UNCHANGED <<registered, known, arp, reloads, unionFind>>

\* One round of the loop of Apply, which takes the hosts in any order.
Apply(h) ==
    /\ pc \in {"enriching", "again"}
    /\ h \in left
    /\ hosts' = [hosts EXCEPT ![h] = Enriched(h)]
    /\ left' = left \ {h}
    /\ UNCHANGED <<registered, known, arp, reloads, pc, services, nodes, edges, unionFind>>

\* MergeDuplicateHosts groups the hosts, or returns when there are fewer than two.
Group ==
    /\ pc = "enriching"
    /\ left = {}
    /\ merging' = hosts
    /\ IF Cardinality(DOMAIN hosts) < 2
         THEN /\ pc' = "again"
              /\ left' = DOMAIN hosts
              /\ UNCHANGED <<classes, macGroups, ipGroups>>
         ELSE /\ pc' = "uniting"
              /\ classes' = {{h} : h \in DOMAIN hosts}
              /\ macGroups' = MacGroups
              /\ ipGroups' = IpGroups
              /\ UNCHANGED left
    /\ UNCHANGED <<registered, known, arp, reloads, hosts, services, nodes, edges>>

\* The loops over the two maps of groups, each in any order.
UniteByMac(group) ==
    /\ pc = "uniting"
    /\ group \in macGroups
    /\ classes' = UnionAll(group)
    /\ macGroups' = macGroups \ {group}
    /\ UNCHANGED <<registered, known, arp, reloads, pc, hosts, services, nodes,
                   edges, left, ipGroups, merging>>

UniteByAddress(group) ==
    /\ pc = "uniting"
    /\ macGroups = {}
    /\ group \in ipGroups
    /\ classes' = UnionAll(group)
    /\ ipGroups' = ipGroups \ {group}
    /\ UNCHANGED <<registered, known, arp, reloads, pc, hosts, services, nodes,
                   edges, left, macGroups, merging>>

\* The rest of MergeDuplicateHosts, after which the hosts are enriched again.
\* Without a merge it returns early.  With one, targets and edges are redirected
\* and the host nodes rebuilt (rebuildHostNodes) from the hosts that remain.
Merge ==
    /\ pc = "uniting"
    /\ macGroups = {} /\ ipGroups = {}
    /\ IF \A class \in classes : Cardinality(class) = 1
         THEN UNCHANGED <<hosts, services, nodes, edges>>
         ELSE /\ hosts' = [h \in {CanonicalKey(class) : class \in classes} |->
                             Merged(CHOOSE class \in classes : h \in class)]
              /\ services' = [k \in DOMAIN services |-> Redirect(services[k])]
              /\ edges' = {e \in {[source |-> RemapNode(e.source),
                                   target |-> RemapNode(e.target)] : e \in edges} :
                             e.source # e.target}
              /\ nodes' = {n \in nodes : n[1] # "host"}
                            \cup {<<"host", h>> : h \in DOMAIN hosts'}
    /\ left' = DOMAIN hosts'
    /\ pc' = "again"
    /\ UNCHANGED <<registered, known, arp, reloads, unionFind>>

\* The second Apply is done: the snapshot is encoded.
Respond ==
    /\ pc = "again"
    /\ left = {}
    /\ pc' = "done"
    /\ UNCHANGED <<registered, known, arp, reloads, hosts, services, nodes,
                   edges, left, unionFind>>

Next ==
    \/ ReloadArp
    \/ Snapshot
    \/ \E h \in left : Apply(h)
    \/ Group
    \/ \E group \in macGroups : UniteByMac(group)
    \/ \E group \in ipGroups : UniteByAddress(group)
    \/ Merge
    \/ Respond

Spec == Init /\ [][Next]_vars

-----------------------------------------------------------------------------
HostEntry ==
    [ips : Seq(Ip), mac : Mac \cup {NoMac}, aliases : SUBSET Host,
     advertised : SUBSET Instance]

\* The shape of the state; in particular the sets of the union-find divide up
\* the hosts of the snapshot.
TypeOK ==
    /\ arp \in ArpTable
    /\ reloads \in 0 .. MaxReloads
    /\ pc \in {"start", "enriching", "uniting", "again", "done"}
    /\ DOMAIN hosts \subseteq Host
    /\ \A h \in DOMAIN hosts : hosts[h] \in HostEntry
    /\ left \subseteq DOMAIN hosts
    /\ \A k \in DOMAIN services : services[k] \in Host \cup {NoHost}
    /\ pc = "uniting" =>
         /\ UNION classes = DOMAIN hosts
         /\ \A c, d \in classes : c # {} /\ (c # d => c \cap d = {})

\* Two hosts share an address or a MAC ...
Shares(g, h) ==
    \/ merging[g].mac = merging[h].mac /\ merging[g].mac # NoMac
    \/ \E i \in ToSet(merging[g].ips), j \in ToSet(merging[h].ips) :
         MergeKey[i] = MergeKey[j] /\ MergeKey[i] # NoKey

\* ... or are linked by hosts that do.
Connected(g, h) ==
    \A S \in SUBSET DOMAIN merging :
        g \in S /\ (\A x \in S : \A y \in DOMAIN merging : Shares(x, y) => y \in S)
          => h \in S

Names(h) == {h} \cup hosts[h].aliases

\* The hosts that are merged are those that are connected, no more and no less,
\* whatever order the maps of groups are walked in: the host entries of the
\* answer, with their aliases, are the connected components of "share an IP
\* address and/or the same Ethernet MAC" (the comment on MergeDuplicateHosts).
MergedIffConnected ==
    pc \in {"again", "done"} =>
        /\ UNION {Names(h) : h \in DOMAIN hosts} = DOMAIN merging
        /\ \A h \in DOMAIN hosts : \A a \in Names(h) :
             Names(h) = {b \in DOMAIN merging : Connected(a, b)}

AddressAtOneHost ==
    pc = "done" =>
        \A h \in DOMAIN registered : \A ip \in ToSet(registered[h].ips) :
            MergeKey[ip] # NoKey =>
                {g \in DOMAIN hosts : ip \in ToSet(hosts[g].ips)}
                  = {g \in DOMAIN hosts : h \in Names(g)}

MacAtOneHost ==
    pc = "done" /\ reloads = 0 =>
        \A g, h \in DOMAIN hosts :
            hosts[g].mac = hosts[h].mac /\ hosts[g].mac # NoMac => g = h

\* In the answer an address is at exactly one host, and it is a host that was
\* heard with it: merging loses and spreads no address.  Nor do two hosts have the
\* same MAC, although the second Apply sets it anew for hosts whose addresses have
\* been put together: it picks the MAC of one of the merged hosts, unless the ARP
\* cache was reloaded meanwhile.
IdentityAtOneHost == AddressAtOneHost /\ MacAtOneHost

Dangling == {e \in edges : ~({e.source, e.target} \subseteq nodes)}

\* The edges of the instances whose target is not registered.
Orphaned ==
    {[source |-> <<"host", known[k].target>>, target |-> <<"service", k>>]
       : k \in {j \in Advertised(known) : known[j].target \notin DOMAIN registered}}

EdgesLinkNodes == pc = "done" => Dangling \subseteq Orphaned

\* An instance with a registered host is advertised by exactly one host of the
\* answer, the one its edge starts from and its target names, and it is the host
\* it was advertised by before merging.  Each edge of the answer links two nodes of
\* it, but for those of instances whose target is not registered.
ServiceAtOneHost ==
    /\ EdgesLinkNodes
    /\ pc = "done" =>
        \A k \in Advertised(known) : known[k].target \in DOMAIN registered =>
            LET home == {h \in DOMAIN hosts : known[k].target \in Names(h)}
            IN  /\ home = {services[k]}
                /\ home = {h \in DOMAIN hosts : k \in hosts[h].advertised}
                /\ {e.source : e \in {f \in edges : f.target = <<"service", k>>}}
                     = {<<"host", h>> : h \in home}

-----------------------------------------------------------------------------
(* What makes these inductive.                                             *)

\* Until hosts are merged, an entry has the addresses that were heard and no alias,
\* and the graph is that of the registry.
Unmerged ==
    /\ DOMAIN hosts = DOMAIN registered
    /\ \A h \in DOMAIN hosts : hosts[h].ips = registered[h].ips /\ hosts[h].aliases = {}
    /\ services = [k \in DOMAIN known |-> known[k].target]
    /\ nodes = SnapshotNodes /\ edges = SnapshotEdges

\* The sets of the union-find divide up the hosts, and hold only hosts that are
\* connected; a group the loops have come past lies in one of them.
Partition ==
    /\ UNION classes = DOMAIN hosts
    /\ \A c, d \in classes : c # {} /\ (c # d => c \cap d = {})

ClassesConnected == \A c \in classes : \A a, b \in c : Connected(a, b)

GroupsUnited ==
    /\ macGroups \subseteq MacGroups /\ ipGroups \subseteq IpGroups
    /\ \A group \in (MacGroups \ macGroups) \cup (IpGroups \ ipGroups) :
         \E c \in classes : group \subseteq c

\* From then on a name is in one entry, and an entry has the addresses of its names.
AddressesUnited ==
    /\ DOMAIN merging = DOMAIN registered
    /\ \A h \in DOMAIN merging : merging[h].ips = registered[h].ips
    /\ \A g, h \in DOMAIN hosts : Names(g) \cap Names(h) # {} => g = h
    /\ \A h \in DOMAIN hosts :
         ToSet(hosts[h].ips) = UNION {ToSet(registered[a].ips) : a \in Names(h)}

\* An instance with a registered target points at the entry with that name, as its
\* edge does, and is listed there when the second Apply has come past.
ServicesRedirected ==
    /\ DOMAIN services = DOMAIN known
    /\ \A k \in Advertised(known) : known[k].target \in DOMAIN registered =>
         /\ services[k] \in DOMAIN hosts /\ known[k].target \in Names(services[k])
         /\ {e.source : e \in {f \in edges : f.target = <<"service", k>>}}
              = {<<"host", services[k]>>}
    /\ \A h \in DOMAIN hosts \ left :
         hosts[h].advertised = {k \in DOMAIN services : services[k] = h}
    /\ Dangling \subseteq Orphaned

\* While the ARP cache is the one the request began with, an entry has the MAC of its
\* first address with one, and merging adds no MAC: the second Apply can pick only
\* one that a name of the entry had.
MacsFit ==
    /\ pc \in {"enriching", "uniting"} =>
         \A h \in DOMAIN hosts :
             hosts[h].mac = IF h \in left THEN NoMac ELSE FirstMac(hosts[h].ips)
    /\ pc \in {"again", "done"} =>
         \A h \in DOMAIN hosts :
             {hosts[h].mac, FirstMac(hosts[h].ips)}
               \subseteq {NoMac} \cup {merging[a].mac : a \in Names(h)}

IInv ==
    /\ TypeOK
    /\ registered \in RegistryHosts /\ known \in RegistryServices
    /\ pc = "start" => DOMAIN hosts = {}
    /\ pc \in {"enriching", "uniting"} => Unmerged
    /\ pc = "uniting" =>
         left = {} /\ merging = hosts /\ Partition /\ ClassesConnected /\ GroupsUnited
    /\ pc \in {"again", "done"} => AddressesUnited /\ ServicesRedirected
    /\ pc = "done" => left = {}
    /\ reloads = 0 => MacsFit
    /\ MergedIffConnected

-----------------------------------------------------------------------------
\* "GraphEdge connects graph entities" (internal/model/graph.go:30), whatever
\* the registry holds.  A target that is not registered yet (applySRV locks the
\* registry twice) loses its node when other hosts are merged.
NoDanglingEdge == pc = "done" => Dangling = {}

=============================================================================
