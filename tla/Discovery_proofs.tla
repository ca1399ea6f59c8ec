-------------------------- MODULE Discovery_proofs --------------------------
(***************************************************************************)
(* Proofs about the discovery engine, for every set of sockets, names and  *)
(* packets, and every interleaving of the listener goroutines.  The        *)
(* argument: the registry only grows (Grows), so a record that is          *)
(* reflected in the graph stays reflected; a listener records an event     *)
(* when all its records are.                                               *)
(***************************************************************************)
EXTENDS Discovery, ServiceRecord_proofs

\* The types of the shared state, and those of the listeners.
DataOK ==
    /\ clock \in Time \ {NoTime}
    /\ received \in Nat
    /\ services \in [Instance -> ServiceSnapshot \cup {Absent}]
    /\ hosts \in [Host -> HostSnapshot \cup {Absent}]
    /\ seenTypes \in [ServiceType -> Time]
    /\ log \in Seq(Event)
    /\ stream \in Seq(Event)

ControlOK ==
    /\ pc \in [Listener ->
         {"reading", "applying", "marking", "recording", "publishing", "ended"}]
    /\ cur \in [Listener -> Event \cup {Idle}]
    /\ pos \in [Listener -> Nat \ {0}]
    /\ \A l \in Listener :
         /\ cur[l] = Idle <=> pc[l] \in {"reading", "ended"}
         /\ pc[l] \in {"applying", "marking"} => pos[l] \in DOMAIN cur[l].records
         /\ pc[l] = "marking" => Current(l) \in SRV

LEMMA TypeParts == TypeOK <=> DataOK /\ ControlOK
BY DEF TypeOK, DataOK, ControlOK

LEMMA TypePartsNext == TypeOK' <=> DataOK' /\ ControlOK'
BY DEF TypeOK, DataOK, ControlOK, Current

-----------------------------------------------------------------------------
(* Facts about the state a listener works on.                              *)

\* A listener that has read a packet has an event with typed records.
LEMMA InFlight ==
    ASSUME TypeOK, NEW l \in Listener, pc[l] \notin {"reading", "ended"}
    PROVE  /\ cur[l] \in Event
           /\ cur[l].time \in Time
           /\ cur[l].records \in Seq(RR)
           /\ DOMAIN cur[l].records = 1 .. Len(cur[l].records)
           /\ Len(cur[l].records) \in Nat
           /\ pos[l] \in Nat \ {0}
           /\ pc[l] \in {"applying", "marking"} =>
                pos[l] \in 1 .. Len(cur[l].records) /\ Current(l) \in RR
<1>1. cur[l] \in Event
  BY DEF TypeOK
<1>2. cur[l].time \in Time /\ cur[l].records \in Seq(RR)
  BY <1>1 DEF Event
<1>3. /\ DOMAIN cur[l].records = 1 .. Len(cur[l].records)
      /\ Len(cur[l].records) \in Nat
  BY <1>2
<1>4. /\ pos[l] \in Nat \ {0}
      /\ pc[l] \in {"applying", "marking"} => pos[l] \in DOMAIN cur[l].records
  BY DEF TypeOK
<1>5. pc[l] \in {"applying", "marking"} => Current(l) \in RR
  BY <1>2, <1>3, <1>4 DEF Current
<1> QED
  BY <1>1, <1>2, <1>3, <1>4, <1>5

\* The types of records are disjoint.
LEMMA RecordTypes ==
    /\ \A rr \in PTR : rr.rtype = "PTR" /\ rr.target \in Instance /\ rr.ttl \in TTL
    /\ \A rr \in META : rr.rtype = "META" /\ rr.target \in ServiceType /\ rr.ttl \in TTL
    /\ \A rr \in SRV : /\ rr.rtype = "SRV" /\ rr.owner \in Instance /\ rr.ttl \in TTL
                       /\ rr.target \in Host \cup {NoHost}
    /\ \A rr \in TXT : /\ rr.rtype = "TXT" /\ rr.owner \in Instance /\ rr.ttl \in TTL
                       /\ rr.attrs \in SUBSET Attr
    /\ \A rr \in ADDR : /\ rr.rtype = "ADDR" /\ rr.owner \in Host \cup {NoHost}
                        /\ rr.ip \in Ip /\ rr.ttl \in TTL
    /\ \A rr \in IGNORED : rr.rtype = "IGNORED" /\ rr.ttl \in TTL
BY DEF PTR, META, SRV, TXT, ADDR, IGNORED

\* What UpsertService hands to its closure.
LEMMA StoredFacts ==
    ASSUME DataOK, NEW k \in Instance
    PROVE  /\ Stored(k) \in ServiceSnapshot
           /\ services[k] # Absent => Stored(k) = services[k]
           /\ services[k] = Absent => Stored(k) = ZeroService
           /\ LifetimeBounded => Starting(Stored(k), clock)
BY ZeroServiceType DEF DataOK, Stored, LifetimeBounded, Known, Starting

LEMMA KeepsReflexive == \A s \in ServiceSnapshot : Keeps(s, s)
BY DEF Keeps, ServiceSnapshot, TTL

\* One UpsertService keeps the types and what is known of every instance.
LEMMA Upsert ==
    ASSUME DataOK, NEW k \in Instance, NEW t \in ServiceSnapshot,
           Keeps(Stored(k), t), services' = [services EXCEPT ![k] = t]
    PROVE  /\ services' \in [Instance -> ServiceSnapshot \cup {Absent}]
           /\ services'[k] = t /\ t # Absent
           /\ \A j \in Known : services'[j] # Absent /\ Keeps(services[j], services'[j])
<1>1. services \in [Instance -> ServiceSnapshot \cup {Absent}] /\ t # Absent
  BY PacketAssumption DEF DataOK
<1>2. services'[k] = t /\ \A j \in Instance : j # k => services'[j] = services[j]
  BY <1>1
<1>3. ASSUME NEW j \in Known
      PROVE  services'[j] # Absent /\ Keeps(services[j], services'[j])
  <2>1. j \in Instance /\ services[j] # Absent /\ services[j] \in ServiceSnapshot
    BY <1>1 DEF Known
  <2>2. CASE j = k
    BY <1>1, <1>2, <2>1, <2>2, StoredFacts
  <2>3. CASE j # k
    BY <1>2, <2>1, <2>3, KeepsReflexive
  <2> QED
    BY <2>2, <2>3
<1> QED
  BY <1>1, <1>2, <1>3

\* One MarkHost keeps the types and every host and address, and adds its own.
LEMMA Mark ==
    ASSUME DataOK, NEW h \in Host \cup {NoHost}, NEW ips \in SUBSET Ip,
           MarkHost(h, ips)
    PROVE  /\ hosts' \in [Host -> HostSnapshot \cup {Absent}]
           /\ \A g \in Host : hosts[g] # Absent =>
                 hosts'[g] # Absent /\ hosts[g].ips \subseteq hosts'[g].ips
           /\ h # NoHost => hosts'[h] # Absent /\ ips \subseteq hosts'[h].ips
<1>1. CASE h = NoHost
  BY <1>1 DEF MarkHost, DataOK
<1>2. CASE h # NoHost
  <2> DEFINE new == [ips |-> IF hosts[h] = Absent THEN ips
                                                   ELSE hosts[h].ips \cup ips]
  <2>1. h \in Host /\ hosts \in [Host -> HostSnapshot \cup {Absent}]
    BY <1>2 DEF DataOK
  <2>2. new \in HostSnapshot
    BY <2>1 DEF HostSnapshot
  <2>3. /\ new # Absent /\ ips \subseteq new.ips
        /\ hosts[h] # Absent => hosts[h].ips \subseteq new.ips
    BY <2>2, PacketAssumption
  <2>4. hosts' = [hosts EXCEPT ![h] = new]
    BY <1>2 DEF MarkHost
  <2> HIDE DEF new
  <2> QED
    BY <2>1, <2>2, <2>3, <2>4
<1> QED
  BY <1>1, <1>2

\* What the three UpsertService handlers have in common.
LEMMA Handlers ==
    ASSUME TypeOK, NEW l \in Listener, cur[l].time \in 1 .. clock,
           HandlePTR(l) \/ HandleSRV(l) \/ HandleTXT(l)
    PROVE  \E k \in Instance : \E t \in ServiceSnapshot :
             /\ services' = [services EXCEPT ![k] = t]
             /\ k = IF Current(l) \in PTR THEN Current(l).target ELSE Current(l).owner
             /\ Applied(Stored(k), t, Current(l).ttl, cur[l].time)
             /\ LifetimeBounded => Bounded(t, clock)
             /\ t.targetHost = IF Current(l) \in SRV /\ Current(l).ttl # 0
                                 THEN Current(l).target
                                 ELSE Stored(k).targetHost
             /\ Current(l) \in TXT /\ Current(l).ttl > 0 =>
                  Current(l).attrs \subseteq t.txt
<1> DEFINE rr == Current(l)
           now == cur[l].time
<1>1. DataOK /\ now \in Time /\ clock \in Nat
  BY TypeParts, TypeOK DEF DataOK, Time
<1>2. CASE HandlePTR(l)
  <2> DEFINE k == rr.target
             t == ApplyPTR(Stored(k), rr, now)
  <2>1. /\ rr \in PTR /\ rr \notin SRV /\ rr \notin TXT /\ k \in Instance
        /\ services' = [services EXCEPT ![k] = t]
    BY <1>2, RecordTypes DEF HandlePTR
  <2>2. /\ Stored(k) \in ServiceSnapshot
        /\ LifetimeBounded => Starting(Stored(k), clock)
    BY <1>1, <2>1, StoredFacts
  <2>3. /\ Applied(Stored(k), t, rr.ttl, now)
        /\ t.targetHost = Stored(k).targetHost
    BY <1>1, <2>1, <2>2, ApplyPTRFacts
  <2>4. LifetimeBounded => Bounded(t, clock)
    BY <1>1, <2>1, <2>2, ApplyBounded
  <2>5. t \in ServiceSnapshot
    BY <2>3 DEF Applied
  <2> HIDE DEF t
  <2> QED
    BY <2>1, <2>3, <2>4, <2>5
<1>3. CASE HandleSRV(l)
  <2> DEFINE k == rr.owner
             t == ApplySRV(Stored(k), rr, now)
  <2>1. /\ rr \in SRV /\ rr \notin PTR /\ rr \notin TXT /\ k \in Instance
        /\ services' = [services EXCEPT ![k] = t]
    BY <1>3, RecordTypes DEF HandleSRV
  <2>2. /\ Stored(k) \in ServiceSnapshot
        /\ LifetimeBounded => Starting(Stored(k), clock)
    BY <1>1, <2>1, StoredFacts
  <2>3. /\ Applied(Stored(k), t, rr.ttl, now)
        /\ t.targetHost = IF rr.ttl = 0 THEN Stored(k).targetHost ELSE rr.target
    BY <1>1, <2>1, <2>2, ApplySRVFacts
  <2>4. LifetimeBounded => Bounded(t, clock)
    BY <1>1, <2>1, <2>2, ApplyBounded
  <2>5. t \in ServiceSnapshot
    BY <2>3 DEF Applied
  <2> HIDE DEF t
  <2> QED
    BY <2>1, <2>3, <2>4, <2>5
<1>4. CASE HandleTXT(l)
  <2> DEFINE k == rr.owner
             t == ApplyTXT(Stored(k), rr, now)
  <2>1. /\ rr \in TXT /\ rr \notin PTR /\ rr \notin SRV /\ k \in Instance
        /\ services' = [services EXCEPT ![k] = t]
    BY <1>4, RecordTypes DEF HandleTXT
  <2>2. /\ Stored(k) \in ServiceSnapshot
        /\ LifetimeBounded => Starting(Stored(k), clock)
    BY <1>1, <2>1, StoredFacts
  <2>3. /\ Applied(Stored(k), t, rr.ttl, now)
        /\ t.targetHost = Stored(k).targetHost
        /\ rr.ttl > 0 => rr.attrs \subseteq t.txt
    BY <1>1, <2>1, <2>2, ApplyTXTFacts
  <2>4. LifetimeBounded => Bounded(t, clock)
    BY <1>1, <2>1, <2>2, ApplyBounded
  <2>5. t \in ServiceSnapshot
    BY <2>3 DEF Applied
  <2> HIDE DEF t
  <2> QED
    BY <2>1, <2>3, <2>4, <2>5
<1> QED
  BY <1>2, <1>3, <1>4

-----------------------------------------------------------------------------
(* The control state: who works on which record of which event.            *)

\* Whatever else a step does, a listener that advances from a record stays in
\* a well-typed control state.
LEMMA AdvanceControl ==
    ASSUME TypeOK, NEW l \in Listener, pc[l] \in {"applying", "marking"},
           Advance(l), cur' = cur
    PROVE  ControlOK'
<1>1. /\ pc \in [Listener -> {"reading", "applying", "marking", "recording",
                              "publishing", "ended"}]
      /\ pos \in [Listener -> Nat \ {0}]
      /\ cur \in [Listener -> Event \cup {Idle}]
  BY DEF TypeOK
<1>2. /\ pos' = [pos EXCEPT ![l] = pos[l] + 1]
      /\ pc' = [pc EXCEPT ![l] = IF pos[l] < Len(cur[l].records)
                                   THEN "applying" ELSE "recording"]
  BY DEF Advance
<1>3. /\ pos[l] \in 1 .. Len(cur[l].records)
      /\ DOMAIN cur[l].records = 1 .. Len(cur[l].records)
      /\ Len(cur[l].records) \in Nat
      /\ cur[l] # Idle
  BY InFlight, PacketAssumption
<1>4. /\ pos' \in [Listener -> Nat \ {0}]
      /\ pc' \in [Listener -> {"reading", "applying", "marking", "recording",
                               "publishing", "ended"}]
      /\ pos'[l] = pos[l] + 1
      /\ pc'[l] = IF pos[l] < Len(cur[l].records) THEN "applying" ELSE "recording"
  BY <1>1, <1>2, <1>3
<1>5. ASSUME NEW m \in Listener
      PROVE  /\ cur'[m] = Idle <=> pc'[m] \in {"reading", "ended"}
             /\ pc'[m] \in {"applying", "marking"} => pos'[m] \in DOMAIN cur'[m].records
             /\ pc'[m] = "marking" => Current(m)' \in SRV
  <2>1. CASE m = l
    <3>1. pos[l] < Len(cur[l].records) => pos'[l] \in DOMAIN cur[l].records
      BY <1>3, <1>4
    <3> QED
      BY <1>3, <1>4, <2>1, <3>1
  <2>2. CASE m # l
    <3>1. pc'[m] = pc[m] /\ pos'[m] = pos[m] /\ cur'[m] = cur[m]
      BY <1>1, <1>2, <2>2
    <3>2. Current(m)' = Current(m)
      BY <3>1 DEF Current
    <3> QED
      BY <3>1, <3>2 DEF TypeOK
  <2> QED
    BY <2>1, <2>2
<1> QED
  BY <1>1, <1>4, <1>5 DEF ControlOK

\* A listener that goes elsewhere without touching its event.
LEMMA MoveControl ==
    ASSUME TypeOK, NEW l \in Listener,
           NEW next \in {"marking", "publishing", "ended"},
           pc' = [pc EXCEPT ![l] = next], cur' = cur, pos' = pos,
           pc[l] \in {"reading", "ended"} <=> next = "ended",
           next = "marking" => pc[l] = "applying" /\ Current(l) \in SRV
    PROVE  ControlOK'
<1>1. /\ pc \in [Listener -> {"reading", "applying", "marking", "recording",
                              "publishing", "ended"}]
      /\ pc' \in [Listener -> {"reading", "applying", "marking", "recording",
                               "publishing", "ended"}]
      /\ pc'[l] = next
      /\ \A m \in Listener : m # l => pc'[m] = pc[m]
  BY DEF TypeOK
<1>2. \A m \in Listener : Current(m)' = Current(m)
  BY DEF Current
<1>3. ASSUME NEW m \in Listener
      PROVE  /\ cur'[m] = Idle <=> pc'[m] \in {"reading", "ended"}
             /\ pc'[m] \in {"applying", "marking"} => pos'[m] \in DOMAIN cur'[m].records
             /\ pc'[m] = "marking" => Current(m)' \in SRV
  <2>1. CASE m = l
    BY <1>1, <1>2, <2>1 DEF TypeOK
  <2>2. CASE m # l
    BY <1>1, <1>2, <2>2 DEF TypeOK
  <2> QED
    BY <2>1, <2>2
<1> QED
  BY <1>1, <1>3 DEF ControlOK, TypeOK

\* A packet with records becomes an event of the model's type.
LEMMA EventOfType ==
    ASSUME DataOK, NEW l \in Listener, NEW p \in Packet
    PROVE  EventOf(l, p, clock) \in Event /\ EventOf(l, p, clock) # Idle
<1>1. clock \in Time /\ p \in Seq(RR)
  BY PacketAssumption DEF DataOK
<1>2. KindOf(p) \in EventKind
  BY DEF KindOf, EventKind
<1>3. EventOf(l, p, clock) \in Event
  BY <1>1, <1>2 DEF EventOf, Event
<1> QED
  BY <1>3, PacketAssumption

\* Reading a packet starts at its first record.
LEMMA ReceiveControl ==
    ASSUME TypeOK, NEW l \in Listener, NEW p \in Packet, Receive(l, p)
    PROVE  ControlOK'
<1>1. CASE p = << >>
  <2>1. pc' = pc /\ cur' = cur /\ pos' = pos
    BY <1>1 DEF Receive
  <2> QED
    BY <2>1, TypeParts DEF ControlOK, Current
<1>2. CASE p # << >>
  <2> DEFINE e == EventOf(l, p, clock)
  <2>1. e \in Event /\ e # Idle
    BY EventOfType, TypeParts
  <2>2. e.records = p /\ 1 \in DOMAIN p
    <3>1. p \in Seq(RR)
      BY PacketAssumption
    <3> QED
      BY <1>2, <3>1 DEF EventOf
  <2>3. /\ cur' = [cur EXCEPT ![l] = e]
        /\ pos' = [pos EXCEPT ![l] = 1]
        /\ pc' = [pc EXCEPT ![l] = "applying"]
    BY <1>2 DEF Receive
  <2> HIDE DEF e
  <2>4. /\ pc \in [Listener -> {"reading", "applying", "marking", "recording",
                                "publishing", "ended"}]
        /\ pos \in [Listener -> Nat \ {0}]
        /\ cur \in [Listener -> Event \cup {Idle}]
    BY DEF TypeOK
  <2>5. /\ pc' \in [Listener -> {"reading", "applying", "marking", "recording",
                                 "publishing", "ended"}]
        /\ pos' \in [Listener -> Nat \ {0}]
        /\ cur' \in [Listener -> Event \cup {Idle}]
    BY <2>1, <2>3, <2>4
  <2>6. ASSUME NEW m \in Listener
        PROVE  /\ cur'[m] = Idle <=> pc'[m] \in {"reading", "ended"}
               /\ pc'[m] \in {"applying", "marking"} => pos'[m] \in DOMAIN cur'[m].records
               /\ pc'[m] = "marking" => Current(m)' \in SRV
    <3>1. CASE m = l
      BY <2>1, <2>2, <2>3, <2>4, <3>1
    <3>2. CASE m # l
      <4>1. pc'[m] = pc[m] /\ pos'[m] = pos[m] /\ cur'[m] = cur[m]
        BY <2>3, <2>4, <3>2
      <4>2. Current(m)' = Current(m)
        BY <4>1 DEF Current
      <4> QED
        BY <4>1, <4>2 DEF TypeOK
    <3> QED
      BY <3>1, <3>2
  <2> QED
    BY <2>5, <2>6 DEF ControlOK
<1> QED
  BY <1>1, <1>2

\* After publishing, a listener reads again.
LEMMA PublishControl ==
    ASSUME TypeOK, NEW l \in Listener, Publish(l)
    PROVE  ControlOK'
<1>1. /\ pc \in [Listener -> {"reading", "applying", "marking", "recording",
                              "publishing", "ended"}]
      /\ pos \in [Listener -> Nat \ {0}]
      /\ cur \in [Listener -> Event \cup {Idle}]
  BY DEF TypeOK
<1>2. /\ pc' = [pc EXCEPT ![l] = "reading"]
      /\ cur' = [cur EXCEPT ![l] = Idle]
      /\ pos' = [pos EXCEPT ![l] = 1]
  BY DEF Publish
<1>3. /\ pc' \in [Listener -> {"reading", "applying", "marking", "recording",
                               "publishing", "ended"}]
      /\ pos' \in [Listener -> Nat \ {0}]
      /\ cur' \in [Listener -> Event \cup {Idle}]
  BY <1>1, <1>2
<1>4. ASSUME NEW m \in Listener
      PROVE  /\ cur'[m] = Idle <=> pc'[m] \in {"reading", "ended"}
             /\ pc'[m] \in {"applying", "marking"} => pos'[m] \in DOMAIN cur'[m].records
             /\ pc'[m] = "marking" => Current(m)' \in SRV
  <2>1. CASE m = l
    BY <1>1, <1>2, <2>1
  <2>2. CASE m # l
    <3>1. pc'[m] = pc[m] /\ pos'[m] = pos[m] /\ cur'[m] = cur[m]
      BY <1>1, <1>2, <2>2
    <3>2. Current(m)' = Current(m)
      BY <3>1 DEF Current
    <3> QED
      BY <3>1, <3>2 DEF TypeOK
  <2> QED
    BY <2>1, <2>2
<1> QED
  BY <1>3, <1>4 DEF ControlOK

-----------------------------------------------------------------------------
(* The shared state only grows.                                            *)

RegistryOK ==
    /\ services \in [Instance -> ServiceSnapshot \cup {Absent}]
    /\ hosts \in [Host -> HostSnapshot \cup {Absent}]
    /\ seenTypes \in [ServiceType -> Time]

\* A step that leaves the registry alone.
LEMMA GrowsUnchanged ==
    ASSUME DataOK, UNCHANGED registry
    PROVE  RegistryOK' /\ Grows
BY KeepsReflexive DEF DataOK, RegistryOK, Grows, Stays, Kept, Known, registry

\* Applying a record.
LEMMA ApplyGrows ==
    ASSUME TypeOK, NEW l \in Listener, cur[l].time \in 1 .. clock, ApplyRR(l)
    PROVE  RegistryOK' /\ Grows
<1>0. DataOK
  BY TypeParts
<1>1. CASE HandlePTR(l) \/ HandleSRV(l) \/ HandleTXT(l)
  <2>1. PICK k \in Instance, t \in ServiceSnapshot :
          /\ services' = [services EXCEPT ![k] = t]
          /\ Applied(Stored(k), t, Current(l).ttl, cur[l].time)
    BY <1>1, Handlers
  <2>2. /\ services' \in [Instance -> ServiceSnapshot \cup {Absent}]
        /\ \A j \in Known : services'[j] # Absent /\ Keeps(services[j], services'[j])
    <3>1. Keeps(Stored(k), t)
      BY <2>1 DEF Applied
    <3> QED
      BY <1>0, <2>1, <3>1, Upsert
  <2>3. hosts' = hosts /\ seenTypes' = seenTypes
    BY <1>1 DEF HandlePTR, HandleSRV, HandleTXT
  <2> QED
    BY <1>0, <2>2, <2>3 DEF RegistryOK, Grows, Stays, Kept, DataOK
<1>2. CASE HandleMeta(l)
  <2>1. /\ seenTypes' = [seenTypes EXCEPT ![Current(l).target] = cur[l].time]
        /\ services' = services /\ hosts' = hosts
    BY <1>2 DEF HandleMeta
  <2>2. cur[l].time \in Time /\ cur[l].time # NoTime
    BY <1>0 DEF DataOK, Time, NoTime
  <2>3. /\ seenTypes' \in [ServiceType -> Time]
        /\ \A t \in ServiceType : seenTypes[t] # NoTime => seenTypes'[t] # NoTime
    BY <1>0, <2>1, <2>2 DEF DataOK
  <2> QED
    BY <1>0, <2>1, <2>3, KeepsReflexive DEF RegistryOK, Grows, Stays, Kept, Known, DataOK
<1>3. CASE MarkTarget(l)
  <2>1. /\ MarkHost(Current(l).target, {})
        /\ services' = services /\ seenTypes' = seenTypes
    BY <1>3 DEF MarkTarget
  <2>2. Current(l).target \in Host \cup {NoHost}
    BY <1>3, RecordTypes DEF MarkTarget, TypeOK
  <2>3. /\ hosts' \in [Host -> HostSnapshot \cup {Absent}]
        /\ \A g \in Host : hosts[g] # Absent =>
              hosts'[g] # Absent /\ hosts[g].ips \subseteq hosts'[g].ips
    BY <1>0, <2>1, <2>2, Mark
  <2> QED
    BY <1>0, <2>1, <2>3, KeepsReflexive DEF RegistryOK, Grows, Stays, Kept, Known, DataOK
<1>4. CASE HandleAddr(l)
  <2>1. /\ services' = services /\ seenTypes' = seenTypes
        /\ Current(l) \in ADDR
    BY <1>4 DEF HandleAddr
  <2>2. Current(l).owner \in Host \cup {NoHost} /\ {Current(l).ip} \in SUBSET Ip
    BY <2>1, RecordTypes
  <2>3. /\ hosts' \in [Host -> HostSnapshot \cup {Absent}]
        /\ \A g \in Host : hosts[g] # Absent =>
              hosts'[g] # Absent /\ hosts[g].ips \subseteq hosts'[g].ips
    <3>1. CASE Current(l).ttl = 0
      <4>1. hosts' = hosts
        BY <1>4, <3>1 DEF HandleAddr
      <4> QED
        BY <1>0, <4>1 DEF DataOK
    <3>2. CASE Current(l).ttl # 0
      <4>1. MarkHost(Current(l).owner, {Current(l).ip})
        BY <1>4, <3>2 DEF HandleAddr
      <4> QED
        BY <1>0, <2>2, <4>1, Mark
    <3> QED
      BY <3>1, <3>2
  <2> QED
    BY <1>0, <2>1, <2>3, KeepsReflexive DEF RegistryOK, Grows, Stays, Kept, Known, DataOK
<1>5. CASE HandleIgnored(l)
  BY <1>0, <1>5, GrowsUnchanged DEF HandleIgnored
<1> QED
  BY <1>1, <1>2, <1>3, <1>4, <1>5 DEF ApplyRR

\* What every ApplyRR step leaves alone.
LEMMA ApplyFrame ==
    ASSUME NEW l \in Listener, ApplyRR(l)
    PROVE  /\ pc[l] \in {"applying", "marking"}
           /\ cur' = cur /\ log' = log /\ stream' = stream
           /\ clock' = clock /\ received' = received
           /\ HandleSRV(l) \/ Advance(l)
BY DEF ApplyRR, HandlePTR, HandleMeta, HandleSRV, MarkTarget, HandleTXT,
       HandleAddr, HandleIgnored

LEMMA ApplyControl ==
    ASSUME TypeOK, NEW l \in Listener, ApplyRR(l)
    PROVE  ControlOK'
<1>1. pc[l] \in {"applying", "marking"} /\ cur' = cur
  BY ApplyFrame
<1>2. CASE Advance(l)
  BY <1>1, <1>2, AdvanceControl
<1>3. CASE HandleSRV(l) /\ ~Advance(l)
  <2>1. /\ pc' = [pc EXCEPT ![l] = "marking"] /\ pos' = pos
        /\ pc[l] = "applying" /\ Current(l) \in SRV
    BY <1>3 DEF HandleSRV
  <2> QED
    BY <1>1, <2>1, MoveControl
<1> QED
  BY <1>2, <1>3, ApplyFrame

Timed == \A l \in Listener : cur[l] # Idle => cur[l].time \in 1 .. clock

\* Every step keeps the types and what is known.
LEMMA TypeStep ==
    ASSUME TypeOK, Timed, [Next]_vars
    PROVE  TypeOK' /\ Grows
<1>0. DataOK /\ ControlOK
  BY TypeParts
<1>1. CASE Tick
  <2>1. UNCHANGED <<received, registry, pc, cur, pos, log, stream>>
    BY <1>1 DEF Tick
  <2>2. RegistryOK' /\ Grows
    BY <1>0, <2>1, GrowsUnchanged
  <2>3. clock' \in Time \ {NoTime}
    BY <1>0, <1>1 DEF Tick, DataOK, Time, NoTime
  <2>4. DataOK'
    BY <1>0, <2>1, <2>2, <2>3 DEF DataOK, RegistryOK
  <2>5. ControlOK'
    BY <1>0, <2>1 DEF ControlOK, Current
  <2> QED
    BY <2>2, <2>4, <2>5, TypePartsNext
<1>2. ASSUME NEW l \in Listener, NEW p \in Packet, Receive(l, p)
      PROVE  TypeOK' /\ Grows
  <2>1. UNCHANGED <<clock, registry, log, stream>> /\ received' = received + 1
    BY <1>2 DEF Receive
  <2>2. RegistryOK' /\ Grows
    BY <1>0, <2>1, GrowsUnchanged
  <2>3. DataOK'
    BY <1>0, <2>1, <2>2 DEF DataOK, RegistryOK
  <2>4. ControlOK'
    BY <1>2, ReceiveControl
  <2> QED
    BY <2>2, <2>3, <2>4, TypePartsNext
<1>3. ASSUME NEW l \in Listener, ReadError(l)
      PROVE  TypeOK' /\ Grows
  <2>1. /\ UNCHANGED <<clock, received, registry, cur, pos, log, stream>>
        /\ pc[l] = "reading" /\ pc' = [pc EXCEPT ![l] = "ended"]
    BY <1>3 DEF ReadError
  <2>2. RegistryOK' /\ Grows
    BY <1>0, <2>1, GrowsUnchanged
  <2>3. DataOK'
    BY <1>0, <2>1, <2>2 DEF DataOK, RegistryOK
  <2>4. ControlOK'
    BY <2>1, MoveControl
  <2> QED
    BY <2>2, <2>3, <2>4, TypePartsNext
<1>4. ASSUME NEW l \in Listener, ApplyRR(l)
      PROVE  TypeOK' /\ Grows
  <2>1. cur[l].time \in 1 .. clock
    BY <1>4, ApplyFrame, InFlight, PacketAssumption DEF Timed
  <2>2. RegistryOK' /\ Grows
    BY <1>4, <2>1, ApplyGrows
  <2>3. DataOK'
    BY <1>0, <1>4, <2>2, ApplyFrame DEF DataOK, RegistryOK
  <2>4. ControlOK'
    BY <1>4, ApplyControl
  <2> QED
    BY <2>2, <2>3, <2>4, TypePartsNext
<1>5. ASSUME NEW l \in Listener, Record(l)
      PROVE  TypeOK' /\ Grows
  <2>1. /\ UNCHANGED <<clock, received, registry, cur, pos, stream>>
        /\ pc[l] = "recording" /\ pc' = [pc EXCEPT ![l] = "publishing"]
        /\ log' = Log!Newest(Append(log, cur[l]))
    BY <1>5 DEF Record
  <2>2. RegistryOK' /\ Grows
    BY <1>0, <2>1, GrowsUnchanged
  <2>3. cur[l] \in Event
    BY <2>1, InFlight
  <2>4. log' \in Seq(Event)
    BY <1>0, <2>1, <2>3 DEF DataOK, Log!Newest
  <2>5. DataOK'
    BY <1>0, <2>1, <2>2, <2>4 DEF DataOK, RegistryOK
  <2>6. ControlOK'
    BY <2>1, MoveControl
  <2> QED
    BY <2>2, <2>5, <2>6, TypePartsNext
<1>6. ASSUME NEW l \in Listener, Publish(l)
      PROVE  TypeOK' /\ Grows
  <2>1. /\ UNCHANGED <<clock, received, registry, log>>
        /\ pc[l] = "publishing"
        /\ stream' = Append(stream, cur[l])
    BY <1>6 DEF Publish
  <2>2. RegistryOK' /\ Grows
    BY <1>0, <2>1, GrowsUnchanged
  <2>3. cur[l] \in Event
    BY <2>1, InFlight
  <2>4. DataOK'
    BY <1>0, <2>1, <2>2, <2>3 DEF DataOK, RegistryOK
  <2>5. ControlOK'
    BY <1>6, PublishControl
  <2> QED
    BY <2>2, <2>4, <2>5, TypePartsNext
<1>7. CASE UNCHANGED vars
  <2>1. RegistryOK' /\ Grows
    BY <1>0, <1>7, GrowsUnchanged DEF vars
  <2>2. DataOK' /\ ControlOK'
    BY <1>0, <1>7 DEF vars, registry, DataOK, ControlOK, Current
  <2> QED
    BY <2>1, <2>2, TypePartsNext
<1> QED
  BY <1>1, <1>2, <1>3, <1>4, <1>5, <1>6, <1>7 DEF Next, HandleDNS

-----------------------------------------------------------------------------
(* What is reflected stays reflected.                                      *)

LEMMA HeardStable ==
    ASSUME DataOK, DataOK', Grows, NEW k \in Instance, NEW ttl \in TTL,
           Heard(k, ttl)
    PROVE  Heard(k, ttl)'
<1>1. /\ services[k] \in ServiceSnapshot /\ services[k] # Absent
      /\ services'[k] \in ServiceSnapshot /\ services'[k] # Absent
      /\ Keeps(services[k], services'[k])
  BY DEF DataOK, Grows, Stays, Kept, Heard, Known
<1>2. ASSUME ttl > 0
      PROVE  services'[k].firstSeen # NoTime /\ services'[k].originalTtl >= ttl
  <2>1. /\ services[k].firstSeen # NoTime /\ services[k].originalTtl >= ttl
        /\ services[k].originalTtl \in Nat /\ services'[k].originalTtl \in Nat
        /\ ttl \in Nat
    BY <1>1, <1>2 DEF Heard, ServiceSnapshot, TTL
  <2> QED
    BY <1>1, <2>1 DEF Keeps
<1> QED
  BY <1>1, <1>2 DEF Heard

LEMMA ReflectedStable ==
    ASSUME DataOK, DataOK', Grows, NEW rr \in RR, Reflected(rr)
    PROVE  Reflected(rr)'
<1>1. CASE rr \in PTR
  <2>1. rr \notin META \cup SRV \cup TXT \cup ADDR
    BY <1>1, RecordTypes
  <2>2. Heard(rr.target, rr.ttl)'
    BY <1>1, RecordTypes, HeardStable DEF Reflected
  <2> QED
    BY <2>1, <2>2 DEF Reflected
<1>2. CASE rr \in META
  <2>1. rr \notin PTR \cup SRV \cup TXT \cup ADDR
    BY <1>2, RecordTypes
  <2>2. seenTypes'[rr.target] # NoTime
    BY <1>2, RecordTypes DEF Reflected, Grows, Stays, Kept
  <2> QED
    BY <2>1, <2>2 DEF Reflected
<1>3. CASE rr \in SRV
  <2>1. rr \notin PTR \cup META \cup TXT \cup ADDR
    BY <1>3, RecordTypes
  <2>2. Heard(rr.owner, rr.ttl)'
    BY <1>3, RecordTypes, HeardStable DEF Reflected
  <2>3. rr.ttl > 0 => HostHeard(rr.target)'
    BY <1>3, RecordTypes DEF Reflected, HostHeard, Grows, Stays, Kept
  <2> QED
    BY <2>1, <2>2, <2>3 DEF Reflected
<1>4. CASE rr \in TXT
  <2>1. rr \notin PTR \cup META \cup SRV \cup ADDR
    BY <1>4, RecordTypes
  <2>2. Heard(rr.owner, rr.ttl)'
    BY <1>4, RecordTypes, HeardStable DEF Reflected
  <2>3. rr.ttl > 0 => rr.attrs \subseteq services'[rr.owner].txt
    <3>1. rr.owner \in Known
      BY <1>4, RecordTypes DEF Reflected, Heard, Known
    <3> QED
      BY <1>4, <3>1 DEF Reflected, Grows, Stays, Kept, Keeps
  <2> QED
    BY <2>1, <2>2, <2>3 DEF Reflected
<1>5. CASE rr \in ADDR
  <2>1. rr \notin PTR \cup META \cup SRV \cup TXT
    BY <1>5, RecordTypes
  <2>2. rr.ttl > 0 /\ rr.owner # NoHost =>
            hosts'[rr.owner] # Absent /\ rr.ip \in hosts'[rr.owner].ips
    BY <1>5, RecordTypes DEF Reflected, Grows, Stays, Kept
  <2> QED
    BY <2>1, <2>2 DEF Reflected
<1>6. CASE rr \in IGNORED
  <2>1. rr \notin PTR \cup META \cup SRV \cup TXT \cup ADDR
    BY <1>6, RecordTypes
  <2> QED
    BY <2>1 DEF Reflected
<1> QED
  BY <1>1, <1>2, <1>3, <1>4, <1>5, <1>6 DEF RR

LEMMA EventStable ==
    ASSUME DataOK, DataOK', Grows, NEW e \in Event, EventReflected(e)
    PROVE  EventReflected(e)'
<1>1. e.records \in Seq(RR)
  BY DEF Event
<1>2. ASSUME NEW i \in DOMAIN e.records
      PROVE  Reflected(e.records[i])'
  <2>1. e.records[i] \in RR
    BY <1>1, <1>2
  <2>2. Reflected(e.records[i])
    BY <1>2 DEF EventReflected
  <2> QED
    BY <2>1, <2>2, ReflectedStable
<1> QED
  BY <1>2 DEF EventReflected

\* A listener that does nothing in a step.
LEMMA AppliedStable ==
    ASSUME TypeOK, DataOK', Grows, NEW l \in Listener, AppliedAt(l),
           clock <= clock', pc'[l] = pc[l], cur'[l] = cur[l], pos'[l] = pos[l]
    PROVE  AppliedAt(l)'
<1>0. DataOK
  BY TypeParts
<1>1. cur'[l] # Idle => cur'[l].time \in 1 .. clock'
  BY <1>0 DEF AppliedAt, DataOK, Time
<1>2. ASSUME pc[l] \in {"applying", "marking"}
      PROVE  /\ \A i \in 1 .. pos[l] - 1 : Reflected(cur[l].records[i])'
             /\ pc[l] = "marking" => Heard(Current(l).owner, Current(l).ttl)'
  <2>1. /\ cur[l].records \in Seq(RR) /\ pos[l] \in 1 .. Len(cur[l].records)
        /\ Len(cur[l].records) \in Nat
    BY <1>2, InFlight
  <2>2. ASSUME NEW i \in 1 .. pos[l] - 1
        PROVE  Reflected(cur[l].records[i])'
    <3>1. cur[l].records[i] \in RR
      BY <2>1
    <3>2. Reflected(cur[l].records[i])
      BY <1>2 DEF AppliedAt
    <3> QED
      BY <1>0, <3>1, <3>2, ReflectedStable
  <2>3. ASSUME pc[l] = "marking"
        PROVE  Heard(Current(l).owner, Current(l).ttl)'
    <3>1. /\ Current(l).owner \in Instance /\ Current(l).ttl \in TTL
          /\ Current(l)' = Current(l)
      BY <2>3, RecordTypes DEF TypeOK, Current
    <3>2. Heard(Current(l).owner, Current(l).ttl)
      BY <2>3 DEF AppliedAt
    <3> DEFINE k == Current(l).owner
               ttl == Current(l).ttl
    <3>3. k \in Instance /\ ttl \in TTL /\ Heard(k, ttl) /\ k' = k /\ ttl' = ttl
      BY <3>1, <3>2
    <3> HIDE DEF k, ttl
    <3>4. services[k] # Absent /\ k \in Known
      BY <3>3 DEF Heard, Known
    <3>5. services'[k] # Absent /\ Keeps(services[k], services'[k])
      BY <3>4 DEF Grows, Stays, Kept
    <3>6. /\ services[k] \in ServiceSnapshot /\ services'[k] \in ServiceSnapshot
      BY <1>0, <3>3, <3>4, <3>5 DEF DataOK
    <3>7. ttl > 0 => services'[k].firstSeen # NoTime /\ services'[k].originalTtl >= ttl
      BY <3>3, <3>5, <3>6 DEF Heard, Keeps, ServiceSnapshot, TTL
    <3>8. Heard(k, ttl)'
      BY <3>3, <3>5, <3>7 DEF Heard
    <3> QED
      BY <3>8 DEF k, ttl
  <2> QED
    BY <2>2, <2>3
<1>3. ASSUME pc[l] \in {"recording", "publishing"}
      PROVE  EventReflected(cur[l])'
  <2>1. cur[l] \in Event /\ EventReflected(cur[l])
    BY <1>3, InFlight DEF AppliedAt
  <2>2. PICK e \in Event : e = cur[l]
    BY <2>1
  <2>3. EventReflected(e)'
    BY <1>0, <2>1, <2>2, EventStable
  <2>4. e = cur'[l]
    BY <2>2
  <2> QED
    BY <2>3, <2>4
<1> QED
  BY <1>1, <1>2, <1>3 DEF AppliedAt

-----------------------------------------------------------------------------
(* A listener reflects its records one after the other.                    *)

\* Each handler reflects the record it is called with.
LEMMA HandlerReflects ==
    ASSUME TypeOK, NEW l \in Listener, cur[l].time \in 1 .. clock,
           NEW rr \in RR, rr = Current(l),
           HandlePTR(l) \/ HandleSRV(l) \/ HandleTXT(l)
    PROVE  /\ rr \in PTR => Heard(rr.target, rr.ttl)'
           /\ rr \in SRV \cup TXT => Heard(rr.owner, rr.ttl)'
           /\ rr \in TXT /\ rr.ttl > 0 => rr.attrs \subseteq services'[rr.owner].txt
           /\ rr \in PTR \cup SRV \cup TXT
<1>0. DataOK
  BY TypeParts
<1>1. PICK k \in Instance, t \in ServiceSnapshot :
        /\ services' = [services EXCEPT ![k] = t]
        /\ k = IF rr \in PTR THEN rr.target ELSE rr.owner
        /\ Applied(Stored(k), t, rr.ttl, cur[l].time)
        /\ rr \in TXT /\ rr.ttl > 0 => rr.attrs \subseteq t.txt
  BY Handlers
<1>2. services'[k] = t /\ t # Absent
  BY <1>0, <1>1, PacketAssumption DEF DataOK
<1>3. cur[l].time # NoTime
  BY DEF NoTime
<1>4. rr.ttl > 0 => t.firstSeen # NoTime /\ t.originalTtl >= rr.ttl
  BY <1>1, <1>3 DEF Applied
<1>5. Heard(k, rr.ttl)'
  BY <1>2, <1>4 DEF Heard
<1>6. /\ rr \in PTR => k = rr.target
      /\ rr \in SRV \cup TXT => k = rr.owner
  BY <1>1, RecordTypes
<1>7. rr \in PTR \cup SRV \cup TXT
  BY DEF HandlePTR, HandleSRV, HandleTXT
<1> QED
  BY <1>1, <1>2, <1>5, <1>6, <1>7

\* Advancing from a reflected record.
LEMMA AdvanceApplied ==
    ASSUME TypeOK, DataOK', Grows, NEW l \in Listener, AppliedAt(l),
           pc[l] \in {"applying", "marking"}, Advance(l),
           cur' = cur, clock' = clock,
           NEW rr \in RR, rr = Current(l), Reflected(rr)'
    PROVE  AppliedAt(l)'
<1>0. DataOK
  BY TypeParts
<1>1. /\ cur[l].records \in Seq(RR) /\ pos[l] \in 1 .. Len(cur[l].records)
      /\ DOMAIN cur[l].records = 1 .. Len(cur[l].records)
      /\ Len(cur[l].records) \in Nat
  BY InFlight
<1>2. /\ pos'[l] = pos[l] + 1
      /\ pc'[l] = IF pos[l] < Len(cur[l].records) THEN "applying" ELSE "recording"
  BY DEF Advance, TypeOK
<1>3. PICK recs \in Seq(RR) : recs = cur[l].records
  BY <1>1
<1>4. ASSUME NEW i \in 1 .. pos[l]
      PROVE  Reflected(recs[i])'
  <2>1. PICK r \in RR : r = recs[i]
    BY <1>1, <1>3
  <2>2. CASE i = pos[l]
    <3>1. r = rr
      BY <1>3, <2>1, <2>2 DEF Current
    <3> QED
      BY <2>1, <3>1
  <2>3. CASE i # pos[l]
    <3>1. Reflected(r)
      BY <1>1, <1>3, <2>1, <2>3 DEF AppliedAt
    <3>2. Reflected(r)'
      BY <1>0, <3>1, ReflectedStable
    <3> QED
      BY <2>1, <3>2
  <2> QED
    BY <2>2, <2>3
<1>5. recs = cur'[l].records
  BY <1>3
<1>6. cur'[l] # Idle => cur'[l].time \in 1 .. clock'
  BY DEF AppliedAt
<1>7. pc'[l] \in {"applying", "marking"} =>
        \A i \in 1 .. pos'[l] - 1 : Reflected(cur[l].records[i])'
  BY <1>1, <1>2, <1>4, <1>5
<1>8. pc'[l] \in {"recording", "publishing"} => EventReflected(cur[l])'
  <2>1. pc'[l] \in {"recording", "publishing"} => pos[l] = Len(cur[l].records)
    BY <1>1, <1>2
  <2> QED
    BY <1>1, <1>3, <1>4, <1>5, <2>1 DEF EventReflected
<1>9. pc'[l] # "marking"
  BY <1>2
<1> QED
  BY <1>6, <1>7, <1>8, <1>9 DEF AppliedAt

\* The listener that applies a record.
LEMMA ApplyApplied ==
    ASSUME TypeOK, DataOK', Grows, NEW l \in Listener, AppliedAt(l), ApplyRR(l)
    PROVE  AppliedAt(l)'
<1>0. DataOK
  BY TypeParts
<1>1. /\ pc[l] \in {"applying", "marking"}
      /\ cur' = cur /\ clock' = clock
      /\ Current(l) \in RR /\ cur[l] # Idle
  BY ApplyFrame, InFlight, PacketAssumption
<1>2. PICK rr \in RR : rr = Current(l)
  BY <1>1
<1>3. cur[l].time \in 1 .. clock
  BY <1>1 DEF AppliedAt
<1>4. CASE HandlePTR(l) \/ HandleTXT(l)
  <2>1. /\ rr \in PTR => Heard(rr.target, rr.ttl)'
        /\ rr \in SRV \cup TXT => Heard(rr.owner, rr.ttl)'
        /\ rr \in TXT /\ rr.ttl > 0 => rr.attrs \subseteq services'[rr.owner].txt
    BY <1>2, <1>3, <1>4, HandlerReflects
  <2>2. /\ rr \in PTR \cup TXT
        /\ Advance(l)
    BY <1>2, <1>4 DEF HandlePTR, HandleTXT
  <2>3. rr \notin META \cup SRV \cup ADDR
    BY <2>2, RecordTypes
  <2>4. Reflected(rr)'
    BY <2>1, <2>2, <2>3 DEF Reflected
  <2> QED
    BY <1>1, <1>2, <2>2, <2>4, AdvanceApplied
<1>5. CASE HandleSRV(l)
  <2>1. rr \in SRV /\ Heard(rr.owner, rr.ttl)'
    BY <1>2, <1>3, <1>5, HandlerReflects DEF HandleSRV
  <2>2. rr \notin PTR \cup META \cup TXT \cup ADDR /\ rr.ttl \in Nat
    BY <2>1, RecordTypes DEF TTL
  <2>3. CASE rr.ttl = 0
    <3>1. Advance(l)
      BY <1>2, <1>5, <2>3 DEF HandleSRV
    <3>2. Reflected(rr)'
      BY <2>1, <2>2, <2>3 DEF Reflected
    <3> QED
      BY <1>1, <1>2, <3>1, <3>2, AdvanceApplied
  <2>4. CASE rr.ttl # 0
    <3>1. pc' = [pc EXCEPT ![l] = "marking"] /\ pos' = pos
      BY <1>2, <1>5, <2>4 DEF HandleSRV
    <3>2. pc'[l] = "marking" /\ pc[l] = "applying"
      BY <1>5, <3>1 DEF HandleSRV, TypeOK
    <3>3. rr = Current(l)'
      BY <1>1, <1>2, <3>1 DEF Current
    <3>4. Heard(Current(l).owner, Current(l).ttl)'
      BY <2>1, <3>3
    <3>5. \A i \in 1 .. pos'[l] - 1 : Reflected(cur[l].records[i])'
      <4>1. PICK recs \in Seq(RR) : recs = cur[l].records
        BY <1>1, InFlight
      <4>2. /\ pos[l] \in 1 .. Len(recs) /\ Len(recs) \in Nat
            /\ pos'[l] = pos[l] /\ recs = cur'[l].records
        BY <1>1, <3>1, <4>1, InFlight
      <4>3. ASSUME NEW i \in 1 .. pos[l] - 1
            PROVE  Reflected(recs[i])'
        <5>1. PICK r \in RR : r = recs[i]
          BY <4>2
        <5>2. Reflected(r)
          BY <3>2, <4>1, <5>1 DEF AppliedAt
        <5>3. Reflected(r)'
          BY <1>0, <5>2, ReflectedStable
        <5> QED
          BY <5>1, <5>3
      <4> QED
        BY <4>2, <4>3
    <3>6. cur'[l] # Idle => cur'[l].time \in 1 .. clock'
      BY <1>1 DEF AppliedAt
    <3> QED
      BY <3>2, <3>4, <3>5, <3>6 DEF AppliedAt
  <2> QED
    BY <2>3, <2>4
<1>6. CASE HandleMeta(l)
  <2>1. rr \in META /\ Advance(l) /\ rr.target \in ServiceType
    BY <1>2, <1>6, RecordTypes DEF HandleMeta
  <2>2. rr \notin PTR \cup SRV \cup TXT \cup ADDR
    BY <2>1, RecordTypes
  <2>3. seenTypes'[rr.target] # NoTime
    BY <1>0, <1>2, <1>3, <1>6, <2>1 DEF HandleMeta, DataOK, NoTime
  <2>4. Reflected(rr)'
    BY <2>1, <2>2, <2>3 DEF Reflected
  <2> QED
    BY <1>1, <1>2, <2>1, <2>4, AdvanceApplied
<1>7. CASE MarkTarget(l)
  <2>1. /\ MarkHost(rr.target, {}) /\ Advance(l) /\ services' = services
        /\ pc[l] = "marking"
    BY <1>2, <1>7 DEF MarkTarget
  <2>2. rr \in SRV /\ rr.target \in Host \cup {NoHost} /\ rr.owner \in Instance
        /\ rr.ttl \in TTL
    BY <1>2, <2>1, RecordTypes DEF TypeOK
  <2>3. rr \notin PTR \cup META \cup TXT \cup ADDR
    BY <2>2, RecordTypes
  <2>4. HostHeard(rr.target)'
    BY <1>0, <2>1, <2>2, Mark DEF HostHeard
  <2>5. Heard(rr.owner, rr.ttl)'
    <3>1. Heard(rr.owner, rr.ttl)
      BY <1>2, <2>1 DEF AppliedAt
    <3> QED
      BY <1>0, <2>2, <3>1, HeardStable
  <2>6. Reflected(rr)'
    BY <2>3, <2>4, <2>5 DEF Reflected
  <2> QED
    BY <1>1, <1>2, <2>1, <2>6, AdvanceApplied
<1>8. CASE HandleAddr(l)
  <2>1. rr \in ADDR /\ Advance(l)
    BY <1>2, <1>8 DEF HandleAddr
  <2>2. /\ rr.owner \in Host \cup {NoHost} /\ {rr.ip} \in SUBSET Ip
        /\ rr.ttl \in Nat
        /\ rr \notin PTR \cup META \cup SRV \cup TXT
    BY <2>1, RecordTypes DEF TTL
  <2>3. rr.ttl > 0 /\ rr.owner # NoHost =>
            hosts'[rr.owner] # Absent /\ rr.ip \in hosts'[rr.owner].ips
    <3>1. ASSUME rr.ttl > 0
          PROVE  MarkHost(rr.owner, {rr.ip})
      BY <1>2, <1>8, <3>1 DEF HandleAddr
    <3> QED
      BY <1>0, <2>2, <3>1, Mark
  <2>4. Reflected(rr)'
    BY <2>2, <2>3 DEF Reflected
  <2> QED
    BY <1>1, <1>2, <2>1, <2>4, AdvanceApplied
<1>9. CASE HandleIgnored(l)
  <2>1. rr \in IGNORED /\ Advance(l)
    BY <1>2, <1>9 DEF HandleIgnored
  <2>2. rr \notin PTR \cup META \cup SRV \cup TXT \cup ADDR
    BY <2>1, RecordTypes
  <2>3. Reflected(rr)'
    BY <2>2 DEF Reflected
  <2> QED
    BY <1>1, <1>2, <2>1, <2>3, AdvanceApplied
<1> QED
  BY <1>4, <1>5, <1>6, <1>7, <1>8, <1>9 DEF ApplyRR

-----------------------------------------------------------------------------
(* The inductive invariant.                                                *)

\* The listeners that a step of l does not concern.
LEMMA Bystander ==
    ASSUME TypeOK, NEW l \in Listener, NEW m \in Listener, m # l,
           \/ \E p \in Packet : Receive(l, p)
           \/ ReadError(l) \/ HandleDNS(l)
    PROVE  pc'[m] = pc[m] /\ cur'[m] = cur[m] /\ pos'[m] = pos[m] /\ clock' = clock
<1>1. /\ pc \in [Listener -> {"reading", "applying", "marking", "recording",
                              "publishing", "ended"}]
      /\ cur \in [Listener -> Event \cup {Idle}]
      /\ pos \in [Listener -> Nat \ {0}]
  BY DEF TypeOK
<1>2. CASE \E p \in Packet : Receive(l, p)
  BY <1>1, <1>2 DEF Receive
<1>3. CASE ReadError(l)
  BY <1>1, <1>3 DEF ReadError
<1>4. CASE Record(l) \/ Publish(l)
  BY <1>1, <1>4 DEF Record, Publish
<1>5. CASE ApplyRR(l)
  <2>1. cur' = cur /\ clock' = clock
    BY <1>5, ApplyFrame
  <2>2. CASE Advance(l)
    BY <1>1, <2>1, <2>2 DEF Advance
  <2>3. CASE HandleSRV(l) /\ ~Advance(l)
    BY <1>1, <2>1, <2>3 DEF HandleSRV
  <2> QED
    BY <1>5, <2>2, <2>3, ApplyFrame
<1> QED
  BY <1>2, <1>3, <1>4, <1>5 DEF HandleDNS

LEMMA AppliedStep ==
    ASSUME TypeOK, DataOK', Grows, AppliedReflected, [Next]_vars
    PROVE  AppliedReflected'
<1>0. DataOK
  BY TypeParts
<1>1. ASSUME clock <= clock', pc' = pc, cur' = cur, pos' = pos
      PROVE  AppliedReflected'
  BY <1>1, AppliedStable DEF AppliedReflected
<1>2. CASE Tick
  <2>1. clock <= clock' /\ pc' = pc /\ cur' = cur /\ pos' = pos
    BY <1>0, <1>2 DEF Tick, DataOK, Time
  <2> QED
    BY <1>1, <2>1
<1>3. CASE UNCHANGED vars
  <2>1. clock <= clock' /\ pc' = pc /\ cur' = cur /\ pos' = pos
    BY <1>0, <1>3 DEF vars, DataOK, Time
  <2> QED
    BY <1>1, <2>1
<1>4. ASSUME NEW l \in Listener,
             \/ \E p \in Packet : Receive(l, p)
             \/ ReadError(l) \/ HandleDNS(l)
      PROVE  AppliedReflected'
  <2>1. AppliedAt(l)
    BY DEF AppliedReflected
  <2>2. AppliedAt(l)'
    <3>1. ASSUME NEW p \in Packet, Receive(l, p)
          PROVE  AppliedAt(l)'
      <4>1. CASE p = << >>
        BY <1>0, <2>1, <3>1, <4>1, AppliedStable DEF Receive, DataOK, Time
      <4>2. CASE p # << >>
        <5>1. /\ cur'[l] = EventOf(l, p, clock)
              /\ pos'[l] = 1 /\ pc'[l] = "applying" /\ clock' = clock
          BY <3>1, <4>2 DEF Receive, TypeOK
        <5>2. cur'[l].time \in 1 .. clock'
          BY <1>0, <5>1 DEF EventOf, DataOK, Time, NoTime
        <5> QED
          BY <5>1, <5>2 DEF AppliedAt
      <4> QED
        BY <4>1, <4>2
    <3>2. CASE ReadError(l)
      <4>1. cur'[l] = Idle /\ pc'[l] = "ended"
        BY <3>2 DEF ReadError, TypeOK
      <4> QED
        BY <4>1 DEF AppliedAt
    <3>3. CASE ApplyRR(l)
      BY <2>1, <3>3, ApplyApplied
    <3>4. CASE Record(l)
      <4>1. /\ pc[l] = "recording" /\ pc'[l] = "publishing"
            /\ cur' = cur /\ clock' = clock
        BY <3>4 DEF Record, TypeOK
      <4>2. PICK e \in Event : e = cur[l]
        BY <4>1, InFlight
      <4>3. EventReflected(e)'
        BY <1>0, <2>1, <4>1, <4>2, EventStable DEF AppliedAt
      <4>4. e = cur'[l] /\ cur'[l].time \in 1 .. clock'
        BY <2>1, <4>1, <4>2, PacketAssumption DEF AppliedAt
      <4> QED
        BY <4>1, <4>3, <4>4 DEF AppliedAt
    <3>5. CASE Publish(l)
      <4>1. cur'[l] = Idle /\ pc'[l] = "reading"
        BY <3>5 DEF Publish, TypeOK
      <4> QED
        BY <4>1 DEF AppliedAt
    <3> QED
      BY <1>4, <3>1, <3>2, <3>3, <3>4, <3>5 DEF HandleDNS
  <2>3. ASSUME NEW m \in Listener, m # l
        PROVE  AppliedAt(m)'
    <3>1. AppliedAt(m)
      BY DEF AppliedReflected
    <3>2. /\ pc'[m] = pc[m] /\ cur'[m] = cur[m] /\ pos'[m] = pos[m]
          /\ clock <= clock'
      BY <1>0, <1>4, <2>3, Bystander DEF DataOK, Time
    <3> QED
      BY <3>1, <3>2, AppliedStable
  <2> QED
    BY <2>2, <2>3 DEF AppliedReflected
<1> QED
  BY <1>2, <1>3, <1>4 DEF Next

\* An event is reflected when it is recorded, and from then on.
LEMMA EventsStep ==
    ASSUME TypeOK, DataOK', Grows, AppliedReflected, EventsReflected, [Next]_vars
    PROVE  EventsReflected'
<1>0. DataOK
  BY TypeParts
<1>1. ASSUME NEW q \in Seq(Event), \A i \in DOMAIN q : EventReflected(q[i])
      PROVE  \A i \in DOMAIN q : EventReflected(q[i])'
  <2>1. ASSUME NEW i \in DOMAIN q
        PROVE  EventReflected(q[i])'
    <3>1. PICK e \in Event : e = q[i]
      BY <2>1
    <3>2. EventReflected(e)'
      BY <1>0, <1>1, <3>1, EventStable
    <3> QED
      BY <3>1, <3>2
  <2> QED
    BY <2>1
<1>2. PICK old \in Seq(Event), seen \in Seq(Event) : old = log /\ seen = stream
  BY <1>0 DEF DataOK
<1>3. /\ \A i \in DOMAIN old : EventReflected(old[i])'
      /\ \A i \in DOMAIN seen : EventReflected(seen[i])'
  BY <1>1, <1>2 DEF EventsReflected
<1>4. CASE log' = log /\ stream' = stream
  <2>1. old = log' /\ seen = stream'
    BY <1>2, <1>4
  <2> QED
    BY <1>3, <2>1 DEF EventsReflected
<1>5. ASSUME NEW l \in Listener, Record(l)
      PROVE  EventsReflected'
  <2>1. pc[l] = "recording" /\ stream' = stream
        /\ log' = Log!Newest(Append(log, cur[l]))
    BY <1>5 DEF Record
  <2>2. PICK e \in Event : e = cur[l]
    BY <2>1, InFlight
  <2>3. EventReflected(e)'
    BY <1>0, <2>1, <2>2, EventStable DEF AppliedReflected, AppliedAt
  <2> DEFINE all == Append(old, e)
  <2>4. /\ all \in Seq(Event)
        /\ \A i \in DOMAIN all : i \in DOMAIN old \/ all[i] = e
        /\ \A i \in DOMAIN old : all[i] = old[i]
    OBVIOUS
  <2>5. \A i \in DOMAIN all : EventReflected(all[i])'
    BY <1>3, <2>3, <2>4
  <2>6. PICK kept \in Seq(Event) : kept = Log!Newest(all)
    <3>1. Log!Newest(all) = IF Len(all) > Cap THEN Tail(all) ELSE all
      BY DEF Log!Newest
    <3>2. Len(all) > 0
      BY <2>4
    <3>3. Tail(all) \in Seq(Event)
      BY <2>4, <3>2
    <3>4. Log!Newest(all) \in Seq(Event)
      BY <2>4, <3>1, <3>3
    <3> QED
      BY <3>4
  <2>7. \A i \in DOMAIN kept : \E j \in DOMAIN all : kept[i] = all[j]
    <3>1. CASE kept = all
      BY <3>1
    <3>2. CASE kept = Tail(all) /\ Len(all) > 0
      <4> HIDE DEF all
      <4>1. /\ Len(all) \in Nat /\ DOMAIN all = 1 .. Len(all)
            /\ DOMAIN kept = 1 .. Len(all) - 1
            /\ \A i \in DOMAIN kept : kept[i] = all[i + 1]
        BY <2>4, <3>2
      <4>2. \A i \in DOMAIN kept : i + 1 \in DOMAIN all
        BY <4>1
      <4> QED
        BY <4>1, <4>2
    <3>3. Len(all) > 0
      BY <2>4
    <3> QED
      BY <2>6, <3>1, <3>2, <3>3 DEF Log!Newest
  <2>8. \A i \in DOMAIN kept : EventReflected(kept[i])'
    BY <2>5, <2>7
  <2>9. kept = log' /\ seen = stream'
    BY <1>2, <2>1, <2>2, <2>6
  <2> QED
    BY <1>3, <2>8, <2>9 DEF EventsReflected
<1>6. ASSUME NEW l \in Listener, Publish(l)
      PROVE  EventsReflected'
  <2>1. pc[l] = "publishing" /\ log' = log /\ stream' = Append(stream, cur[l])
    BY <1>6 DEF Publish
  <2>2. PICK e \in Event : e = cur[l]
    BY <2>1, InFlight
  <2>3. EventReflected(e)'
    BY <1>0, <2>1, <2>2, EventStable DEF AppliedReflected, AppliedAt
  <2>4. PICK all \in Seq(Event) : all = Append(seen, e)
    <3>1. Append(seen, e) \in Seq(Event)
      OBVIOUS
    <3> QED
      BY <3>1
  <2>5. /\ \A i \in DOMAIN all : i \in DOMAIN seen \/ all[i] = e
        /\ \A i \in DOMAIN seen : all[i] = seen[i]
    BY <2>4
  <2>6. \A i \in DOMAIN all : EventReflected(all[i])'
    BY <1>3, <2>3, <2>5
  <2>7. all = stream' /\ old = log'
    BY <1>2, <2>1, <2>2, <2>4
  <2> QED
    BY <1>3, <2>6, <2>7 DEF EventsReflected
<1>7. CASE \/ Tick \/ UNCHANGED vars
           \/ \E l \in Listener : \/ \E p \in Packet : Receive(l, p)
                                  \/ ReadError(l) \/ ApplyRR(l)
  <2>1. log' = log /\ stream' = stream
    BY <1>7, ApplyFrame DEF Tick, vars, Receive, ReadError
  <2> QED
    BY <1>4, <2>1
<1> QED
  BY <1>5, <1>6, <1>7 DEF Next, HandleDNS

\* No step dates a lifetime in the future.
LEMMA LifetimeStep ==
    ASSUME TypeOK, DataOK', AppliedReflected, LifetimeBounded, [Next]_vars
    PROVE  LifetimeBounded'
<1>0. DataOK
  BY TypeParts
<1>1. clock \in Nat /\ clock' \in Nat
  BY <1>0 DEF DataOK, Time
<1>2. ASSUME services' = services, clock <= clock'
      PROVE  LifetimeBounded'
  BY <1>0, <1>1, <1>2, BoundedLater DEF LifetimeBounded, Known, DataOK
<1>3. ASSUME NEW l \in Listener,
             HandlePTR(l) \/ HandleSRV(l) \/ HandleTXT(l)
      PROVE  LifetimeBounded'
  <2>1. cur[l].time \in 1 .. clock /\ clock' = clock
    <3>1. ApplyRR(l)
      BY <1>3 DEF ApplyRR
    <3> QED
      BY <3>1, ApplyFrame, InFlight, PacketAssumption DEF AppliedReflected, AppliedAt
  <2>2. PICK k \in Instance, t \in ServiceSnapshot :
          services' = [services EXCEPT ![k] = t] /\ Bounded(t, clock)
    BY <1>3, <2>1, Handlers
  <2> QED
    BY <1>0, <2>1, <2>2 DEF LifetimeBounded, Known, DataOK
<1>4. CASE Tick
  BY <1>1, <1>2, <1>4 DEF Tick, registry
<1>5. CASE UNCHANGED vars
  BY <1>1, <1>2, <1>5 DEF vars, registry
<1>6. ASSUME NEW l \in Listener,
             \/ \E p \in Packet : Receive(l, p)
             \/ ReadError(l) \/ Record(l) \/ Publish(l)
             \/ HandleMeta(l) \/ MarkTarget(l) \/ HandleAddr(l) \/ HandleIgnored(l)
      PROVE  LifetimeBounded'
  <2>1. services' = services /\ clock' = clock
    BY <1>6 DEF Receive, ReadError, Record, Publish, HandleMeta, MarkTarget,
                HandleAddr, HandleIgnored, registry
  <2> QED
    BY <1>1, <1>2, <2>1
<1> QED
  BY <1>3, <1>4, <1>5, <1>6 DEF Next, HandleDNS, ApplyRR

\* The host of an instance is known once applySRV is through.
LEMMA TargetStep ==
    ASSUME TypeOK, DataOK', Grows, AppliedReflected, TargetKnown, [Next]_vars
    PROVE  TargetKnown'
<1>0. DataOK
  BY TypeParts
<1> DEFINE Marking(l, h) == pc[l] = "marking" /\ Current(l).target = h
           Fine(h) == h \in Host /\ (hosts[h] # Absent \/ \E l \in Listener : Marking(l, h))
<1>1. ASSUME NEW k \in Instance, services[k] # Absent, services[k].targetHost # NoHost
      PROVE  Fine(services[k].targetHost)
  <2>1. services[k].targetHost \in Host
    BY <1>0, <1>1 DEF DataOK, ServiceSnapshot
  <2> QED
    BY <1>1, <2>1 DEF TargetKnown, Known
<1>2. SUFFICES ASSUME NEW k \in Instance, services'[k] # Absent,
                      NEW h, h = services'[k].targetHost, h # NoHost
               PROVE  hosts'[h] # Absent \/ \E l \in Listener : Marking(l, h)'
  BY DEF TargetKnown, Known
<1>3. ASSUME NEW l \in Listener, HandlePTR(l) \/ HandleSRV(l) \/ HandleTXT(l)
      PROVE  Fine(h) \/ Marking(l, h)'
  <2>1. ApplyRR(l) /\ cur' = cur
    BY <1>3, ApplyFrame DEF ApplyRR
  <2>2. cur[l].time \in 1 .. clock
    BY <2>1, ApplyFrame, InFlight, PacketAssumption DEF AppliedReflected, AppliedAt
  <2>3. PICK j \in Instance, t \in ServiceSnapshot :
          /\ services' = [services EXCEPT ![j] = t]
          /\ t.targetHost = IF Current(l) \in SRV /\ Current(l).ttl # 0
                              THEN Current(l).target
                              ELSE Stored(j).targetHost
    BY <1>3, <2>2, Handlers
  <2>4. CASE k # j
    <3>1. services'[k] = services[k]
      BY <1>0, <2>3, <2>4 DEF DataOK
    <3> QED
      BY <1>1, <1>2, <3>1
  <2>5. CASE k = j
    <3>1. services'[k] = t
      BY <1>0, <2>3, <2>5 DEF DataOK
    <3>2. CASE Current(l) \in SRV /\ Current(l).ttl # 0
      <4>1. HandleSRV(l)
        BY <1>3, <3>2, RecordTypes DEF HandlePTR, HandleTXT
      <4>2. pc'[l] = "marking" /\ pos' = pos
        BY <3>2, <4>1 DEF HandleSRV, TypeOK
      <4>3. Current(l)' = Current(l)
        BY <2>1, <4>2 DEF Current
      <4> QED
        BY <1>2, <2>3, <3>1, <3>2, <4>2, <4>3
    <3>3. CASE ~(Current(l) \in SRV /\ Current(l).ttl # 0)
      <4>1. h = Stored(j).targetHost
        BY <1>2, <2>3, <3>1, <3>3
      <4>2. services[j] # Absent
        BY <1>0, <1>2, <4>1, StoredFacts DEF ZeroService
      <4>3. Stored(j) = services[j]
        BY <1>0, <4>2, StoredFacts
      <4> QED
        BY <1>1, <1>2, <2>5, <4>1, <4>2, <4>3
    <3> QED
      BY <3>2, <3>3
  <2> QED
    BY <2>4, <2>5
<1>4. ASSUME services' = services
      PROVE  Fine(h)
  BY <1>1, <1>2, <1>4
<1>5. ASSUME NEW l \in Listener, Fine(h), ~MarkTarget(l),
             \/ \E p \in Packet : Receive(l, p)
             \/ ReadError(l) \/ HandleDNS(l)
      PROVE  hosts'[h] # Absent \/ \E m \in Listener : Marking(m, h)'
  <2>1. CASE hosts[h] # Absent
    BY <1>5, <2>1 DEF Grows, Stays, Kept
  <2>2. ASSUME NEW m \in Listener, Marking(m, h)
        PROVE  Marking(m, h)'
    <3>1. m # l
      BY <1>5, <2>2 DEF Receive, ReadError, HandleDNS, ApplyRR, HandlePTR,
           HandleMeta, HandleSRV, HandleTXT, HandleAddr, HandleIgnored, Record, Publish
    <3>2. pc'[m] = pc[m] /\ cur'[m] = cur[m] /\ pos'[m] = pos[m]
      BY <1>5, <3>1, Bystander
    <3>3. Current(m)' = Current(m)
      BY <3>2 DEF Current
    <3> QED
      BY <2>2, <3>2, <3>3
  <2> QED
    BY <1>5, <2>1, <2>2
<1>6. ASSUME NEW l \in Listener, MarkTarget(l), Fine(h)
      PROVE  hosts'[h] # Absent \/ \E m \in Listener : Marking(m, h)'
  <2>1. CASE hosts[h] # Absent
    BY <1>6, <2>1 DEF Grows, Stays, Kept
  <2>2. CASE Marking(l, h)
    <3>1. MarkHost(h, {}) /\ h \in Host
      BY <1>6, <2>2 DEF MarkTarget
    <3>2. hosts'[h] # Absent
      BY <1>0, <1>2, <3>1, Mark
    <3> QED
      BY <3>2
  <2>3. ASSUME NEW m \in Listener, Marking(m, h), m # l
        PROVE  Marking(m, h)'
    <3>1. HandleDNS(l)
      BY <1>6 DEF HandleDNS, ApplyRR
    <3>2. pc'[m] = pc[m] /\ cur'[m] = cur[m] /\ pos'[m] = pos[m]
      BY <2>3, <3>1, Bystander
    <3>3. Current(m)' = Current(m)
      BY <3>2 DEF Current
    <3> QED
      BY <2>3, <3>2, <3>3
  <2> QED
    BY <1>6, <2>1, <2>2, <2>3
<1>7. CASE Tick \/ UNCHANGED vars
  <2>1. /\ services' = services /\ hosts' = hosts
        /\ pc' = pc /\ cur' = cur /\ pos' = pos
    BY <1>7 DEF Tick, vars, registry
  <2>2. Fine(h)
    BY <1>4, <1>1, <1>2, <2>1
  <2> QED
    BY <2>1, <2>2 DEF Current
<1>8. ASSUME NEW l \in Listener,
             \/ \E p \in Packet : Receive(l, p)
             \/ ReadError(l) \/ HandleDNS(l)
      PROVE  hosts'[h] # Absent \/ \E m \in Listener : Marking(m, h)'
  <2>1. CASE HandlePTR(l) \/ HandleSRV(l) \/ HandleTXT(l)
    <3>1. ~MarkTarget(l)
      BY <2>1 DEF HandlePTR, HandleSRV, HandleTXT, MarkTarget
    <3> QED
      BY <1>3, <1>5, <1>8, <2>1, <3>1
  <2>2. CASE ~(HandlePTR(l) \/ HandleSRV(l) \/ HandleTXT(l))
    <3>1. services' = services
      BY <1>8, <2>2 DEF Receive, ReadError, HandleDNS, ApplyRR, Record, Publish,
           HandleMeta, MarkTarget, HandleAddr, HandleIgnored, registry
    <3>2. Fine(h)
      BY <1>1, <1>2, <3>1
    <3> QED
      BY <1>5, <1>6, <1>8, <3>2
  <2> QED
    BY <2>1, <2>2
<1> QED
  BY <1>7, <1>8 DEF Next

-----------------------------------------------------------------------------
LEMMA InitEstablishes == Init => IInv
<1> SUFFICES ASSUME Init PROVE IInv
  OBVIOUS
<1>1. TypeOK
  BY DEF Init, TypeOK, Time, NoTime
<1>2. AppliedReflected
  BY DEF Init, AppliedReflected, AppliedAt
<1>3. EventsReflected
  BY DEF Init, EventsReflected
<1>4. LifetimeBounded /\ TargetKnown
  BY DEF Init, LifetimeBounded, TargetKnown, Known
<1> QED
  BY <1>1, <1>2, <1>3, <1>4 DEF IInv

LEMMA NextPreserves == IInv /\ [Next]_vars => IInv' /\ Grows
<1> SUFFICES ASSUME IInv, [Next]_vars PROVE IInv' /\ Grows
  OBVIOUS
<1>1. TypeOK /\ AppliedReflected /\ EventsReflected /\ LifetimeBounded /\ TargetKnown
  BY DEF IInv
<1>2. TypeOK' /\ Grows
  BY <1>1, TypeStep DEF Timed, AppliedReflected, AppliedAt
<1>3. DataOK'
  BY <1>2, TypePartsNext
<1>4. AppliedReflected' /\ EventsReflected' /\ LifetimeBounded' /\ TargetKnown'
  BY <1>1, <1>2, <1>3, AppliedStep, EventsStep, LifetimeStep, TargetStep
<1> QED
  BY <1>2, <1>4 DEF IInv

\* The inductive invariant holds for every set of sockets and packets.
THEOREM Invariance == Spec => []IInv
<1> QED
  BY InitEstablishes, NextPreserves, PTL DEF Spec

\* The state is well typed.
THEOREM TypeCorrect == Spec => []TypeOK
<1>1. IInv => TypeOK
  BY DEF IInv
<1> QED
  BY <1>1, Invariance, PTL

\* Every event a client can see, live or in the history, is reflected in the
\* graph, whatever the other listeners do.
THEOREM SeenEventsAreInTheGraph == Spec => []EventsReflected
<1>1. IInv => EventsReflected
  BY DEF IInv
<1> QED
  BY <1>1, Invariance, PTL

\* No expiry lies further ahead than the longest TTL the instance announced, and only
\* one that was neither announced nor withdrawn has none.
THEOREM LifetimesAreBounded == Spec => []LifetimeBounded
<1>1. IInv => LifetimeBounded
  BY DEF IInv
<1> QED
  BY <1>1, Invariance, PTL

\* The gap between UpsertService and MarkHost is the only one in which the host
\* of an instance may be unknown.
THEOREM TargetsAreKnown == Spec => []TargetKnown
<1>1. IInv => TargetKnown
  BY DEF IInv
<1> QED
  BY <1>1, Invariance, PTL

\* No step loses what is known of an instance or a host that is kept.
THEOREM HistoryIsKept == Spec => HistoryKept
<1>1. IInv /\ [Next]_vars => [Kept]_vars
  BY NextPreserves DEF Grows
<1> QED
  BY <1>1, Invariance, PTL DEF Spec, HistoryKept

-----------------------------------------------------------------------------
(* Derived states only age.                                                *)

LEMMA RankValues ==
    ASSUME NEW s, NEW n
    PROVE  /\ Expired(s, n) => Rank(ServiceState(s, n)) = 3
           /\ ~Expired(s, n) /\ Fresh(s, n) => Rank(ServiceState(s, n)) = 0
           /\ ~Expired(s, n) /\ ~Fresh(s, n) /\ ~Low(s, n) => Rank(ServiceState(s, n)) = 1
           /\ Rank(ServiceState(s, n)) \in 0 .. 3
BY DEF ServiceState, Rank

\* A ratio that is a fraction is truncated to 0, and no remaining TTL is below that.
LEMMA FractionIsNeverLow ==
    ASSUME StaleNum < StaleDen, NEW s \in ServiceSnapshot, NEW n \in Nat
    PROVE  ~Low(s, n)
<1>1. s.expiresAt \in Nat /\ s.originalTtl \in Nat
  BY DEF ServiceSnapshot, Time, TTL
<1>2. StaleNum \div StaleDen = 0
  BY WindowAssumption
<1>3. s.originalTtl * 0 = 0
  BY <1>1
<1> QED
  BY <1>1, <1>2, <1>3 DEF Low

\* Time makes a state older, as long as the ratio is a fraction: "stale" would end,
\* in "active", at the very second an instance expires.
LEMMA TimeAges ==
    ASSUME StaleNum < StaleDen, NEW s \in ServiceSnapshot,
           NEW n \in Nat, NEW m \in Nat, n <= m
    PROVE  Rank(ServiceState(s, n)) <= Rank(ServiceState(s, m))
<1>1. /\ s.expiresAt \in Nat /\ s.originalTtl \in Nat /\ s.firstSeen \in Nat
      /\ NewWindow \in Nat
  BY WindowAssumption DEF ServiceSnapshot, Time, TTL
<1>2. ~Low(s, n) /\ ~Low(s, m)
  BY FractionIsNeverLow
<1>3. Expired(s, n) => Expired(s, m)
  BY <1>1 DEF Expired
<1>4. Fresh(s, m) => Fresh(s, n)
  BY <1>1 DEF Fresh
<1> QED
  BY <1>2, <1>3, <1>4, RankValues

\* A goodbye leaves an instance offline or, in a TXT record, as it was.
LEMMA GoodbyesAge ==
    ASSUME NEW s \in ServiceSnapshot, NEW t, NEW now, NEW n \in Nat,
           t = Withdraw(s, now) \/ t = [s EXCEPT !.lastSeen = now]
    PROVE  Rank(ServiceState(s, n)) <= Rank(ServiceState(t, n))
<1>1. CASE t = Withdraw(s, now)
  <2>1. t.goodbye = TRUE
    BY <1>1 DEF Withdraw, ServiceSnapshot
  <2>2. Rank(ServiceState(t, n)) = 3
    BY <2>1, RankValues DEF Expired
  <2> QED
    BY <2>2, RankValues
<1>2. CASE t = [s EXCEPT !.lastSeen = now]
  <2>1. /\ t.goodbye = s.goodbye /\ t.expiresAt = s.expiresAt
        /\ t.firstSeen = s.firstSeen /\ t.originalTtl = s.originalTtl
    BY <1>2 DEF ServiceSnapshot
  <2>2. ServiceState(t, n) = ServiceState(s, n)
    BY <2>1 DEF ServiceState, Expired, Fresh, Low
  <2> QED
    BY <2>2, RankValues
<1> QED
  BY <1>1, <1>2

\* One record: the instance it is about, and what its goodbye does.
LEMMA RecordAges ==
    ASSUME DataOK, TypeOK, NEW l \in Listener,
           HandlePTR(l) \/ HandleSRV(l) \/ HandleTXT(l), NEW k \in Known
    PROVE  /\ services'[k] # services[k] => About(Current(l), k)
           /\ Current(l).ttl = 0 =>
                Rank(ServiceState(services[k], clock)) <= Rank(ServiceState(services'[k], clock))
<1> DEFINE rr == Current(l)
           j == IF rr \in PTR THEN rr.target ELSE rr.owner
           t == services'[k]
<1>0. /\ k \in Instance /\ services[k] \in ServiceSnapshot /\ Stored(k) = services[k]
      /\ services \in [Instance -> ServiceSnapshot \cup {Absent}] /\ clock \in Nat
  BY DEF Known, DataOK, Stored, Time
<1>1. /\ k # j => t = services[k]
      /\ k = j => \/ rr \in PTR /\ t = ApplyPTR(services[k], rr, cur[l].time)
                  \/ rr \in SRV /\ t = ApplySRV(services[k], rr, cur[l].time)
                  \/ rr \in TXT /\ t = ApplyTXT(services[k], rr, cur[l].time)
  BY <1>0, RecordTypes DEF HandlePTR, HandleSRV, HandleTXT
<1>2. k = j => About(rr, k)
  BY <1>1 DEF About
<1>3. ASSUME rr.ttl = 0
      PROVE  Rank(ServiceState(services[k], clock)) <= Rank(ServiceState(t, clock))
  <2>1. CASE k = j
    <3>1. \/ t = Withdraw(services[k], cur[l].time)
          \/ t = [services[k] EXCEPT !.lastSeen = cur[l].time]
      BY <1>1, <1>3, <2>1 DEF ApplyPTR, ApplySRV, ApplyTXT
    <3> HIDE DEF t
    <3> QED
      BY <1>0, <3>1, GoodbyesAge
  <2>2. CASE k # j
    <3>1. t = services[k]
      BY <1>1, <2>2
    <3> HIDE DEF t
    <3> QED
      BY <3>1, RankValues
  <2> QED
    BY <2>1, <2>2
<1> QED
  BY <1>1, <1>2, <1>3

LEMMA YoungerStep ==
    ASSUME StaleNum < StaleDen, IInv, TypeOK', [Next]_vars, NEW k \in Known,
           Rank(State(k)') < Rank(State(k))
    PROVE  /\ services'[k] # services[k]
           /\ \E l \in Listener : /\ pc[l] = "applying"
                                  /\ About(Current(l), k)
                                  /\ Current(l).ttl > 0
<1>1. TypeOK /\ DataOK
  BY TypeParts DEF IInv
<1>2. /\ k \in Instance /\ services[k] \in ServiceSnapshot
      /\ clock \in Nat /\ clock' \in Nat
  BY <1>1 DEF Known, DataOK, TypeOK, Time
<1>3. clock <= clock' /\ (clock' = clock \/ services' = services)
  BY <1>2, ApplyFrame DEF Next, Tick, Receive, ReadError, HandleDNS, Record, Publish, vars, registry
<1>4. /\ Rank(ServiceState(services[k], clock)) \in 0 .. 3
      /\ Rank(ServiceState(services'[k], clock')) \in 0 .. 3
      /\ Rank(ServiceState(services'[k], clock')) < Rank(ServiceState(services[k], clock))
  BY RankValues DEF State
<1>5. services'[k] # services[k]
  BY <1>2, <1>3, <1>4, TimeAges
<1>6. PICK l \in Listener : HandlePTR(l) \/ HandleSRV(l) \/ HandleTXT(l)
  BY <1>5 DEF Next, Tick, Receive, ReadError, HandleDNS, ApplyRR, HandleMeta, MarkTarget,
       HandleAddr, HandleIgnored, Record, Publish, vars, registry
<1>7. clock' = clock
  BY <1>3, <1>5
<1>8. About(Current(l), k) /\ Current(l).ttl # 0
  <2> DEFINE old == Rank(ServiceState(services[k], clock))
             new == Rank(ServiceState(services'[k], clock))
  <2>1. old \in 0 .. 3 /\ new \in 0 .. 3 /\ new < old
    BY <1>4, <1>7
  <2>2. About(Current(l), k) /\ (Current(l).ttl = 0 => old <= new)
    BY <1>1, <1>5, <1>6, RecordAges
  <2> HIDE DEF old, new
  <2> QED
    BY <2>1, <2>2
<1>9. pc[l] = "applying" /\ Current(l).ttl \in Nat
  BY <1>6 DEF HandlePTR, HandleSRV, HandleTXT, PTR, SRV, TXT, TTL
<1> QED
  BY <1>5, <1>8, <1>9

\* YoungerOnlyByRecord, for every ratio that is a fraction: neither time, nor a goodbye
\* of whatever type, nor a record about another instance revives one
\* (deriveServiceState, and the branches of applyRR for a TTL of 0).
THEOREM OnlyRecordsRevive ==
    ASSUME StaleNum < StaleDen
    PROVE  Spec => YoungerOnlyByRecord
<1>1. IInv /\ IInv' /\ [Next]_vars =>
        [\A k \in Known :
          Rank(State(k)') < Rank(State(k)) =>
              /\ services'[k] # services[k]
              /\ \E l \in Listener : /\ pc[l] = "applying"
                                     /\ About(Current(l), k)
                                     /\ Current(l).ttl > 0]_vars
  BY YoungerStep DEF IInv
<1> QED
  BY <1>1, Invariance, PTL DEF Spec, YoungerOnlyByRecord

\* Whatever the flag -stale-ttl-ratio says, as long as it is a fraction, no instance is
\* ever stale: the divergence StaleWhenLow shows for one ratio, for all of them.
THEOREM FractionsNeverMakeStale ==
    ASSUME StaleNum < StaleDen
    PROVE  Spec => []NeverStale
<1>1. IInv => NeverStale
  <2> SUFFICES ASSUME IInv, NEW k \in Known
               PROVE  State(k) # "stale"
    BY DEF NeverStale
  <2>1. services[k] \in ServiceSnapshot /\ clock \in Nat
    BY TypeParts DEF IInv, Known, DataOK, Time
  <2>2. ~Low(services[k], clock)
    BY <2>1, FractionIsNeverLow
  <2> QED
    BY <2>2 DEF State, ServiceState
<1> QED
  BY <1>1, Invariance, PTL

-----------------------------------------------------------------------------
(* The history is the tail of the stream.                                  *)

\* What is published, by position: the stream, then the event that is pending.
LEMMA PublishedIs ==
    ASSUME DataOK, NEW l \in Listener
    PROVE  /\ Len(stream) \in Nat /\ DOMAIN stream = 1 .. Len(stream)
           /\ DOMAIN Published(l) =
                1 .. (Len(stream) + (IF pc[l] = "publishing" THEN 1 ELSE 0))
           /\ \A p \in 1 .. Len(stream) : Published(l)[p] = stream[p]
           /\ pc[l] = "publishing" => Published(l)[Len(stream) + 1] = cur[l]
<1>1. stream \in Seq(Event) /\ Len(stream) \in Nat /\ DOMAIN stream = 1 .. Len(stream)
  BY DEF DataOK
<1>2. CASE pc[l] = "publishing"
  <2>1. Published(l) = stream \o <<cur[l]>>
    BY <1>2 DEF Published
  <2> QED
    BY <1>1, <1>2, <2>1
<1>3. CASE pc[l] # "publishing"
  <2>1. Published(l) = stream \o << >>
    BY <1>3 DEF Published
  <2> QED
    BY <1>1, <1>3, <2>1
<1> QED
  BY <1>2, <1>3

\* The history after one more event: what was there moves down by d places, d being 1
\* when the history is full and 0 otherwise.
LEMMA NewestIs ==
    ASSUME DataOK, NEW e \in Event, log' = Log!Newest(Append(log, e))
    PROVE  \E d \in {0, 1} :
             /\ Len(log) \in Nat /\ DOMAIN log = 1 .. Len(log)
             /\ Len(log') = Len(log) + 1 - d /\ DOMAIN log' = 1 .. (Len(log) + 1 - d)
             /\ \A i \in 1 .. (Len(log) - d) : log'[i] = log[i + d]
             /\ log'[Len(log) + 1 - d] = e
             /\ d = 0 <=> Len(log) < Cap
<1>1. log \in Seq(Event) /\ Len(log) \in Nat /\ DOMAIN log = 1 .. Len(log)
      /\ Cap \in Nat \ {0}
  BY BoundAssumption DEF DataOK
<1> DEFINE more == Append(log, e)
           Moved(d) ==
             /\ Len(log') = Len(log) + 1 - d /\ DOMAIN log' = 1 .. (Len(log) + 1 - d)
             /\ \A i \in 1 .. (Len(log) - d) : log'[i] = log[i + d]
             /\ log'[Len(log) + 1 - d] = e
             /\ d = 0 <=> Len(log) < Cap
<1>2. /\ more \in Seq(Event) /\ Len(more) = Len(log) + 1 /\ more # << >>
      /\ \A i \in 1 .. Len(log) : more[i] = log[i]
      /\ more[Len(log) + 1] = e
      /\ DOMAIN more = 1 .. Len(log) + 1
  BY <1>1
<1>3. log' = IF Len(more) > Cap THEN Tail(more) ELSE more
  BY DEF Log!Newest
<1> HIDE DEF more
<1>4. CASE Len(log) < Cap
  <2>1. log' = more
    BY <1>1, <1>2, <1>3, <1>4
  <2>2. Moved(0)
    BY <1>1, <1>2, <1>4, <2>1
  <2> QED
    BY <1>1, <2>2
<1>5. CASE ~(Len(log) < Cap)
  <2>1. log' = Tail(more)
    BY <1>1, <1>2, <1>3, <1>5
  <2>2. /\ Tail(more) \in Seq(Event) /\ Len(Tail(more)) = Len(log)
        /\ \A i \in 1 .. Len(log) : Tail(more)[i] = more[i + 1]
    BY <1>1, <1>2
  <2> HIDE DEF more
  <2> DEFINE rest == Tail(more)
  <2>3. /\ Len(rest) = Len(log) /\ DOMAIN rest = 1 .. Len(log)
        /\ \A i \in 1 .. Len(log) : rest[i] = more[i + 1]
    BY <1>1, <2>2
  <2> HIDE DEF rest
  <2>4. Len(log) >= 1 /\ Len(log) + 1 - 1 = Len(log)
    BY <1>1, <1>5
  <2>5. \A i \in 1 .. Len(log) - 1 : i \in 1 .. Len(log) /\ i + 1 \in 1 .. Len(log)
    BY <1>1
  <2>6. Moved(1)
    BY <1>1, <1>2, <1>5, <2>1, <2>3, <2>4, <2>5 DEF rest
  <2> QED
    BY <1>1, <2>6
<1> QED
  BY <1>4, <1>5

\* A function of the next state that is a tail then.
LEMMA TailNext ==
    ASSUME NEW l \in Listener, NEW f \in [Of(l, log') -> Of(l, Published(l)')],
           \A i, j \in Of(l, log') : i < j => f[i] < f[j],
           \A i \in Of(l, log') : Published(l)'[f[i]] = log'[i],
           \A p \in Of(l, Published(l)') :
             Len(log') < Cap \/ (\E i \in Of(l, log') : f[i] <= p)
               => \E i \in Of(l, log') : f[i] = p
    PROVE  \E at \in [Of(l, log') -> Of(l, Published(l)')] : IsTail(l, at)'
<1>1. Of(l, log)' = Of(l, log') /\ Of(l, Published(l))' = Of(l, Published(l)')
  BY DEF Of
<1>2. IsTail(l, f)'
  BY <1>1 DEF IsTail
<1> QED
  BY <1>2

\* The listener that records has its new event at the end of both.
LEMMA RecordOwn ==
    ASSUME TypeOK, DataOK, LiveMatchesHistory, OwnEvents, NEW l \in Listener, Record(l)
    PROVE  \E at \in [Of(l, log') -> Of(l, Published(l)')] : IsTail(l, at)'
<1>1. /\ pc[l] = "recording" /\ pc'[l] = "publishing" /\ cur' = cur /\ stream' = stream
      /\ cur[l] \in Event /\ cur[l].iface = l
      /\ log' = Log!Newest(Append(log, cur[l]))
  BY DEF Record, TypeOK, OwnEvents
<1>2. PICK d \in {0, 1} :
        /\ Len(log) \in Nat /\ DOMAIN log = 1 .. Len(log)
        /\ Len(log') = Len(log) + 1 - d /\ DOMAIN log' = 1 .. (Len(log) + 1 - d)
        /\ \A i \in 1 .. (Len(log) - d) : log'[i] = log[i + d]
        /\ log'[Len(log) + 1 - d] = cur[l]
        /\ d = 0 <=> Len(log) < Cap
  BY <1>1, NewestIs
<1>3. PICK at \in [Of(l, log) -> Of(l, Published(l))] : IsTail(l, at)
  BY DEF LiveMatchesHistory
<1> DEFINE n == Len(stream)
           last == Len(log) + 1 - d
<1>4. /\ n \in Nat
      /\ DOMAIN Published(l) = 1 .. n
      /\ \A p \in 1 .. n : Published(l)[p] = stream[p]
  BY <1>1, PublishedIs
<1>5. /\ DOMAIN Published(l)' = 1 .. n + 1
      /\ \A p \in 1 .. n : Published(l)'[p] = stream[p]
      /\ Published(l)'[n + 1] = cur[l]
  <2>1. Published(l)' = stream \o <<cur[l]>>
    BY <1>1 DEF Published
  <2>2. stream \in Seq(Event)
    BY DEF DataOK
  <2> QED
    BY <2>1, <2>2
<1> DEFINE now == [i \in Of(l, log') |-> IF i = last THEN n + 1 ELSE at[i + d]]
<1> HIDE DEF n
<1>6. last \in Of(l, log') /\ n + 1 \in Of(l, Published(l)')
  <2>1. last \in 1 .. last
    BY <1>2, BoundAssumption
  <2>2. n + 1 \in 1 .. n + 1
    BY <1>4
  <2> QED
    BY <1>1, <1>2, <1>5, <2>1, <2>2 DEF Of
<1>7. \A i \in Of(l, log') : i # last =>
        i \in 1 .. Len(log) - d /\ i + d \in Of(l, log) /\ log'[i] = log[i + d]
  BY <1>2 DEF Of
<1>8. \A i \in Of(l, log) : at[i] \in 1 .. n /\ at[i] \in Of(l, Published(l)')
                            /\ Published(l)'[at[i]] = log[i]
  BY <1>3, <1>4, <1>5 DEF Of, IsTail
<1>9. now \in [Of(l, log') -> Of(l, Published(l)')]
  BY <1>6, <1>7, <1>8
<1>10. \A i, j \in Of(l, log') : i < j => now[i] < now[j]
  <2> SUFFICES ASSUME NEW i \in Of(l, log'), NEW j \in Of(l, log'), i < j
               PROVE  now[i] < now[j]
    OBVIOUS
  <2>1. i \in 1 .. last /\ j \in 1 .. last
    BY <1>2 DEF Of
  <2>2. i # last
    BY <1>2, <2>1
  <2>3. now[i] = at[i + d] /\ i + d \in Of(l, log)
    BY <1>7, <2>2
  <2>4. CASE j = last
    BY <1>4, <1>8, <2>3, <2>4
  <2>5. CASE j # last
    <3>1. now[j] = at[j + d] /\ j + d \in Of(l, log)
      BY <1>7, <2>5
    <3>2. i + d < j + d
      BY <2>1
    <3> QED
      BY <1>3, <2>3, <3>1, <3>2 DEF IsTail
  <2> QED
    BY <2>4, <2>5
<1>11. \A i \in Of(l, log') : Published(l)'[now[i]] = log'[i]
  BY <1>2, <1>5, <1>7, <1>8
<1>12. ASSUME NEW p \in Of(l, Published(l)'),
              Len(log') < Cap \/ \E i \in Of(l, log') : now[i] <= p
       PROVE  \E i \in Of(l, log') : now[i] = p
  <2>1. CASE p = n + 1
    BY <1>6, <2>1
  <2>2. CASE p # n + 1
    <3>1. p \in 1 .. n /\ p \in Of(l, Published(l))
      BY <1>4, <1>5, <2>2 DEF Of
    <3>2. \/ Len(log) < Cap
          \/ \E j \in Of(l, log) : j - d \in Of(l, log') /\ j - d # last /\ at[j] <= p
      <4>1. CASE Len(log') < Cap
        BY <1>2, <4>1, BoundAssumption
      <4>2. ASSUME NEW i \in Of(l, log'), now[i] <= p
            PROVE  \E j \in Of(l, log) : j - d \in Of(l, log') /\ j - d # last /\ at[j] <= p
        <5>1. i # last
          BY <1>4, <3>1, <4>2
        <5>2. i + d \in Of(l, log) /\ now[i] = at[i + d] /\ i \in Nat
          BY <1>7, <5>1
        <5>3. (i + d) - d = i
          BY <5>2
        <5> QED
          BY <4>2, <5>1, <5>2, <5>3
      <4> QED
        BY <1>12, <4>1, <4>2
    <3>3. PICK j \in Of(l, log) : at[j] = p
      BY <1>3, <3>1, <3>2 DEF IsTail
    <3>4. j - d \in Of(l, log') /\ j - d # last
      <4>1. CASE Len(log) < Cap
        BY <1>2, <4>1 DEF Of
      <4>2. ASSUME NEW k \in Of(l, log), k - d \in Of(l, log'), k - d # last, at[k] <= p
            PROVE  j - d \in Of(l, log') /\ j - d # last
        <5>1. k <= j
          <6>1. j < k => at[j] < at[k]
            BY <1>3 DEF IsTail
          <6>2. at[j] \in Nat /\ at[k] \in Nat /\ j \in Nat /\ k \in Nat
            BY <1>2, <1>8 DEF Of
          <6> QED
            BY <3>3, <4>2, <6>1, <6>2
        <5>2. j - d \in 1 .. Len(log) - d
          BY <1>2, <4>2, <5>1 DEF Of
        <5>3. log'[j - d] = log[j] /\ j - d \in DOMAIN log' /\ j - d # last
          <6>1. j \in Nat /\ (j - d) + d = j
            BY <1>2 DEF Of
          <6>2. log'[j - d] = log[(j - d) + d]
            BY <1>2, <5>2
          <6> QED
            BY <1>2, <5>2, <6>1, <6>2
        <5> QED
          BY <5>3 DEF Of
      <4> QED
        BY <3>2, <4>1, <4>2
    <3>5. now[j - d] = at[j]
      BY <1>2, <3>4 DEF Of
    <3> QED
      BY <3>3, <3>4, <3>5
  <2> QED
    BY <2>1, <2>2
<1> HIDE DEF now
<1>13. PICK f \in [Of(l, log') -> Of(l, Published(l)')] : f = now
  BY <1>9
<1> QED
  BY <1>10, <1>11, <1>12, <1>13, TailNext

\* What the others have published is what it was; of the history they lose at most the
\* oldest event.
LEMMA RecordOther ==
    ASSUME TypeOK, DataOK, LiveMatchesHistory, OwnEvents, NEW l \in Listener, Record(l),
           NEW k \in Listener, k # l
    PROVE  \E at \in [Of(k, log') -> Of(k, Published(k)')] : IsTail(k, at)'
<1>1. /\ pc'[k] = pc[k] /\ cur' = cur /\ stream' = stream
      /\ cur[l] \in Event /\ cur[l].iface = l
      /\ log' = Log!Newest(Append(log, cur[l]))
  BY DEF Record, TypeOK, OwnEvents
<1>2. PICK d \in {0, 1} :
        /\ Len(log) \in Nat /\ DOMAIN log = 1 .. Len(log)
        /\ Len(log') = Len(log) + 1 - d /\ DOMAIN log' = 1 .. (Len(log) + 1 - d)
        /\ \A i \in 1 .. (Len(log) - d) : log'[i] = log[i + d]
        /\ log'[Len(log) + 1 - d] = cur[l]
        /\ d = 0 <=> Len(log) < Cap
  BY <1>1, NewestIs
<1>3. PICK at \in [Of(k, log) -> Of(k, Published(k))] : IsTail(k, at)
  BY DEF LiveMatchesHistory
<1>4. Published(k)' = Published(k)
  BY <1>1 DEF Published
<1>5. \A p \in Of(k, Published(k)) : p \in Nat
  BY PublishedIs DEF Of
<1>6. \A i \in Of(k, log') :
        i \in 1 .. Len(log) - d /\ i + d \in Of(k, log) /\ log'[i] = log[i + d]
  BY <1>1, <1>2 DEF Of
<1>7. \A j \in Of(k, log) : j - d # 0 => j - d \in Of(k, log') /\ (j - d) + d = j
  <2> SUFFICES ASSUME NEW j \in Of(k, log), j - d # 0
               PROVE  j - d \in Of(k, log') /\ (j - d) + d = j
    OBVIOUS
  <2>1. j \in 1 .. Len(log) /\ (j - d) + d = j /\ j - d \in 1 .. Len(log) - d
    BY <1>2 DEF Of
  <2>2. log'[j - d] = log[(j - d) + d] /\ j - d \in DOMAIN log'
    BY <1>2, <2>1
  <2> QED
    BY <2>1, <2>2 DEF Of
<1> DEFINE now == [i \in Of(k, log') |-> at[i + d]]
<1>8. now \in [Of(k, log') -> Of(k, Published(k))]
  BY <1>6
<1>9. \A i, j \in Of(k, log') : i < j => now[i] < now[j]
  <2> SUFFICES ASSUME NEW i \in Of(k, log'), NEW j \in Of(k, log'), i < j
               PROVE  now[i] < now[j]
    OBVIOUS
  <2>1. i + d \in Of(k, log) /\ j + d \in Of(k, log) /\ i + d < j + d
    BY <1>6
  <2> QED
    BY <1>3, <2>1 DEF IsTail
<1>10. \A i \in Of(k, log') : Published(k)[now[i]] = log'[i]
  BY <1>3, <1>6 DEF IsTail
<1>11. ASSUME NEW p \in Of(k, Published(k)),
              Len(log') < Cap \/ \E i \in Of(k, log') : now[i] <= p
       PROVE  \E i \in Of(k, log') : now[i] = p
  <2>1. CASE Len(log') < Cap
    <3>1. d = 0 /\ Len(log) < Cap
      BY <1>2, <2>1, BoundAssumption
    <3>2. PICK j \in Of(k, log) : at[j] = p
      BY <1>3, <3>1 DEF IsTail
    <3>3. j - d # 0
      BY <1>2, <3>1 DEF Of
    <3> QED
      BY <1>7, <3>2, <3>3
  <2>2. ASSUME NEW i \in Of(k, log'), now[i] <= p
        PROVE  \E j \in Of(k, log') : now[j] = p
    <3>1. i + d \in Of(k, log) /\ at[i + d] <= p /\ i \in Nat /\ i > 0
      BY <1>6, <2>2
    <3>2. PICK j \in Of(k, log) : at[j] = p
      BY <1>3, <3>1 DEF IsTail
    <3>3. ~(j < i + d)
      <4>1. j < i + d => at[j] < at[i + d]
        BY <1>3, <3>1 DEF IsTail
      <4>2. at[i + d] \in Nat /\ p \in Nat
        BY <1>5, <3>1
      <4> QED
        BY <3>1, <3>2, <4>1, <4>2
    <3>4. j - d # 0
      BY <1>2, <3>1, <3>3 DEF Of
    <3> QED
      BY <1>7, <3>2, <3>4
  <2> QED
    BY <1>11, <2>1, <2>2
<1> HIDE DEF now
<1>12. PICK f \in [Of(k, log') -> Of(k, Published(k)')] : f = now
  BY <1>4, <1>8
<1> QED
  BY <1>4, <1>9, <1>10, <1>11, <1>12, TailNext

\* The event that was pending is published: its place stays.
LEMMA PublishOwn ==
    ASSUME DataOK, LiveMatchesHistory, NEW l \in Listener, Publish(l), TypeOK
    PROVE  \E at \in [Of(l, log') -> Of(l, Published(l)')] : IsTail(l, at)'
<1>1. /\ pc[l] = "publishing" /\ pc'[l] = "reading" /\ log' = log
      /\ stream' = Append(stream, cur[l]) /\ stream \in Seq(Event) /\ cur[l] \in Event
  BY DEF Publish, TypeOK
<1>2. Published(l)' = Published(l)
  <2>1. Published(l) = stream \o <<cur[l]>>
    BY <1>1 DEF Published
  <2>2. Published(l)' = Append(stream, cur[l]) \o << >>
    BY <1>1 DEF Published
  <2>3. Append(stream, cur[l]) = stream \o <<cur[l]>>
    BY <1>1
  <2>4. Append(stream, cur[l]) \o << >> = Append(stream, cur[l])
    BY <1>1
  <2> QED
    BY <2>1, <2>2, <2>3, <2>4
<1>3. PICK at \in [Of(l, log) -> Of(l, Published(l))] : IsTail(l, at)
  BY DEF LiveMatchesHistory
<1> QED
  BY <1>1, <1>2, <1>3, TailNext DEF IsTail

\* An event of another listener comes before what is pending.
LEMMA PublishOther ==
    ASSUME TypeOK, DataOK, DataOK', LiveMatchesHistory, OwnEvents,
           NEW l \in Listener, Publish(l), NEW k \in Listener, k # l
    PROVE  \E at \in [Of(k, log') -> Of(k, Published(k)')] : IsTail(k, at)'
<1>1. /\ pc'[k] = pc[k] /\ cur'[k] = cur[k] /\ log' = log
      /\ stream' = Append(stream, cur[l]) /\ stream \in Seq(Event)
      /\ cur[l] \in Event /\ cur[l].iface = l
  BY DEF Publish, TypeOK, OwnEvents
<1>2. PICK at \in [Of(k, log) -> Of(k, Published(k))] : IsTail(k, at)
  BY DEF LiveMatchesHistory
<1> DEFINE n == Len(stream)
           old == Published(k)
           new == Published(k)'
           Place(p) == IF p = n + 1 THEN n + 2 ELSE p
<1>3. /\ n \in Nat
      /\ DOMAIN old = 1 .. (n + (IF pc[k] = "publishing" THEN 1 ELSE 0))
      /\ \A p \in 1 .. n : old[p] = stream[p]
      /\ pc[k] = "publishing" => old[n + 1] = cur[k]
  BY PublishedIs
<1>4. /\ DOMAIN new = 1 .. (n + 1 + (IF pc[k] = "publishing" THEN 1 ELSE 0))
      /\ \A p \in 1 .. n + 1 : new[p] = Append(stream, cur[l])[p]
      /\ pc[k] = "publishing" => new[n + 2] = cur[k]
  <2>1. CASE pc[k] = "publishing"
    <3>1. new = Append(stream, cur[l]) \o <<cur[k]>>
      BY <1>1, <2>1 DEF Published
    <3> QED
      BY <1>1, <2>1, <3>1
  <2>2. CASE pc[k] # "publishing"
    <3>1. new = Append(stream, cur[l]) \o << >>
      BY <1>1, <2>2 DEF Published
    <3> QED
      BY <1>1, <2>2, <3>1
  <2> QED
    BY <2>1, <2>2
<1>5. /\ \A p \in 1 .. n : new[p] = stream[p]
      /\ new[n + 1] = cur[l]
  <2>1. \A p \in 1 .. n : Append(stream, cur[l])[p] = stream[p]
    BY <1>1
  <2>2. Append(stream, cur[l])[n + 1] = cur[l]
    BY <1>1
  <2> QED
    BY <1>3, <1>4, <2>1, <2>2
<1> HIDE DEF n, old, new
<1>6. \A p \in Of(k, old) :
        /\ p \in 1 .. n + 1 /\ Place(p) \in Of(k, new) /\ new[Place(p)] = old[p]
  <2> SUFFICES ASSUME NEW p \in Of(k, old)
               PROVE  p \in 1 .. n + 1 /\ Place(p) \in Of(k, new) /\ new[Place(p)] = old[p]
    OBVIOUS
  <2>1. p \in DOMAIN old /\ old[p].iface = k
    BY DEF Of
  <2>2. CASE p = n + 1
    <3>1. pc[k] = "publishing"
      BY <1>3, <2>1, <2>2
    <3>2. n + 2 \in DOMAIN new /\ new[n + 2] = old[n + 1]
      BY <1>3, <1>4, <3>1
    <3> QED
      BY <1>3, <2>1, <2>2, <3>2 DEF Of
  <2>3. CASE p # n + 1
    <3>1. p \in 1 .. n
      BY <1>3, <2>1, <2>3
    <3>2. p \in DOMAIN new /\ new[p] = old[p]
      BY <1>3, <1>4, <1>5, <3>1
    <3> QED
      BY <1>3, <2>1, <2>3, <3>1, <3>2 DEF Of
  <2> QED
    BY <2>2, <2>3
<1>7. ASSUME NEW q \in Of(k, new)
      PROVE  \E p \in Of(k, old) : Place(p) = q
  <2>1. q # n + 1
    BY <1>1, <1>5 DEF Of
  <2>2. CASE q = n + 2
    <3>1. n + 1 \in Of(k, old)
      BY <1>3, <1>4, <2>2, <1>7 DEF Of
    <3> QED
      BY <2>2, <3>1
  <2>3. CASE q # n + 2
    <3>1. q \in 1 .. n
      BY <1>3, <1>4, <2>1, <2>3, <1>7 DEF Of
    <3>2. q \in Of(k, old) /\ Place(q) = q
      BY <1>3, <1>5, <3>1, <1>7 DEF Of
    <3> QED
      BY <3>2
  <2> QED
    BY <2>2, <2>3
<1>8. \A p, q \in Of(k, old) :
        (p < q <=> Place(p) < Place(q)) /\ (p <= q <=> Place(p) <= Place(q))
  <2>1. \A p, q \in 1 .. n + 1 :
          (p < q <=> Place(p) < Place(q)) /\ (p <= q <=> Place(p) <= Place(q))
    BY <1>3
  <2> HIDE DEF Place
  <2> QED
    BY <1>6, <2>1
<1> DEFINE now == [i \in Of(k, log) |-> Place(at[i])]
<1>10. \A i \in Of(k, log) : at[i] \in Of(k, old)
  BY <1>2 DEF old
<1> HIDE DEF Place
<1>11. now \in [Of(k, log) -> Of(k, new)]
  BY <1>6, <1>10
<1>12. \A i, j \in Of(k, log) : i < j => now[i] < now[j]
  BY <1>2, <1>8, <1>10 DEF IsTail
<1>13. \A i \in Of(k, log) : new[now[i]] = log[i]
  BY <1>2, <1>6, <1>10 DEF IsTail, old
<1>14. ASSUME NEW q \in Of(k, new),
              Len(log) < Cap \/ \E i \in Of(k, log) : now[i] <= q
       PROVE  \E i \in Of(k, log) : now[i] = q
  <2>1. PICK p \in Of(k, old) : Place(p) = q
    BY <1>7
  <2>2. Len(log) < Cap \/ \E i \in Of(k, log) : at[i] <= p
    BY <1>8, <1>10, <1>14, <2>1
  <2>3. \E i \in Of(k, log) : at[i] = p
    BY <1>2, <2>2 DEF IsTail, old
  <2> QED
    BY <2>1, <2>3
<1> HIDE DEF now
<1>15. PICK f \in [Of(k, log') -> Of(k, new)] : f = now
  BY <1>1, <1>11
<1> QED
  BY <1>1, <1>12, <1>13, <1>14, <1>15, TailNext DEF new

\* A listener handles its own events.
LEMMA OwnEventsStep ==
    ASSUME TypeOK, OwnEvents, [Next]_vars
    PROVE  OwnEvents'
<1>1. CASE Tick \/ UNCHANGED vars
  BY <1>1 DEF Tick, vars, OwnEvents
<1>2. ASSUME NEW l \in Listener, NEW p \in Packet, Receive(l, p)
      PROVE  OwnEvents'
  <2>1. /\ \A k \in Listener : k # l => cur'[k] = cur[k]
        /\ cur'[l] \in {cur[l], EventOf(l, p, clock)}
    BY <1>2 DEF Receive, TypeOK
  <2>2. EventOf(l, p, clock).iface = l
    BY DEF EventOf
  <2> QED
    BY <2>1, <2>2 DEF OwnEvents
<1>3. ASSUME NEW l \in Listener, ReadError(l) \/ ApplyRR(l) \/ Record(l)
      PROVE  OwnEvents'
  BY <1>3, ApplyFrame DEF ReadError, Record, OwnEvents
<1>4. ASSUME NEW l \in Listener, Publish(l)
      PROVE  OwnEvents'
  BY <1>4 DEF Publish, OwnEvents, TypeOK
<1> QED
  BY <1>1, <1>2, <1>3, <1>4 DEF Next, HandleDNS

\* Nothing else touches the history, the stream or what is pending.
LEMMA HistoryStep ==
    ASSUME IInv, DataOK', LiveMatchesHistory, OwnEvents, [Next]_vars
    PROVE  LiveMatchesHistory' /\ OwnEvents'
<1>1. TypeOK /\ DataOK
  BY TypeParts DEF IInv
<1>2. ASSUME log' = log, stream' = stream,
             \A k \in Listener : pc'[k] = "publishing" <=> pc[k] = "publishing",
             \A k \in Listener : pc[k] = "publishing" => cur'[k] = cur[k]
      PROVE  LiveMatchesHistory'
  <2> SUFFICES ASSUME NEW k \in Listener
               PROVE  \E at \in [Of(k, log') -> Of(k, Published(k)')] : IsTail(k, at)'
    BY DEF LiveMatchesHistory, Of
  <2>1. Published(k)' = Published(k)
    BY <1>2 DEF Published
  <2>2. PICK at \in [Of(k, log) -> Of(k, Published(k))] : IsTail(k, at)
    BY DEF LiveMatchesHistory
  <2> QED
    BY <1>2, <2>1, <2>2, TailNext DEF IsTail
<1>3. CASE Tick \/ UNCHANGED vars
  BY <1>2, <1>3 DEF Tick, vars, OwnEvents
<1>4. ASSUME NEW l \in Listener, NEW p \in Packet, Receive(l, p)
      PROVE  LiveMatchesHistory' /\ OwnEvents'
  <2>1. /\ log' = log /\ stream' = stream /\ pc[l] = "reading"
        /\ \A k \in Listener : k # l => pc'[k] = pc[k] /\ cur'[k] = cur[k]
        /\ pc'[l] \in {"reading", "applying"}
        /\ cur'[l] \in {cur[l], EventOf(l, p, clock)}
    BY <1>1, <1>4 DEF Receive, TypeOK
  <2>2. EventOf(l, p, clock).iface = l
    BY DEF EventOf
  <2> QED
    BY <1>2, <2>1, <2>2 DEF OwnEvents
<1>5. ASSUME NEW l \in Listener, ReadError(l) \/ ApplyRR(l)
      PROVE  LiveMatchesHistory' /\ OwnEvents'
  <2>1. /\ log' = log /\ stream' = stream /\ cur' = cur /\ pc[l] # "publishing"
        /\ \A k \in Listener : k # l => pc'[k] = pc[k]
        /\ pc'[l] # "publishing"
    BY <1>1, <1>5 DEF ReadError, ApplyRR, HandlePTR, HandleMeta, HandleSRV, MarkTarget,
         HandleTXT, HandleAddr, HandleIgnored, Advance, TypeOK
  <2> QED
    BY <1>2, <2>1 DEF OwnEvents
<1>6. ASSUME NEW l \in Listener, Record(l)
      PROVE  LiveMatchesHistory' /\ OwnEvents'
  <2>1. OwnEvents'
    BY <1>6 DEF Record, OwnEvents
  <2> QED
    BY <1>1, <1>6, <2>1, RecordOwn, RecordOther DEF LiveMatchesHistory, Of
<1>7. ASSUME NEW l \in Listener, Publish(l)
      PROVE  LiveMatchesHistory' /\ OwnEvents'
  <2>1. OwnEvents'
    BY <1>1, <1>7 DEF Publish, OwnEvents, TypeOK
  <2> QED
    BY <1>1, <1>7, <2>1, PublishOwn, PublishOther DEF LiveMatchesHistory, Of
<1> QED
  BY <1>3, <1>4, <1>5, <1>6, <1>7 DEF Next, HandleDNS

\* The history is the tail of what each socket published, for every capacity and
\* number of sockets, however the goroutines interleave between ring.Add and publish.
THEOREM HistoryMatchesStream == Spec => []LiveMatchesHistory
<1>1. Init => LiveMatchesHistory /\ OwnEvents
  <2> SUFFICES ASSUME Init, NEW l \in Listener
               PROVE  \E at \in [Of(l, log) -> Of(l, Published(l))] : IsTail(l, at)
    BY DEF Init, LiveMatchesHistory, OwnEvents
  <2>1. /\ log = << >> /\ stream = << >> /\ pc[l] = "reading"
    BY DEF Init
  <2>2. Published(l) = << >>
    BY <2>1 DEF Published
  <2>3. Of(l, log) = {} /\ Of(l, Published(l)) = {}
    BY <2>1, <2>2 DEF Of
  <2>4. [i \in {} |-> i] \in [Of(l, log) -> Of(l, Published(l))]
    BY <2>3
  <2> QED
    BY <2>3, <2>4 DEF IsTail
<1>2. IInv /\ IInv' /\ (LiveMatchesHistory /\ OwnEvents) /\ [Next]_vars
        => LiveMatchesHistory' /\ OwnEvents'
  <2>1. IInv' => DataOK'
    BY TypePartsNext DEF IInv
  <2> QED
    BY <2>1, HistoryStep
<1> QED
  BY <1>1, <1>2, Invariance, PTL DEF Spec

-----------------------------------------------------------------------------
(* The lifetime is that of the newest record of some socket.               *)

\* One more record of an event: it says when the instance expires, or it changes
\* nothing of what the earlier ones say.
LEMMA OneMore ==
    ASSUME NEW s, NEW e, NEW n \in Nat, NEW k
    PROVE  /\ Dates(e.records[n + 1], k) /\ Dated(s, e.time, e.records[n + 1].ttl)
                => Gives(s, e, n + 1, k)
           /\ ~Dates(e.records[n + 1], k) /\ Silent(e, n, k) => Silent(e, n + 1, k)
           /\ ~Dates(e.records[n + 1], k) /\ Gives(s, e, n, k) => Gives(s, e, n + 1, k)
<1> DEFINE D(i) == Dates(e.records[i], k)
           T(i) == Dated(s, e.time, e.records[i].ttl)
<1>1. D(n + 1) /\ T(n + 1) => Gives(s, e, n + 1, k)
  <2> SUFFICES ASSUME D(n + 1), T(n + 1)
               PROVE  \E i \in 1 .. n + 1 : D(i) /\ (\A j \in i + 1 .. n + 1 : ~D(j)) /\ T(i)
    BY DEF Gives
  <2> HIDE DEF D, T
  <2> QED
    OBVIOUS
<1>2. ~D(n + 1) /\ Silent(e, n, k) => Silent(e, n + 1, k)
  <2> SUFFICES ASSUME ~D(n + 1), \A i \in 1 .. n : ~D(i)
               PROVE  \A i \in 1 .. n + 1 : ~D(i)
    BY DEF Silent
  <2> HIDE DEF D
  <2> QED
    OBVIOUS
<1>3. ~D(n + 1) /\ Gives(s, e, n, k) => Gives(s, e, n + 1, k)
  <2> SUFFICES ASSUME ~D(n + 1),
                      NEW i \in 1 .. n, D(i), \A j \in i + 1 .. n : ~D(j), T(i)
               PROVE  \E m \in 1 .. n + 1 : D(m) /\ (\A j \in m + 1 .. n + 1 : ~D(j)) /\ T(m)
    BY DEF Gives
  <2> HIDE DEF D, T
  <2>1. i \in 1 .. n + 1 /\ \A j \in i + 1 .. n + 1 : ~D(j)
    OBVIOUS
  <2> QED
    BY <2>1
<1> QED
  BY <1>1, <1>2, <1>3

\* Only the lifetime of the instance matters.
LEMMA GivesSame ==
    ASSUME NEW s, NEW t, NEW e, NEW n, NEW k, Gives(s, e, n, k),
           t.ttl = s.ttl, t.expiresAt = s.expiresAt, t.goodbye <=> s.goodbye
    PROVE  Gives(t, e, n, k)
BY DEF Gives, Dated

SameLifetime(k) ==
    /\ NeverExpires(k)' <=> NeverExpires(k)
    /\ ~NeverExpires(k) =>
         /\ services'[k].ttl = services[k].ttl
         /\ services'[k].expiresAt = services[k].expiresAt
         /\ services'[k].goodbye <=> services[k].goodbye

\* A step that leaves the lifetime of k and what the listeners have applied about it.
LEMMA QuietStep ==
    ASSUME NEW k, SameLifetime(k), stream' = stream,
           \A m \in Listener :
             /\ Silent(cur[m], Done(m), k) => Silent(cur'[m], Done(m)', k)
             /\ \A s : Gives(s, cur[m], Done(m), k) => Gives(s, cur'[m], Done(m)', k),
           IF NeverExpires(k) THEN Undated(k) ELSE \E l \in Listener : NewestOf(l, k)
    PROVE  IF NeverExpires(k)' THEN Undated(k)' ELSE \E l \in Listener : NewestOf(l, k)'
<1>1. CASE NeverExpires(k)
  <2>1. NeverExpires(k)' /\ Undated(k)
    BY <1>1 DEF SameLifetime
  <2>2. Undated(k)'
    BY <2>1 DEF Undated
  <2> QED
    BY <2>1, <2>2
<1>2. CASE ~NeverExpires(k)
  <2>1. /\ ~NeverExpires(k)'
        /\ services'[k].ttl = services[k].ttl
        /\ services'[k].expiresAt = services[k].expiresAt
        /\ services'[k].goodbye <=> services[k].goodbye
    BY <1>2 DEF SameLifetime
  <2>2. \A e, n : Gives(services[k], e, n, k) => Gives(services'[k], e, n, k)
    BY <2>1, GivesSame
  <2>3. PICK l \in Listener : NewestOf(l, k)
    BY <1>2
  <2>4. CASE Gives(services[k], cur[l], Done(l), k)
    <3>1. Gives(services'[k], cur'[l], Done(l)', k)
      BY <2>2, <2>4
    <3> QED
      BY <2>1, <3>1 DEF NewestOf
  <2>5. CASE ~Gives(services[k], cur[l], Done(l), k)
    <3>1. /\ Silent(cur[l], Done(l), k)
          /\ \E i \in Of(l, stream) :
               /\ Gives(services[k], stream[i], Len(stream[i].records), k)
               /\ \A j \in Of(l, stream) :
                    i < j => Silent(stream[j], Len(stream[j].records), k)
      BY <2>3, <2>5 DEF NewestOf
    <3>2. Silent(cur'[l], Done(l)', k)
      BY <3>1
    <3>3. \E i \in Of(l, stream) :
            /\ Gives(services'[k], stream[i], Len(stream[i].records), k)
            /\ \A j \in Of(l, stream) :
                 i < j => Silent(stream[j], Len(stream[j].records), k)
      BY <2>2, <3>1
    <3>4. NewestOf(l, k)'
      BY <3>2, <3>3 DEF NewestOf, Of
    <3> QED
      BY <2>1, <3>4
  <2> QED
    BY <2>4, <2>5
<1> QED
  BY <1>1, <1>2

\* How far a listener is, by what it does.
LEMMA DoneIs ==
    ASSUME NEW l \in Listener
    PROVE  /\ pc[l] = "applying" => Done(l) = pos[l] - 1
           /\ pc[l] = "marking" => Done(l) = pos[l]
           /\ pc[l] \in {"recording", "publishing"} => Done(l) = Len(cur[l].records)
           /\ pc[l] \in {"reading", "ended"} => Done(l) = 0
BY DEF Done

LEMMA DoneIsNext ==
    ASSUME NEW l \in Listener
    PROVE  /\ pc'[l] = "applying" => Done(l)' = pos'[l] - 1
           /\ pc'[l] = "marking" => Done(l)' = pos'[l]
           /\ pc'[l] \in {"recording", "publishing"} => Done(l)' = Len(cur'[l].records)
           /\ pc'[l] \in {"reading", "ended"} => Done(l)' = 0
BY DEF Done

\* A record counts as applied once the services have it.
LEMMA ApplyDone ==
    ASSUME TypeOK, NEW l \in Listener, ApplyRR(l)
    PROVE  /\ cur' = cur /\ stream' = stream /\ pc[l] \in {"applying", "marking"}
           /\ pos[l] \in Nat \ {0}
           /\ Done(l) = IF pc[l] = "marking" THEN pos[l] ELSE pos[l] - 1
           /\ Done(l)' = pos[l]
           /\ \A m \in Listener : m # l => Done(m)' = Done(m)
<1>1. /\ cur' = cur /\ stream' = stream /\ pc[l] \in {"applying", "marking"}
      /\ HandleSRV(l) \/ Advance(l)
  BY ApplyFrame
<1>2. /\ pos[l] \in Nat \ {0} /\ Len(cur[l].records) \in Nat
      /\ pos[l] \in 1 .. Len(cur[l].records)
  BY <1>1, InFlight
<1>3. pc \in [Listener -> {"reading", "applying", "marking", "recording", "publishing",
                           "ended"}]
      /\ pos \in [Listener -> Nat \ {0}]
  BY DEF TypeOK
<1>4. \/ /\ pos' = [pos EXCEPT ![l] = pos[l] + 1]
         /\ pc' = [pc EXCEPT ![l] = IF pos[l] < Len(cur[l].records)
                                      THEN "applying" ELSE "recording"]
      \/ pos' = pos /\ pc' = [pc EXCEPT ![l] = "marking"]
  BY <1>1 DEF HandleSRV, Advance
<1>5. Done(l)' = pos[l]
  BY <1>1, <1>2, <1>3, <1>4, DoneIsNext
<1>6. ASSUME NEW m \in Listener, m # l PROVE Done(m)' = Done(m)
  BY <1>1, <1>3, <1>4, <1>6 DEF Done
<1>7. Done(l) = IF pc[l] = "marking" THEN pos[l] ELSE pos[l] - 1
  BY <1>1, DoneIs
<1> QED
  BY <1>1, <1>2, <1>5, <1>6, <1>7

\* What applying a record does to the lifetime of an instance.
LEMMA ApplyLifetime ==
    ASSUME TypeOK, NEW l \in Listener, cur[l].time \in 1 .. clock, ApplyRR(l),
           NEW k \in Instance
    PROVE  IF pc[l] = "applying" /\ Dates(Current(l), k)
             THEN /\ services'[k] # Absent
                  /\ Dated(services'[k], cur[l].time, Current(l).ttl)
             ELSE SameLifetime(k)
<1> DEFINE rr == Current(l)
           now == cur[l].time
           Goal == IF pc[l] = "applying" /\ Dates(rr, k)
                     THEN services'[k] # Absent /\ Dated(services'[k], now, rr.ttl)
                     ELSE SameLifetime(k)
<1>0. DataOK /\ now \in Time
  BY TypeParts, TypeOK DEF DataOK, Time
<1>1. services'[k] = services[k] => SameLifetime(k)
  BY DEF SameLifetime, NeverExpires
<1>2. ASSUME NEW j \in Instance, NEW t \in ServiceSnapshot,
             services' = [services EXCEPT ![j] = t]
      PROVE  /\ services'[j] = t /\ t # Absent
             /\ k # j => services'[k] = services[k]
  BY <1>0, <1>2, PacketAssumption DEF DataOK
<1>3. CASE HandlePTR(l)
  <2> DEFINE t == ApplyPTR(Stored(rr.target), rr, now)
  <2>1. /\ pc[l] = "applying" /\ rr \in PTR /\ rr \notin SRV /\ rr \notin TXT
        /\ rr.target \in Instance
        /\ services' = [services EXCEPT ![rr.target] = t]
    BY <1>3, RecordTypes DEF HandlePTR
  <2>2. Stored(rr.target) \in ServiceSnapshot
    BY <1>0, <2>1, StoredFacts
  <2>3. t \in ServiceSnapshot /\ Dated(t, now, rr.ttl)
    BY <1>0, <2>1, <2>2, ApplyPTRFacts, ApplyDates DEF Applied
  <2>4. Dates(rr, k) <=> k = rr.target
    BY <2>1 DEF Dates, About
  <2> HIDE DEF t
  <2> QED
    BY <1>1, <1>2, <2>1, <2>3, <2>4
<1>4. CASE HandleSRV(l)
  <2> DEFINE t == ApplySRV(Stored(rr.owner), rr, now)
  <2>1. /\ pc[l] = "applying" /\ rr \in SRV /\ rr \notin PTR /\ rr \notin TXT
        /\ rr.owner \in Instance
        /\ services' = [services EXCEPT ![rr.owner] = t]
    BY <1>4, RecordTypes DEF HandleSRV
  <2>2. Stored(rr.owner) \in ServiceSnapshot
    BY <1>0, <2>1, StoredFacts
  <2>3. t \in ServiceSnapshot /\ Dated(t, now, rr.ttl)
    BY <1>0, <2>1, <2>2, ApplySRVFacts, ApplyDates DEF Applied
  <2>4. Dates(rr, k) <=> k = rr.owner
    BY <2>1 DEF Dates, About
  <2> HIDE DEF t
  <2> QED
    BY <1>1, <1>2, <2>1, <2>3, <2>4
<1>5. CASE HandleTXT(l)
  <2> DEFINE s == Stored(rr.owner)
             t == ApplyTXT(s, rr, now)
  <2>1. /\ pc[l] = "applying" /\ rr \in TXT /\ rr \notin PTR /\ rr \notin SRV
        /\ rr.owner \in Instance
        /\ services' = [services EXCEPT ![rr.owner] = t]
    BY <1>5, RecordTypes DEF HandleTXT
  <2>2. /\ s \in ServiceSnapshot
        /\ services[rr.owner] # Absent => s = services[rr.owner]
        /\ services[rr.owner] = Absent => s.expiresAt = NoTime
    BY <1>0, <2>1, StoredFacts DEF ZeroService
  <2>3. /\ t \in ServiceSnapshot
        /\ IF rr.ttl = 0
             THEN t.ttl = s.ttl /\ t.expiresAt = s.expiresAt /\ t.goodbye = s.goodbye
             ELSE Dated(t, now, rr.ttl)
    BY <1>0, <2>1, <2>2, ApplyTXTFacts, ApplyDates DEF Applied
  <2>4. Dates(rr, k) <=> k = rr.owner /\ rr.ttl # 0
    BY <2>1 DEF Dates, About
  <2> HIDE DEF s, t
  <2>5. CASE rr.ttl = 0 /\ k = rr.owner
    <3>1. services'[k] = t /\ t # Absent
      BY <1>2, <2>1, <2>3, <2>5
    <3>2. SameLifetime(k)
      BY <2>2, <2>3, <2>5, <3>1 DEF SameLifetime, NeverExpires
    <3> QED
      BY <2>4, <2>5, <3>2
  <2>6. CASE ~(rr.ttl = 0 /\ k = rr.owner)
    BY <1>1, <1>2, <2>1, <2>3, <2>4, <2>6
  <2> QED
    BY <2>5, <2>6
<1>6. CASE HandleMeta(l) \/ HandleAddr(l) \/ HandleIgnored(l) \/ MarkTarget(l)
  <2>1. services' = services
    BY <1>6 DEF HandleMeta, HandleAddr, HandleIgnored, MarkTarget, registry
  <2>2. ~(pc[l] = "applying" /\ Dates(rr, k))
    <3>1. CASE MarkTarget(l)
      BY <3>1 DEF MarkTarget
    <3>2. CASE HandleMeta(l) \/ HandleAddr(l) \/ HandleIgnored(l)
      <4>1. rr \in META \cup ADDR \cup IGNORED
        BY <3>2 DEF HandleMeta, HandleAddr, HandleIgnored
      <4> QED
        BY <4>1, RecordTypes DEF Dates, About
    <3> QED
      BY <1>6, <3>1, <3>2
  <2> QED
    BY <1>1, <2>1, <2>2
<1> QED
  BY <1>3, <1>4, <1>5, <1>6 DEF ApplyRR

Told(k) == IF NeverExpires(k) THEN Undated(k) ELSE \E l \in Listener : NewestOf(l, k)

\* A record that dates the instance makes its listener the one with the newest word; the
\* others are quiet steps.
LEMMA ApplyTold ==
    ASSUME TypeOK, NEW l \in Listener, cur[l].time \in 1 .. clock, ApplyRR(l),
           NEW k \in Instance, Told(k)
    PROVE  Told(k)'
<1>1. /\ cur' = cur /\ stream' = stream /\ pc[l] \in {"applying", "marking"}
      /\ pos[l] \in Nat \ {0}
      /\ Done(l) = IF pc[l] = "marking" THEN pos[l] ELSE pos[l] - 1
      /\ Done(l)' = pos[l]
      /\ \A m \in Listener : m # l => Done(m)' = Done(m)
  BY ApplyDone
<1>2. pos[l] - 1 \in Nat /\ (pos[l] - 1) + 1 = pos[l]
  BY <1>1
<1>3. Current(l) = cur[l].records[pos[l]]
  BY DEF Current
<1>4. CASE pc[l] = "applying" /\ Dates(Current(l), k)
  <2>1. /\ services'[k] # Absent
        /\ Dated(services'[k], cur[l].time, Current(l).ttl)
    BY <1>4, ApplyLifetime
  <2>2. Gives(services'[k], cur[l], pos[l], k)
    BY <1>2, <1>3, <1>4, <2>1, OneMore
  <2>3. Gives(services'[k], cur'[l], Done(l)', k)
    BY <1>1, <2>2
  <2>4. NewestOf(l, k)'
    BY <2>3 DEF NewestOf
  <2>5. ~NeverExpires(k)'
    <3>1. services'[k].expiresAt = cur[l].time + Current(l).ttl
      BY <2>1 DEF Dated
    <3>2. Current(l) \in RR
      BY <1>4, InFlight
    <3>3. Current(l).ttl \in Nat
      BY <3>2, RecordTypes DEF RR, TTL
    <3>4. cur[l].time \in Nat /\ cur[l].time > 0
      BY TypeOK DEF TypeOK, Time
    <3>5. services'[k].expiresAt # NoTime
      BY <3>1, <3>3, <3>4 DEF NoTime
    <3> QED
      BY <2>1, <3>5 DEF NeverExpires
  <2> QED
    BY <2>4, <2>5 DEF Told
<1>5. CASE ~(pc[l] = "applying" /\ Dates(Current(l), k))
  <2>1. SameLifetime(k)
    BY <1>5, ApplyLifetime
  <2>2. ASSUME NEW m \in Listener
        PROVE  /\ Silent(cur[m], Done(m), k) => Silent(cur'[m], Done(m)', k)
               /\ \A s : Gives(s, cur[m], Done(m), k) => Gives(s, cur'[m], Done(m)', k)
    <3>1. CASE m # l \/ pc[l] = "marking"
      <4>1. cur'[m] = cur[m] /\ Done(m)' = Done(m)
        BY <1>1, <3>1
      <4> QED
        BY <4>1
    <3>2. CASE m = l /\ pc[l] = "applying"
      <4>1. Done(l) = pos[l] - 1 /\ Done(l)' = pos[l] /\ cur'[l] = cur[l]
        BY <1>1, <3>2
      <4>2. ~Dates(cur[l].records[(pos[l] - 1) + 1], k)
        BY <1>2, <1>3, <1>5, <3>2
      <4>3. /\ Silent(cur[l], pos[l] - 1, k) => Silent(cur[l], (pos[l] - 1) + 1, k)
            /\ \A s : Gives(s, cur[l], pos[l] - 1, k)
                        => Gives(s, cur[l], (pos[l] - 1) + 1, k)
        BY <1>2, <4>2, OneMore
      <4> QED
        BY <1>2, <3>2, <4>1, <4>3
    <3> QED
      BY <1>1, <3>1, <3>2
  <2> QED
    BY <1>1, <2>1, <2>2, QuietStep DEF Told
<1> QED
  BY <1>4, <1>5

\* The event that is published was the newest of its listener, and of no other.
LEMMA PublishTold ==
    ASSUME TypeOK, OwnEvents, NEW l \in Listener, Publish(l), NEW k \in Instance, Told(k)
    PROVE  Told(k)'
<1> DEFINE n == Len(stream)
           e == cur[l]
<1>1. /\ pc[l] = "publishing" /\ services' = services
      /\ stream \in Seq(Event) /\ n \in Nat
      /\ stream' = Append(stream, e) /\ e \in Event /\ e.iface = l
      /\ pc'[l] = "reading"
      /\ \A m \in Listener : m # l =>
           pc'[m] = pc[m] /\ cur'[m] = cur[m] /\ pos'[m] = pos[m]
  <2>1. pc[l] = "publishing" /\ services' = services /\ stream' = Append(stream, e)
    BY DEF Publish, registry
  <2>2. stream \in Seq(Event) /\ n \in Nat
    BY DEF TypeOK
  <2>3. cur[l] # Idle /\ e \in Event /\ e.iface = l
    BY <2>1, TypeOK DEF TypeOK, OwnEvents
  <2>4. /\ pc'[l] = "reading"
        /\ \A m \in Listener : m # l =>
             pc'[m] = pc[m] /\ cur'[m] = cur[m] /\ pos'[m] = pos[m]
    BY DEF Publish, TypeOK
  <2> QED
    BY <2>1, <2>2, <2>3, <2>4
<1>2. Done(l) = Len(e.records) /\ Done(l)' = 0
  BY <1>1, DoneIs, DoneIsNext
<1>3. \A m \in Listener : m # l => Done(m)' = Done(m)
  BY <1>1 DEF Done
<1>4. /\ DOMAIN stream = 1 .. n /\ DOMAIN stream' = 1 .. n + 1
      /\ \A i \in 1 .. n : stream'[i] = stream[i]
      /\ stream'[n + 1] = e
  BY <1>1
<1> HIDE DEF n, e
<1>5. /\ Of(l, stream') = Of(l, stream) \cup {n + 1}
      /\ \A m \in Listener : m # l => Of(m, stream') = Of(m, stream)
      /\ \A m \in Listener : Of(m, stream) \subseteq 1 .. n
  BY <1>1, <1>4 DEF Of
<1>6. /\ NeverExpires(k)' <=> NeverExpires(k)
      /\ services'[k] = services[k]
  BY <1>1 DEF NeverExpires
<1>7. Silent(cur'[l], 0, k)
  BY DEF Silent
<1>8. CASE NeverExpires(k)
  <2>1. Undated(k)
    BY <1>8 DEF Told
  <2>2. \A m \in Listener : Silent(cur'[m], Done(m)', k)
    BY <1>1, <1>2, <1>3, <1>7, <2>1 DEF Undated
  <2>3. Silent(e, Len(e.records), k)
    BY <1>2, <2>1 DEF Undated, e
  <2>4. \A i \in DOMAIN stream' : Silent(stream'[i], Len(stream'[i].records), k)
    <3> SUFFICES ASSUME NEW i \in DOMAIN stream'
                 PROVE  Silent(stream'[i], Len(stream'[i].records), k)
      OBVIOUS
    <3>1. CASE i = n + 1
      BY <1>4, <2>3, <3>1
    <3>2. CASE i # n + 1
      <4>1. i \in 1 .. n
        BY <1>1, <1>4, <3>2
      <4> QED
        BY <1>4, <2>1, <4>1 DEF Undated
    <3> QED
      BY <3>1, <3>2
  <2>5. Undated(k)'
    BY <2>2, <2>4 DEF Undated
  <2> QED
    BY <1>6, <1>8, <2>5 DEF Told
<1>9. CASE ~NeverExpires(k)
  <2>1. PICK m \in Listener : NewestOf(m, k)
    BY <1>9 DEF Told
  <2>2. CASE m # l
    <3>1. /\ cur'[m] = cur[m] /\ Done(m)' = Done(m)
          /\ Of(m, stream') = Of(m, stream)
          /\ \A i \in Of(m, stream) : stream'[i] = stream[i]
      BY <1>1, <1>3, <1>4, <1>5, <2>2
    <3>2. NewestOf(m, k)'
      BY <1>6, <2>1, <3>1 DEF NewestOf
    <3> QED
      BY <1>6, <1>9, <3>2 DEF Told
  <2>3. CASE m = l /\ Gives(services[k], e, Len(e.records), k)
    <3>1. /\ n + 1 \in Of(l, stream')
          /\ Gives(services'[k], stream'[n + 1], Len(stream'[n + 1].records), k)
      BY <1>4, <1>5, <1>6, <2>3
    <3>2. \A j \in Of(l, stream') : ~(n + 1 < j)
      BY <1>1, <1>5
    <3>3. Silent(cur'[l], Done(l)', k)
      BY <1>2, <1>7
    <3>4. NewestOf(l, k)'
      BY <3>1, <3>2, <3>3 DEF NewestOf
    <3> QED
      BY <1>6, <1>9, <3>4 DEF Told
  <2>4. CASE m = l /\ ~Gives(services[k], e, Len(e.records), k)
    <3>1. /\ Silent(e, Len(e.records), k)
          /\ \E i \in Of(l, stream) :
               /\ Gives(services[k], stream[i], Len(stream[i].records), k)
               /\ \A j \in Of(l, stream) :
                    i < j => Silent(stream[j], Len(stream[j].records), k)
      BY <1>2, <2>1, <2>4 DEF NewestOf, e
    <3>2. PICK i \in Of(l, stream) :
            /\ Gives(services[k], stream[i], Len(stream[i].records), k)
            /\ \A j \in Of(l, stream) :
                 i < j => Silent(stream[j], Len(stream[j].records), k)
      BY <3>1
    <3>3. i \in Of(l, stream') /\ stream'[i] = stream[i]
      BY <1>4, <1>5
    <3>4. ASSUME NEW j \in Of(l, stream'), i < j
          PROVE  Silent(stream'[j], Len(stream'[j].records), k)
      <4>1. CASE j = n + 1
        BY <1>4, <3>1, <4>1
      <4>2. CASE j # n + 1
        <5>1. j \in Of(l, stream) /\ stream'[j] = stream[j]
          BY <1>4, <1>5, <4>2
        <5> QED
          BY <3>2, <3>4, <5>1
      <4> QED
        BY <4>1, <4>2
    <3>5. Silent(cur'[l], Done(l)', k)
      BY <1>2, <1>7
    <3>6. Gives(services'[k], stream'[i], Len(stream'[i].records), k)
      BY <1>6, <3>2, <3>3
    <3>7. NewestOf(l, k)'
      BY <3>3, <3>4, <3>5, <3>6 DEF NewestOf
    <3> QED
      BY <1>6, <1>9, <3>7 DEF Told
  <2> QED
    BY <2>2, <2>3, <2>4
<1> QED
  BY <1>8, <1>9

\* The others neither touch the services nor apply a record.
LEMMA ToldStep ==
    ASSUME TypeOK, Timed, OwnEvents, NEW k \in Instance, Told(k), [Next]_vars
    PROVE  Told(k)'
<1>1. ASSUME services' = services, stream' = stream,
             \A m \in Listener : \/ cur'[m] = cur[m] /\ Done(m)' = Done(m)
                                 \/ Done(m) = 0 /\ Done(m)' = 0
      PROVE  Told(k)'
  <2>1. SameLifetime(k)
    BY <1>1 DEF SameLifetime, NeverExpires
  <2>2. \A e, s : Silent(e, 0, k) /\ ~Gives(s, e, 0, k)
    BY DEF Silent, Gives
  <2>3. \A m \in Listener :
          /\ Silent(cur[m], Done(m), k) => Silent(cur'[m], Done(m)', k)
          /\ \A s : Gives(s, cur[m], Done(m), k) => Gives(s, cur'[m], Done(m)', k)
    BY <1>1, <2>2
  <2> QED
    BY <1>1, <2>1, <2>3, QuietStep DEF Told
<1>2. CASE Tick \/ UNCHANGED vars
  <2>1. /\ services' = services /\ stream' = stream /\ cur' = cur
        /\ pc' = pc /\ pos' = pos
    BY <1>2 DEF Tick, vars, registry
  <2>2. \A m \in Listener : Done(m)' = Done(m)
    BY <2>1 DEF Done
  <2> QED
    BY <1>1, <2>1, <2>2
<1>3. ASSUME NEW l \in Listener, (\E p \in Packet : Receive(l, p)) \/ ReadError(l)
      PROVE  Told(k)'
  <2>1. /\ services' = services /\ stream' = stream /\ pc[l] = "reading"
        /\ \A m \in Listener : m # l =>
             pc'[m] = pc[m] /\ cur'[m] = cur[m] /\ pos'[m] = pos[m]
        /\ \/ pc'[l] = pc[l]
           \/ pc'[l] = "ended"
           \/ pc'[l] = "applying" /\ pos'[l] = 1
    BY <1>3 DEF Receive, ReadError, TypeOK, registry
  <2>2. Done(l) = 0 /\ Done(l)' = 0
    <3>1. Done(l) = 0
      BY <2>1, DoneIs
    <3>2. Done(l)' = 0
      BY <2>1, DoneIsNext
    <3> QED
      BY <3>1, <3>2
  <2>3. \A m \in Listener : m # l => Done(m)' = Done(m)
    BY <2>1 DEF Done
  <2> QED
    BY <1>1, <2>1, <2>2, <2>3
<1>4. ASSUME NEW l \in Listener, ApplyRR(l)
      PROVE  Told(k)'
  <2>1. cur[l].time \in 1 .. clock
    BY <1>4, ApplyFrame, InFlight, PacketAssumption DEF Timed
  <2> QED
    BY <1>4, <2>1, ApplyTold
<1>5. ASSUME NEW l \in Listener, Record(l)
      PROVE  Told(k)'
  <2>1. /\ services' = services /\ stream' = stream /\ cur' = cur /\ pos' = pos
        /\ pc[l] = "recording" /\ pc'[l] = "publishing"
        /\ \A m \in Listener : m # l => pc'[m] = pc[m]
    BY <1>5 DEF Record, TypeOK, registry
  <2>2. \A m \in Listener : Done(m)' = Done(m)
    BY <2>1 DEF Done
  <2> QED
    BY <1>1, <2>1, <2>2
<1>6. ASSUME NEW l \in Listener, Publish(l)
      PROVE  Told(k)'
  BY <1>6, PublishTold
<1> QED
  BY <1>2, <1>3, <1>4, <1>5, <1>6 DEF Next, HandleDNS

\* For every number of sockets, every packets and TTLs: an instance expires when the
\* newest record of some socket says, and has no expiry only as long as no record
\* announced or withdrew it.
THEOREM LifetimesAreHeard == Spec => []LifetimeHeard
<1> DEFINE Inv == \A k \in Instance : Told(k)
<1>1. Inv <=> LifetimeHeard
  BY DEF Told, LifetimeHeard
<1>2. Init => Inv /\ OwnEvents
  <2> SUFFICES ASSUME Init PROVE Inv /\ OwnEvents
    OBVIOUS
  <2>1. OwnEvents
    BY DEF Init, OwnEvents
  <2>2. ASSUME NEW k \in Instance PROVE Told(k)
    <3>1. NeverExpires(k)
      BY DEF Init, NeverExpires
    <3>2. \A l \in Listener : Silent(cur[l], Done(l), k)
      BY DEF Init, Done, Silent
    <3>3. DOMAIN stream = {}
      BY DEF Init
    <3> QED
      BY <3>1, <3>2, <3>3 DEF Told, Undated
  <2> QED
    BY <2>1, <2>2
<1>3. IInv /\ Inv /\ OwnEvents /\ [Next]_vars => Inv' /\ OwnEvents'
  <2> SUFFICES ASSUME IInv, Inv, OwnEvents, [Next]_vars PROVE Inv' /\ OwnEvents'
    OBVIOUS
  <2>1. TypeOK /\ Timed
    BY DEF IInv, AppliedReflected, AppliedAt, Timed
  <2>2. ASSUME NEW k \in Instance PROVE Told(k)'
    BY <2>1, ToldStep
  <2>3. OwnEvents'
    BY <2>1, OwnEventsStep
  <2> QED
    BY <2>2, <2>3
<1> HIDE DEF Inv
<1> QED
  BY <1>1, <1>2, <1>3, Invariance, PTL DEF Spec

=============================================================================
