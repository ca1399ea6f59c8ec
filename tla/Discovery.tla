----------------------------- MODULE Discovery -----------------------------
(***************************************************************************)
(* The discovery engine (internal/discovery/engine.go) at work: one        *)
(* goroutine per multicast socket (internal/listener/listener.go) reads a  *)
(* packet, applies its records to the shared registry one lock acquisition *)
(* at a time, adds the event to the history ring and publishes it to the   *)
(* subscribers of the stream.  Time passes between any two steps, and each *)
(* goroutine works with the time it read when its packet arrived.          *)
(*                                                                         *)
(* The history is the abstract log that EventRing implements; the stream   *)
(* is what a subscriber connected from the start receives (HubFanout looks *)
(* inside Publish).                                                        *)
(***************************************************************************)
EXTENDS ServiceRecord, Sequences

CONSTANTS
    Listener,       \* the sockets: interface names with @ipv4 or @ipv6
    Ip,             \* addresses of A and AAAA records
    Packet,         \* the packets on the link: answers, authority and extra records
    Absent,         \* a key the registry does not have
    Idle,           \* the event of a listener that handles none
    Cap,            \* capacity of the history ring, already clamped
    MaxTime,        \* bound: the clock stops here
    MaxPackets      \* bound: packets received by all listeners together

ADDR  == [rtype : {"ADDR"}, owner : Host \cup {NoHost}, ip : Ip, ttl : TTL]
IGNORED == [rtype : {"IGNORED"}, ttl : TTL]    \* NSEC, OPT, ...
RR == PTR \cup META \cup SRV \cup TXT \cup ADDR \cup IGNORED

HostSnapshot == [ips : SUBSET Ip]

EventKind == {"announce", "goodbye", "update"}
Event == [time : Time, kind : EventKind, iface : Listener, records : Seq(RR)]

ASSUME PacketAssumption ==
    /\ Packet \subseteq Seq(RR)
    /\ Absent \notin ServiceSnapshot
    /\ Absent \notin HostSnapshot
    /\ Idle \notin Event

ASSUME BoundAssumption ==
    /\ Cap \in Nat \ {0}
    /\ MaxTime \in Nat
    /\ MaxPackets \in Nat

VARIABLES
    clock,          \* the wall clock
    received,       \* packets read so far (counts up to MaxPackets)
    services,       \* Registry.services
    hosts,          \* Registry.hosts
    seenTypes,      \* Engine.seenTypes: when a type was last enumerated
    pc,             \* what each listener does next
    cur,            \* the event each listener is handling
    pos,            \* the index of the record it applies next
    log,            \* the history ring, oldest event first
    stream          \* the events published, in order

registry == <<services, hosts, seenTypes>>
vars == <<clock, received, registry, pc, cur, pos, log, stream>>

Log == INSTANCE EventLog WITH retained <- log, response <- << >>

-----------------------------------------------------------------------------
\* The kind of an event depends on the TTLs of all its records, those the
\* graph ignores (an OPT pseudo-record, say) included.
KindOf(records) ==
    LET zero == \E i \in DOMAIN records : records[i].ttl = 0
        positive == \E i \in DOMAIN records : records[i].ttl # 0
    IN  IF ~positive THEN "goodbye"
        ELSE IF ~zero THEN "announce"
        ELSE "update"

EventOf(l, p, now) ==
    [time |-> now, kind |-> KindOf(p), iface |-> l, records |-> p]

\* UpsertService hands its closure a zero record for an unknown key.
Stored(key) == IF services[key] = Absent THEN ZeroService ELSE services[key]

\* Mutant: a host that is already known is overwritten.
MarkHostAfresh(h, ips) ==
    hosts' = IF h = NoHost THEN hosts
             ELSE [hosts EXCEPT ![h] = [ips |-> ips]]

\* Mutant: a call without addresses returns early.
MarkHostWithAddresses(h, ips) ==
    hosts' = IF h = NoHost \/ ips = {} THEN hosts
             ELSE [hosts EXCEPT ![h] =
                     [ips |-> IF @ = Absent THEN ips ELSE @.ips \cup ips]]

\* MarkHost: remember the host and the addresses it did not have yet.  The
\* empty name is ignored.
MarkHost(h, ips) ==
    hosts' = IF h = NoHost THEN hosts
             ELSE [hosts EXCEPT ![h] =
                     [ips |-> IF @ = Absent THEN ips ELSE @.ips \cup ips]]

\* The record a listener applies next.
Current(l) == cur[l].records[pos[l]]

\* Mutant: the loop runs one record too far.
AdvanceTooFar(l) ==
    /\ pos' = [pos EXCEPT ![l] = @ + 1]
    /\ pc' = [pc EXCEPT ![l] =
                IF pos[l] <= Len(cur[l].records) THEN "applying" ELSE "recording"]

\* After a record: the next one, or the history when there is none left.
Advance(l) ==
    /\ pos' = [pos EXCEPT ![l] = @ + 1]
    /\ pc' = [pc EXCEPT ![l] =
                IF pos[l] < Len(cur[l].records) THEN "applying" ELSE "recording"]

-----------------------------------------------------------------------------
Init ==
    /\ clock = 1
    /\ received = 0
    /\ services = [k \in Instance |-> Absent]
    /\ hosts = [h \in Host |-> Absent]
    /\ seenTypes = [t \in ServiceType |-> NoTime]
    /\ pc = [l \in Listener |-> "reading"]
    /\ cur = [l \in Listener |-> Idle]
    /\ pos = [l \in Listener |-> 1]
    /\ log = << >>
    /\ stream = << >>

Tick ==
    /\ clock < MaxTime
    /\ clock' = clock + 1
    /\ UNCHANGED <<received, registry, pc, cur, pos, log, stream>>

\* A listener reads a packet and HandleDNS takes the time.  A packet without
\* records (a query) is dropped.
Receive(l, p) ==
    /\ pc[l] = "reading"
    /\ received < MaxPackets
    /\ received' = received + 1
    /\ IF p = << >>
         THEN UNCHANGED <<pc, cur, pos>>
         ELSE /\ cur' = [cur EXCEPT ![l] = EventOf(l, p, clock)]
              /\ pos' = [pos EXCEPT ![l] = 1]
              /\ pc' = [pc EXCEPT ![l] = "applying"]
    /\ UNCHANGED <<clock, registry, log, stream>>

\* ReadFrom fails for another reason than its 750 ms deadline: the goroutine
\* logs the error and ends, and nothing starts it again.
ReadError(l) ==
    /\ pc[l] = "reading"
    /\ pc' = [pc EXCEPT ![l] = "ended"]
    /\ UNCHANGED <<clock, received, registry, cur, pos, log, stream>>

\* applyRR on a PTR record: one UpsertService.
HandlePTR(l) ==
    /\ pc[l] = "applying"
    /\ Current(l) \in PTR
    /\ services' = [services EXCEPT ![Current(l).target] =
                      ApplyPTR(Stored(Current(l).target), Current(l), cur[l].time)]
    /\ Advance(l)
    /\ UNCHANGED <<clock, received, hosts, seenTypes, cur, log, stream>>

\* A PTR record of the service enumeration, whatever its TTL.
HandleMeta(l) ==
    /\ pc[l] = "applying"
    /\ Current(l) \in META
    /\ seenTypes' = [seenTypes EXCEPT ![Current(l).target] = cur[l].time]
    /\ Advance(l)
    /\ UNCHANGED <<clock, received, services, hosts, cur, log, stream>>

\* An SRV record: one UpsertService and, unless it is a goodbye, a MarkHost for
\* which the registry is locked anew (the next step of this listener).
HandleSRV(l) ==
    /\ pc[l] = "applying"
    /\ Current(l) \in SRV
    /\ services' = [services EXCEPT ![Current(l).owner] =
                      ApplySRV(Stored(Current(l).owner), Current(l), cur[l].time)]
    /\ IF Current(l).ttl = 0
         THEN Advance(l)
         ELSE /\ pc' = [pc EXCEPT ![l] = "marking"]
              /\ UNCHANGED pos
    /\ UNCHANGED <<clock, received, hosts, seenTypes, cur, log, stream>>

MarkTarget(l) ==
    /\ pc[l] = "marking"
    /\ MarkHost(Current(l).target, {})
    /\ Advance(l)
    /\ UNCHANGED <<clock, received, services, seenTypes, cur, log, stream>>

HandleTXT(l) ==
    /\ pc[l] = "applying"
    /\ Current(l) \in TXT
    /\ services' = [services EXCEPT ![Current(l).owner] =
                      ApplyTXT(Stored(Current(l).owner), Current(l), cur[l].time)]
    /\ Advance(l)
    /\ UNCHANGED <<clock, received, hosts, seenTypes, cur, log, stream>>

\* A and AAAA records: a goodbye is ignored.
HandleAddr(l) ==
    /\ pc[l] = "applying"
    /\ Current(l) \in ADDR
    /\ IF Current(l).ttl = 0
         THEN UNCHANGED hosts
         ELSE MarkHost(Current(l).owner, {Current(l).ip})
    /\ Advance(l)
    /\ UNCHANGED <<clock, received, services, seenTypes, cur, log, stream>>

\* The other types are kept in the event but not in the graph.
HandleIgnored(l) ==
    /\ pc[l] = "applying"
    /\ Current(l) \in IGNORED
    /\ Advance(l)
    /\ UNCHANGED <<clock, received, registry, cur, log, stream>>

\* Mutant: a history that is full stays as it is.
RecordUntilFull(l) ==
    /\ pc[l] = "recording"
    /\ log' = IF Len(log) < Cap THEN Append(log, cur[l]) ELSE log
    /\ pc' = [pc EXCEPT ![l] = "publishing"]
    /\ UNCHANGED <<clock, received, registry, cur, pos, stream>>

\* ring.Add
Record(l) ==
    /\ pc[l] = "recording"
    /\ log' = Log!Newest(Append(log, cur[l]))
    /\ pc' = [pc EXCEPT ![l] = "publishing"]
    /\ UNCHANGED <<clock, received, registry, cur, pos, stream>>

\* hub.Publish; the goroutine then reads the next packet.
Publish(l) ==
    /\ pc[l] = "publishing"
    /\ stream' = Append(stream, cur[l])
    /\ pc' = [pc EXCEPT ![l] = "reading"]
    /\ cur' = [cur EXCEPT ![l] = Idle]
    /\ pos' = [pos EXCEPT ![l] = 1]
    /\ UNCHANGED <<clock, received, registry, log>>

ApplyRR(l) ==
    \/ HandlePTR(l)
    \/ HandleMeta(l)
    \/ HandleSRV(l)
    \/ MarkTarget(l)
    \/ HandleTXT(l)
    \/ HandleAddr(l)
    \/ HandleIgnored(l)

\* The rest of HandleDNS once a packet has been read.
HandleDNS(l) == ApplyRR(l) \/ Record(l) \/ Publish(l)

Next ==
    \/ Tick
    \/ \E l \in Listener :
         \/ \E p \in Packet : Receive(l, p)
         \/ ReadError(l)
         \/ HandleDNS(l)

Spec == Init /\ [][Next]_vars

-----------------------------------------------------------------------------
\* The shape of the state; the time and the kind of an event in flight, and how
\* far its listener has come.
TypeOK ==
    /\ clock \in Time \ {NoTime}
    /\ received \in Nat
    /\ services \in [Instance -> ServiceSnapshot \cup {Absent}]
    /\ hosts \in [Host -> HostSnapshot \cup {Absent}]
    /\ seenTypes \in [ServiceType -> Time]
    /\ pc \in [Listener ->
         {"reading", "applying", "marking", "recording", "publishing", "ended"}]
    /\ cur \in [Listener -> Event \cup {Idle}]
    /\ pos \in [Listener -> Nat \ {0}]
    /\ log \in Seq(Event)
    /\ stream \in Seq(Event)
    /\ \A l \in Listener :
         /\ cur[l] = Idle <=> pc[l] \in {"reading", "ended"}
         /\ pc[l] \in {"applying", "marking"} => pos[l] \in DOMAIN cur[l].records
         /\ pc[l] = "marking" => Current(l) \in SRV

Known == {k \in Instance : services[k] # Absent}

\* Where the events of a listener are in a sequence of events.
Of(l, events) == {i \in DOMAIN events : events[i].iface = l}

\* The lifetime of what is known is consistent: of an instance that was announced or
\* withdrawn the expiry lies at most the longest TTL it ever announced ahead, one known
\* by TXT goodbyes alone has none, and nothing is dated in the future (applyPTR,
\* applySRV and applyTXT with a time read before the lock).
LifetimeBounded == \A k \in Known : Bounded(services[k], clock)

\* How many records of its event a listener has applied to the services.
Done(l) ==
    CASE pc[l] = "applying" -> pos[l] - 1
      [] pc[l] = "marking" -> pos[l]
      [] pc[l] \in {"recording", "publishing"} -> Len(cur[l].records)
      [] OTHER -> 0

\* The instance a record is about.
About(rr, k) ==
    \/ rr \in PTR /\ rr.target = k
    \/ rr \in SRV \cup TXT /\ rr.owner = k

\* All of these but a TXT goodbye say when the instance expires.
Dates(rr, k) == About(rr, k) /\ ~(rr \in TXT /\ rr.ttl = 0)

Silent(e, n, k) == \A i \in 1 .. n : ~Dates(e.records[i], k)

\* The lifetime of s is what the last of the first n records of e says of k.
Gives(s, e, n, k) ==
    \E i \in 1 .. n :
        /\ Dates(e.records[i], k)
        /\ \A j \in i + 1 .. n : ~Dates(e.records[j], k)
        /\ Dated(s, e.time, e.records[i].ttl)

\* The lifetime of k is what the newest record says that l has applied.
NewestOf(l, k) ==
    \/ Gives(services[k], cur[l], Done(l), k)
    \/ /\ Silent(cur[l], Done(l), k)
       /\ \E i \in Of(l, stream) :
            /\ Gives(services[k], stream[i], Len(stream[i].records), k)
            /\ \A j \in Of(l, stream) :
                 i < j => Silent(stream[j], Len(stream[j].records), k)

Undated(k) ==
    /\ \A l \in Listener : Silent(cur[l], Done(l), k)
    /\ \A i \in DOMAIN stream : Silent(stream[i], Len(stream[i].records), k)

NeverExpires(k) == services[k] = Absent \/ services[k].expiresAt = NoTime

\* When an instance expires, and whether it has withdrawn, is what the newest record
\* of some socket says: a packet that waited for the lock overwrites what a later one
\* of another socket has set, but never what its own socket has heard since, and a
\* longer or shorter TTL, a goodbye or a return takes effect at once.  An instance
\* has no expiry as long as there was no such record (a TXT goodbye of an unknown
\* instance makes one that never goes offline).
LifetimeHeard ==
    \A k \in Instance :
        IF NeverExpires(k) THEN Undated(k) ELSE \E l \in Listener : NewestOf(l, k)

\* What is left of a record in the graph once it has been applied.
Heard(key, ttl) ==
    /\ services[key] # Absent
    /\ ttl > 0 => /\ services[key].firstSeen # NoTime
                  /\ services[key].originalTtl >= ttl

HostHeard(h) == h # NoHost => hosts[h] # Absent

Reflected(rr) ==
    /\ rr \in PTR => Heard(rr.target, rr.ttl)
    /\ rr \in META => seenTypes[rr.target] # NoTime
    /\ rr \in SRV => Heard(rr.owner, rr.ttl) /\ (rr.ttl > 0 => HostHeard(rr.target))
    /\ rr \in TXT => /\ Heard(rr.owner, rr.ttl)
                     /\ rr.ttl > 0 => rr.attrs \subseteq services[rr.owner].txt
    /\ rr \in ADDR /\ rr.ttl > 0 /\ rr.owner # NoHost =>
           hosts[rr.owner] # Absent /\ rr.ip \in hosts[rr.owner].ips

EventReflected(e) == \A i \in DOMAIN e.records : Reflected(e.records[i])

\* A client that has seen an event, live or in the history, and then fetches
\* the graph finds every record of the event in it: HandleDNS applies all
\* records before ring.Add and publish, and nothing forgets them (the client
\* reloads the graph when an event arrives).
EventsReflected ==
    /\ \A i \in DOMAIN log : EventReflected(log[i])
    /\ \A i \in DOMAIN stream : EventReflected(stream[i])

\* The inductive invariant: an event in flight is dated, and the records its
\* listener is done with are reflected; of an SRV record whose host is still to
\* be marked, the part about the instance is.
AppliedAt(l) ==
    /\ cur[l] # Idle => cur[l].time \in 1 .. clock
    /\ pc[l] \in {"applying", "marking"} =>
          \A i \in 1 .. pos[l] - 1 : Reflected(cur[l].records[i])
    /\ pc[l] = "marking" => Heard(Current(l).owner, Current(l).ttl)
    /\ pc[l] \in {"recording", "publishing"} => EventReflected(cur[l])

AppliedReflected == \A l \in Listener : AppliedAt(l)

\* The host an instance points at is a registered host, except while the
\* goroutine that set it is between UpsertService and MarkHost in applySRV.
TargetKnown ==
    \A k \in Known :
        services[k].targetHost # NoHost =>
            \/ hosts[services[k].targetHost] # Absent
            \/ \E l \in Listener : pc[l] = "marking"
                                   /\ Current(l).target = services[k].targetHost

\* What is published, with what the listener is about to publish.
Published(l) == stream \o (IF pc[l] = "publishing" THEN <<cur[l]>> ELSE << >>)

\* "at" tells where the events of the history are among those published: in the same
\* order, and without a gap from the oldest on, or from the first one published
\* while the history has never been full.
IsTail(l, at) ==
    /\ \A i, j \in Of(l, log) : i < j => at[i] < at[j]
    /\ \A i \in Of(l, log) : Published(l)[at[i]] = log[i]
    /\ \A p \in Of(l, Published(l)) :
         Len(log) < Cap \/ (\E i \in Of(l, log) : at[i] <= p)
           => \E i \in Of(l, log) : at[i] = p

\* For each socket, the history is the tail of what it published, plus the
\* event that is recorded and not yet published: no event is lost, repeated or
\* out of its socket's order in either (ring.Add before publish in HandleDNS).
LiveMatchesHistory ==
    \A l \in Listener : \E at \in [Of(l, log) -> Of(l, Published(l))] : IsTail(l, at)

\* What makes this inductive: a listener handles its own events.
OwnEvents == \A l \in Listener : cur[l] # Idle => cur[l].iface = l

-----------------------------------------------------------------------------
\* The registry keeps every instance, host and enumerated type: Registry has no delete.
Stays ==
    /\ \A k \in Known : services'[k] # Absent
    /\ \A h \in Host : hosts[h] # Absent => hosts'[h] # Absent
    /\ \A t \in ServiceType : seenTypes[t] # NoTime => seenTypes'[t] # NoTime

\* What is known of an instance or a host is not lost while it is kept: the first
\* sighting, the longest TTL and the TXT keys of an instance (through announcements
\* with other TTLs, goodbyes and returns in any order), and the addresses of a host.
\* Whether it should be kept for ever is another matter: -grace-offline, which says
\* for how long, is not read by anything.
Kept ==
    /\ \A k \in Known : services'[k] # Absent => Keeps(services[k], services'[k])
    /\ \A h \in Host : hosts[h] # Absent /\ hosts'[h] # Absent =>
          hosts[h].ips \subseteq hosts'[h].ips

HistoryKept == [][Kept]_vars

\* What makes EventsReflected inductive.
Grows == Stays /\ Kept

IInv == /\ TypeOK
        /\ AppliedReflected
        /\ EventsReflected
        /\ LifetimeBounded
        /\ TargetKnown

State(k) == ServiceState(services[k], clock)

Rank(state) == CASE state = "new" -> 0 [] state = "active" -> 1
                 [] state = "stale" -> 2 [] state = "offline" -> 3

\* An instance only ages, from new over active to offline, and comes back only with
\* a record about it that carries a TTL and changes what is known of it: neither
\* time, nor a goodbye of whatever type, nor a record about another brings it back
\* (deriveServiceState is evaluated anew for every GET /api/v1/graph).
YoungerOnlyByRecord ==
    [][ \A k \in Known :
          Rank(State(k)') < Rank(State(k)) =>
              /\ services'[k] # services[k]
              /\ \E l \in Listener : /\ pc[l] = "applying"
                                     /\ About(Current(l), k)
                                     /\ Current(l).ttl > 0 ]_vars

-----------------------------------------------------------------------------
(* What the repository says of the program and the code does not do.       *)

\* "fade when remaining TTL below this fraction of original"
\* (internal/config/config.go:53), and "Stale (TTL low)" in the legend of the
\* client: an instance whose remaining TTL is below StaleNum / StaleDen of the
\* original one, no longer new and not yet offline, is stale.
StaleWhenLow ==
    \A k \in Known :
        LET s == services[k] IN
        /\ ~Expired(s, clock) /\ ~Fresh(s, clock) /\ s.expiresAt > clock
        /\ (s.expiresAt - clock) * StaleDen < s.originalTtl * StaleNum
        => State(k) = "stale"

\* What the code does instead, at any ratio below 1: nothing is ever stale, because
\* deriveServiceState truncates the ratio before it multiplies.
NeverStale == \A k \in Known : State(k) # "stale"

=============================================================================
