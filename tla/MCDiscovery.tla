---------------------------- MODULE MCDiscovery ----------------------------
(***************************************************************************)
(* A small link for TLC: one instance of one type that moves between two   *)
(* hosts, and the packets about it.                                        *)
(***************************************************************************)
EXTENDS Discovery

CONSTANTS inst, type, h1, h2, attr, ip

Ptr(ttl) == [rtype |-> "PTR", owner |-> type, target |-> inst, ttl |-> ttl]
Meta == [rtype |-> "META", target |-> type, ttl |-> 1]
Srv(h, ttl) == [rtype |-> "SRV", owner |-> inst, target |-> h, ttl |-> ttl]
Txt(ttl) == [rtype |-> "TXT", owner |-> inst, attrs |-> {attr}, ttl |-> ttl]
Addr(h, ttl) == [rtype |-> "ADDR", owner |-> h, ip |-> ip, ttl |-> ttl]
Opt == [rtype |-> "IGNORED", ttl |-> 0]

MCInferredType == [k \in {inst} |-> type]

\* An announcement of everything, a move to the other host with a shorter TTL,
\* goodbyes of each type, and a query.
Packets == { <<Ptr(2), Srv(h1, 2), Txt(1), Addr(h1, 2)>>,
             <<Srv(h2, 1), Opt>>,
             <<Ptr(0)>>,
             <<Txt(0), Addr(h1, 0)>>,
             <<Meta>>,
             << >> }

\* Membership brings the fields of a record into order, once, before the workers of
\* TLC share it.
WellFormed(packets) == {p \in packets : p \in Seq(RR)}

MCPacket == WellFormed(Packets)

\* For the run that needs one packet.
LongAnnouncement == WellFormed({ <<Ptr(10)>> })

=============================================================================
