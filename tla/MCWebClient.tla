---------------------------- MODULE MCWebClient ----------------------------
(***************************************************************************)
(* At first there is nothing; then an instance is announced at one host,   *)
(* moves to another, and goes offline.                                     *)
(***************************************************************************)
EXTENDS WebClient

CONSTANTS inst, h1, h2, ip1, ip2, lan

Svc == [kind |-> "service", name |-> inst]
Host(h) == [kind |-> "host", name |-> h]
Adv == [kind |-> "advertises", name |-> inst]

SvcData(st) == [state |-> st, type |-> 1, iface |-> lan, label |-> inst,
                ips |-> {}, words |-> {inst}]
HostData(h) == [state |-> "active", type |-> NoType, iface |-> NoIface,
                label |-> h, ips |-> {ip1}, words |-> {h}]

\* The graph with these hosts and the instance in that state at target.
GraphOf(hosts, st, target) ==
    [nodes |-> [n \in {Svc} \cup {Host(h) : h \in hosts} |->
                  IF n = Svc THEN SvcData(st) ELSE HostData(n.name)],
     ends |-> [e \in {Adv} |-> <<Host(target), Svc>>],
     target |-> [i \in {inst} |-> target]]

NoGraph == [nodes |-> << >>, ends |-> << >>, target |-> << >>]

MCGraphs == << NoGraph, GraphOf({h1}, "new", h1), GraphOf({h1, h2}, "active", h2),
               GraphOf({h1, h2}, "offline", h2) >>
MCNews == [v \in 1 .. 4 |-> [src |-> ip2, names |-> IF v = 3 THEN {inst} ELSE {}]]

=============================================================================
