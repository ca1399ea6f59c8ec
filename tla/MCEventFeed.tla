---------------------------- MODULE MCEventFeed ----------------------------
(***************************************************************************)
(* One device, known by its name, an address and another label.            *)
(***************************************************************************)
EXTENDS EventFeed

CONSTANTS h1, nas, ip1, ip2

Dev == [kind |-> "host", name |-> h1]
MCGraph == [nodes |-> [n \in {Dev} |-> [state |-> "active", type |-> NoType, iface |-> NoIface,
                                         label |-> nas, ips |-> {ip1}, words |-> {h1}]],
            ends |-> << >>, target |-> << >>]
MCHosts == [h \in {h1} |-> [displayLabel |-> nas, aliases |-> {}]]

=============================================================================
