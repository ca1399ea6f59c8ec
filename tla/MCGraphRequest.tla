-------------------------- MODULE MCGraphRequest --------------------------
(***************************************************************************)
(* Every registry of up to three hosts with up to two of three addresses   *)
(* each, two of them known to ARP, and an instance that points at a host.  *)
(***************************************************************************)
EXTENDS GraphRequest

CONSTANTS inst, type, i4, j4, i6, m1, m2

\* The host whose name comes second has the longest name, the others tie.
MCScore == <<1, 2, 1>>

MCMergeKey == (i4 :> i4) @@ (j4 :> j4) @@ (i6 :> i6)

\* One address known, one device at both, two devices.
MCArpTable == {(i4 :> NoMac) @@ (j4 :> m1),
               (i4 :> m1) @@ (j4 :> m1), (i4 :> m1) @@ (j4 :> m2)}

\* The addresses of a host, in the order they were heard.
Heard == {s \in BoundedSeq(Ip, 2) : IsInjective(s)}

MCRegistryHosts ==
    UNION {[D -> [ips : Heard]] : D \in SUBSET Host}

MCRegistryServices ==
    {inst :> [target |-> h, parent |-> type] : h \in Host \cup {NoHost}}

=============================================================================
