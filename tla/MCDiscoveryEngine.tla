------------------------- MODULE MCDiscoveryEngine -------------------------
(***************************************************************************)
(* Small networks for DiscoveryEngine.  Two addresses are in the scanned   *)
(* subnets, "c" never is; two MAC addresses, two names.                    *)
(***************************************************************************)
EXTENDS DiscoveryLog

CONSTANTS a, b, c, m1, m2, n1, n2

MCIp   == {a, b, c}
MCMac  == {m1, m2}
MCName == {n1, n2}

Report(hostname, mac)     == [hostname |-> hostname, mac |-> mac]
System(hostname, descr)   == [hostname |-> hostname, description |-> descr]
Arp(ip, mac)              == [ip |-> ip, mac |-> mac]
Fdb(mac, learned)         == [mac |-> mac, learned |-> learned]
Lldp(addresses, ip, mac, name) ==
  [addresses |-> addresses, chassisAddress |-> ip, chassisMac |-> mac, sysName |-> name]

ShippedPolicy == [k \in {"arp_neighbor", "connected_to", "bridge_fdb"} |-> "multiple"]

-----------------------------------------------------------------------------
(* Overlap: two scans of one address that may disagree, then the system     *)
(* group; the ARP category allows a single neighbour.                       *)
OverlapSubnets == <<{a, b}, {b}>>
OverlapReports == {Report(None, None), Report(n1, m1), Report(n2, None)}
OverlapSystems == {System(n1, None), System(n2, n1), System(None, n2)}
OverlapArp     == {{}, {Arp(a, m1), Arp(b, m2)}, {Arp(c, m2)}}
OverlapPolicy  == [ShippedPolicy EXCEPT !["arp_neighbor"] = "single"]
OverlapOrder   == <<"snmp", "arp">>

-----------------------------------------------------------------------------
(* Neighbours: the shipped order of the three table walkers.  MAC addresses *)
(* may be shared, moved or unknown; rows name "c", which nobody scanned.    *)
NeighbourSubnets == <<{a, b}>>
NeighbourReports == {Report(None, None), Report(None, m1)}
NeighbourArp  == {{}, {Arp(b, m1)}, {Arp(a, m1), Arp(c, m2)}}
NeighbourLldp == {{Lldp({b, c}, None, None, n1), Lldp({}, c, None, n1), Lldp({}, None, m2, None)},
                  {Lldp({}, None, m1, n2), Lldp({a}, None, m1, n1)}}
NeighbourFdb  == {{Fdb(m1, TRUE), Fdb(m2, TRUE)}, {Fdb(m1, FALSE)}}
SwappedOrder   == <<"fdb", "arp">>

-----------------------------------------------------------------------------
(* The four providers together, in the shipped order. *)
FullOrder   == <<"snmp", "arp", "lldp", "fdb">>
FullSystems == {System(n2, n1)}
=============================================================================
