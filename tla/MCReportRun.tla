---------------------------- MODULE MCReportRun ----------------------------
(***************************************************************************)
(* Three runs, two scan profiles; two of the runs find as many devices.    *)
(* What a run observed: three addresses with a name or two, and up to three *)
(* claims about two pairs of them, from two sources and in any order.      *)
(***************************************************************************)
EXTENDS ReplayedRuns

CONSTANTS r1, r2, r3

MCRuns        == {r1, r2, r3}
MCProfile     == [r \in MCRuns |-> IF r = r3 THEN "deep" ELSE "fast"]
MCDeviceCount == [r \in MCRuns |-> IF r = r2 THEN 2 ELSE 1]

MCIp   == {"10.0.0.1", "10.0.0.2", "10.0.0.3"}
MCMac  == {}
MCName == {"sw-a", "sw-b"}
MCPolicy == [category \in {"default_gateway"} |-> "single"]
MCNonAscii == {"10.0.0.2"}

(* The texts in their order. *)
Texts == <<"10.0.0.1", "10.0.0.2", "10.0.0.3", "arp_neighbor", "default_gateway",
           "hostname", "identity", "lldp", "morning", "nmap", "noon", "ping", "relationship",
           "run-1", "run-2", "snmp", "sw-a", "sw-b", "walk">>
MCRank == [t \in {Texts[i] : i \in DOMAIN Texts} |-> CHOOSE i \in DOMAIN Texts : Texts[i] = t]

Nmap == [provider |-> "nmap", method |-> "ping"]
Snmp == [provider |-> "snmp", method |-> "walk"]
Lldp == [provider |-> "lldp", method |-> "walk"]

Says(subject, name) ==
  [type |-> "identity", subject |-> subject, property |-> "hostname", value |-> name,
   source |-> Nmap, run |-> "run-1", at |-> "morning"]
Claims(subject, related, category, source, at) ==
  [type |-> "relationship", subject |-> subject, related |-> related, category |-> category,
   source |-> source, run |-> "run-2", at |-> at]

Names == <<Says("10.0.0.3", "sw-b"), Says("10.0.0.1", "sw-a"), Says("10.0.0.2", "sw-b")>>
Claimed ==
  {Claims("10.0.0.1", "10.0.0.2", "arp_neighbor", Snmp, "noon"),
   Claims("10.0.0.1", "10.0.0.2", "arp_neighbor", Lldp, "noon"),
   Claims("10.0.0.1", "10.0.0.2", "arp_neighbor", Snmp, "morning"),
   Claims("10.0.0.1", "10.0.0.3", "default_gateway", Lldp, "noon"),
   Claims("10.0.0.1", "10.0.0.2", "default_gateway", Snmp, "noon"),
   Claims("10.0.0.3", "10.0.0.1", "arp_neighbor", Snmp, "noon"),
   Claims("10.0.0.3", "10.0.0.3", "arp_neighbor", Snmp, "noon")}
MCObserved == {Names \o claims : claims \in UNION {[1..n -> Claimed] : n \in 0..3}}
=============================================================================
