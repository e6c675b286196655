------------------------ MODULE EnrichmentProviders ------------------------
(***************************************************************************)
(* What one host's answer to one of the four SNMP enrichment providers     *)
(* adds: identity and relationship observations, and (for the system       *)
(* group only) facts on the device.  The wire protocol is abstracted to    *)
(* the tables a host may answer with; a host that does not answer, and a   *)
(* client that raises, are one case ("not responded").                     *)
(***************************************************************************)
EXTENDS Evidence

CONSTANTS SystemGroups,  \* system groups: [hostname: , description: ]
          ArpTables,     \* sets of [ip |-> , mac |-> ]
          LldpTables,    \* sets of LldpRow
          FdbTables      \* sets of [mac |-> , learned |-> ]

Kinds == {"snmp", "arp", "lldp", "fdb"}

(***************************************************************************)
(* An LLDP row: the management addresses; the chassis identifier when it   *)
(* is an IPv4 address or a MAC address (any other subtype is unusable);    *)
(* the advertised system name.                                             *)
(***************************************************************************)
LldpRow == [addresses      : SUBSET Ip,
            chassisAddress : Ip \cup {None},
            chassisMac     : Mac \cup {None},
            sysName        : Name \cup {None}]

SystemGroup == [hostname : Name \cup {None}, description : Name \cup {None}]
ArpEntry    == [ip : Ip, mac : Mac]
FdbEntry    == [mac : Mac, learned : BOOLEAN]

ASSUME AnswersAssumption ==
  /\ SystemGroups \subseteq SystemGroup \ {[hostname |-> None, description |-> None]}
  /\ ArpTables  \subseteq SUBSET ArpEntry
  /\ LldpTables \subseteq SUBSET LldpRow
  /\ FdbTables  \subseteq SUBSET FdbEntry

Answers(kind) == [snmp |-> SystemGroups, arp |-> ArpTables,
                  lldp |-> LldpTables,   fdb |-> FdbTables][kind]

Run(kind) == <<kind, 0>>   \* the uuid of the provider's one enrich() call

-----------------------------------------------------------------------------
(* SnmpEnrichmentProvider._merge: fill what is missing, overwrite nothing. *)
Fallback(current, reported) == IF current = None THEN reported ELSE current

(* Mutation: a reported value replaces what is there. *)
Merge_Overwrites(device, group) ==
  [hostname    |-> Fallback(group.hostname, device.hostname),
   mac         |-> device.mac,
   description |-> Fallback(group.description, device.description),
   sources     |-> device.sources \cup {"snmp"}]

Merge(device, group) ==
  [hostname    |-> Fallback(device.hostname, group.hostname),
   mac         |-> device.mac,
   description |-> Fallback(device.description, group.description),
   sources     |-> device.sources \cup {"snmp"}]

(* The raw sysName is retained, whatever Merge did with it. *)
SystemObservations(ip, group) ==
  IF group.hostname = None THEN {}
  ELSE {IdentityObservation(ip, "hostname", group.hostname,
                            Source("snmp", "sysName"), Run("snmp"))}

-----------------------------------------------------------------------------
ArpSource == Source("snmp", "ipNetToPhysicalTable")

ArpRelationships(ip, table) ==
  {RelationshipObservation(ip, e.ip, "arp_neighbor", ArpSource, Run("arp"), None) :
     e \in table}

(* Mutation: the gate is missing. *)
ArpIdentities_Ungated(table, discovered) ==
  {IdentityObservation(e.ip, "mac_address", e.mac, ArpSource, Run("arp")) : e \in table}

(* The endpoint-bootstrapping gate: an ARP entry is identity evidence only  *)
(* for an address that discovery found on its own.                          *)
ArpIdentities(table, discovered) ==
  {IdentityObservation(e.ip, "mac_address", e.mac, ArpSource, Run("arp")) :
     e \in {x \in table : x.ip \in discovered}}

-----------------------------------------------------------------------------
(* SnmpLldpNeighborProvider._resolve_related_subjects, in priority order:   *)
(* management addresses, then a chassis network address, then a chassis     *)
(* MAC address that the MAC index gives to one subject.                     *)
RelatedSubjects(row, received) ==
  IF row.addresses # {}
  THEN {[ip |-> a, method |-> "lldp-management-address", via |-> None] : a \in row.addresses}
  ELSE IF row.chassisAddress # None
  THEN {[ip |-> row.chassisAddress, method |-> "lldp-chassis-network-address", via |-> None]}
  ELSE {[ip |-> s, method |-> "lldp-chassis-mac", via |-> row.chassisMac] :
          s \in {x \in MacSubjects(received, row.chassisMac) :
                   Resolves(received, row.chassisMac, x)}}

(* Mutation: the advertised name is evidence for any related subject. *)
LldpObservations_Ungated(ip, row, discovered, received) ==
  UNION {{RelationshipObservation(ip, r.ip, "connected_to", Source("snmp", r.method),
                                  Run("lldp"), r.via),
          IdentityObservation(r.ip, "hostname", row.sysName, Source("snmp", r.method),
                              Run("lldp"))} :
         r \in RelatedSubjects(row, received)}

LldpObservations(ip, row, discovered, received) ==
  UNION {{RelationshipObservation(ip, r.ip, "connected_to", Source("snmp", r.method),
                                  Run("lldp"), r.via)}
         \cup (IF row.sysName # None /\ r.ip \in discovered
               THEN {IdentityObservation(r.ip, "hostname", row.sysName,
                                         Source("snmp", r.method), Run("lldp"))}
               ELSE {}) :
         r \in RelatedSubjects(row, received)}

-----------------------------------------------------------------------------
(* SnmpBridgeFdbProvider: learned rows whose MAC the index gives to one     *)
(* subject; everything else contributes nothing.                            *)
FdbObservations(ip, entry, received) ==
  {RelationshipObservation(ip, s, "bridge_fdb", Source("snmp", "dot1dTpFdbTable"),
                           Run("fdb"), entry.mac) :
     s \in {x \in MacSubjects(received, entry.mac) :
              entry.learned /\ Resolves(received, entry.mac, x)}}

-----------------------------------------------------------------------------
(* What an answer of host ip adds to the running provider's observations. *)
Contribution(kind, ip, answer, discovered, received) ==
  IF kind = "snmp" THEN SystemObservations(ip, answer)
  ELSE IF kind = "arp" THEN ArpRelationships(ip, answer) \cup ArpIdentities(answer, discovered)
  ELSE IF kind = "lldp"
  THEN UNION {LldpObservations(ip, row, discovered, received) : row \in answer}
  ELSE UNION {FdbObservations(ip, entry, received) : entry \in answer}
=============================================================================
