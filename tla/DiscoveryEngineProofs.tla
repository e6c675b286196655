----------------------- MODULE DiscoveryEngineProofs -----------------------
(***************************************************************************)
(* Type correctness of DiscoveryEngine, that no address discovery did not   *)
(* find becomes a canonical identity or an endpoint, which facts a device   *)
(* keeps and on which it is classified; then the evidence it retains: whose *)
(* observation is whose, what the diagnostics say, when a relationship      *)
(* found through the MAC index stays right, what can confirm a hostname,    *)
(* that a conflict stays visible, and that the engine implements            *)
(* EvidenceLog.  All of it for every network, every subnet list and every   *)
(* order of enrichment providers.                                           *)
(***************************************************************************)
EXTENDS DiscoveryEngine, DiscoveryLog, TLAPS

USE NoneIsNoValue

-----------------------------------------------------------------------------
(* What the operators return. *)

(* A scan's observations are identity observations of the hosts it found. *)
LEMMA ScanObservationsType ==
  ASSUME NEW up \in SUBSET Ip, NEW scan \in [up -> HostReport], NEW run
  PROVE  \A o \in ScanObservations(scan, run) :
           Observation(o) /\ o.type = "identity" /\ o.subject \in DOMAIN scan
BY DEF ScanObservations, IdentityObservation, Observation

(* The addresses the LLDP provider relates a row to are addresses, given   *)
(* that the subjects of the snapshot are.                                  *)
LEMMA RelatedSubjectsType ==
  ASSUME NEW row \in LldpRow, NEW snapshot,
         \A o \in snapshot : Observation(o)
  PROVE  \A r \in RelatedSubjects(row, snapshot) : r.ip \in Ip
BY DEF RelatedSubjects, LldpRow, MacSubjects, IdentitiesIn, Observation

(* What a host's answer adds is well formed, and its identity observations *)
(* are about discovered devices: the gate of each provider.                *)
LEMMA ContributionType ==
  ASSUME NEW kind \in Kinds, NEW discovered \in SUBSET Ip, NEW ip \in discovered,
         NEW snapshot, NEW answer \in Answers(kind),
         \A o \in snapshot : Observation(o)
  PROVE  \A o \in Contribution(kind, ip, answer, discovered, snapshot) :
           Observation(o) /\ (o.type = "identity" => o.subject \in discovered)
<1>1. CASE kind = "snmp"
  <2>1. Contribution(kind, ip, answer, discovered, snapshot) = SystemObservations(ip, answer)
    BY <1>1 DEF Contribution
  <2> QED BY <2>1 DEF SystemObservations, IdentityObservation, Observation
<1>2. CASE kind = "arp"
  <2>1. Contribution(kind, ip, answer, discovered, snapshot)
          = ArpRelationships(ip, answer) \cup ArpIdentities(answer, discovered)
    BY <1>2 DEF Contribution
  <2>2. answer \in SUBSET ArpEntry
    BY <1>2, AnswersAssumption DEF Answers
  <2>3. \A o \in ArpRelationships(ip, answer) : Observation(o) /\ o.type = "relationship"
    BY <2>2 DEF ArpRelationships, RelationshipObservation, Observation, ArpEntry
  <2>4. \A o \in ArpIdentities(answer, discovered) :
          Observation(o) /\ o.subject \in discovered
    BY <2>2 DEF ArpIdentities, IdentityObservation, Observation, ArpEntry
  <2> QED BY <2>1, <2>3, <2>4
<1>3. CASE kind = "lldp"
  <2>1. Contribution(kind, ip, answer, discovered, snapshot)
          = UNION {LldpObservations(ip, row, discovered, snapshot) : row \in answer}
    BY <1>3 DEF Contribution
  <2>2. answer \in SUBSET LldpRow
    BY <1>3, AnswersAssumption DEF Answers
  <2>3. ASSUME NEW row \in answer, NEW o \in LldpObservations(ip, row, discovered, snapshot)
        PROVE  Observation(o) /\ (o.type = "identity" => o.subject \in discovered)
    <3>1. PICK r \in RelatedSubjects(row, snapshot) :
            \/ o = RelationshipObservation(ip, r.ip, "connected_to", Source("snmp", r.method),
                                           Run("lldp"), r.via)
            \/ /\ o = IdentityObservation(r.ip, "hostname", row.sysName,
                                          Source("snmp", r.method), Run("lldp"))
               /\ r.ip \in discovered
      BY <2>3 DEF LldpObservations
    <3>2. r.ip \in Ip
      BY <2>2, <3>1, RelatedSubjectsType
    <3> QED BY <3>1, <3>2 DEF RelationshipObservation, IdentityObservation, Observation
  <2> QED BY <2>1, <2>3
<1>4. CASE kind = "fdb"
  <2>1. Contribution(kind, ip, answer, discovered, snapshot)
          = UNION {FdbObservations(ip, entry, snapshot) : entry \in answer}
    BY <1>4 DEF Contribution
  <2>2. ASSUME NEW entry \in answer, NEW o \in FdbObservations(ip, entry, snapshot)
        PROVE  Observation(o) /\ o.type = "relationship"
    <3>1. PICK s \in MacSubjects(snapshot, entry.mac) :
            o = RelationshipObservation(ip, s, "bridge_fdb", Source("snmp", "dot1dTpFdbTable"),
                                        Run("fdb"), entry.mac)
      BY <2>2 DEF FdbObservations
    <3>2. s \in Ip
      BY <3>1 DEF MacSubjects, IdentitiesIn, Observation
    <3> QED BY <3>1, <3>2 DEF RelationshipObservation, Observation
  <2> QED BY <2>1, <2>2
<1> QED BY <1>1, <1>2, <1>3, <1>4 DEF Kinds

(* Merging a system group into a device gives a device. *)
LEMMA MergeType ==
  ASSUME NEW device \in Device, NEW group \in SystemGroup
  PROVE  Merge(device, group) \in Device
<1>1. Fallback(device.hostname, group.hostname) \in Name \cup {None}
  BY DEF Fallback, Device, SystemGroup
<1>2. Fallback(device.description, group.description) \in Name \cup {None}
  BY DEF Fallback, Device, SystemGroup
<1> QED BY <1>1, <1>2 DEF Merge, Device

-----------------------------------------------------------------------------
(* Type correctness *)

(* Inside a pass the current provider is one of the four kinds. *)
LEMMA KindType == TypeOK /\ stage = "enrich" => Kind \in Kinds
BY EngineAssumption DEF TypeOK, Kind

(* A scan of the current subnet maps addresses to host reports. *)
LEMMA ScansType ==
  ASSUME TypeOK, turn <= Len(Subnets), NEW scan \in Scans
  PROVE  DOMAIN scan \subseteq Ip /\ scan \in [DOMAIN scan -> HostReport]
<1>1. Subnets[turn] \subseteq Ip
  BY EngineAssumption DEF TypeOK
<1>2. PICK up \in SUBSET Subnets[turn] : scan \in [up -> HostReports]
  BY DEF Scans
<1> QED BY <1>1, <1>2, HostReportsAssumption

(* Adding a scan's hosts keeps devices a function from addresses to devices. *)
LEMMA AddDevicesType ==
  ASSUME TypeOK, NEW scan, DOMAIN scan \subseteq Ip, scan \in [DOMAIN scan -> HostReport]
  PROVE  /\ DOMAIN AddDevices(scan) = Discovered \cup DOMAIN scan
         /\ AddDevices(scan) \in [Discovered \cup DOMAIN scan -> Device]
<1>1. \A ip \in DOMAIN scan : NewDevice(scan[ip]) \in Device
  BY DEF NewDevice, Device, HostReport
<1> QED BY <1>1 DEF AddDevices, TypeOK

(* Discovery only adds devices and observations. *)
LEMMA TypeDiscover == TypeOK /\ Discover => TypeOK'
<1> SUFFICES ASSUME TypeOK, Discover PROVE TypeOK'
  OBVIOUS
<1>1. PICK scan \in Scans :
        /\ devices' = AddDevices(scan)
        /\ observations' = observations \cup ScanObservations(scan, <<"nmap", turn>>)
  BY DEF Discover
<1>2. DOMAIN scan \subseteq Ip /\ scan \in [DOMAIN scan -> HostReport]
  BY ScansType DEF Discover
<1>3. /\ Discovered' = Discovered \cup DOMAIN scan
      /\ devices' \in [Discovered' -> Device]
  BY <1>1, <1>2, AddDevicesType DEF Discovered
<1>4. \A o \in observations' : Observation(o)
  BY <1>1, <1>2, ScanObservationsType DEF TypeOK
<1>5. diagnostics' \in
        [Kinds -> {None} \cup [responded : SUBSET Discovered', silent : SUBSET Discovered']]
  BY <1>3 DEF TypeOK, Discover
<1>6. turn' \in Nat \ {0} /\ turn' <= Len(Subnets) + 1
  BY EngineAssumption DEF TypeOK, Discover
<1>7. /\ received' = {} /\ pending' = {} /\ todo' = {} /\ responded' = {} /\ silent' = {}
      /\ Discovered \subseteq Discovered' /\ Discovered' \subseteq Ip
      /\ stage' = "discover" /\ graph' = graph
  BY <1>2, <1>3 DEF TypeOK, Discover, passVars
<1> QED BY <1>3, <1>4, <1>5, <1>6, <1>7 DEF TypeOK, Stages

(* A host's answer is merged into a device and gathered by the provider. *)
LEMMA TypeHostAnswers ==
  ASSUME TypeOK, NEW ip \in todo, HostAnswers(ip)
  PROVE  TypeOK'
<1>1. PICK answer \in Answers(Kind) :
        /\ devices' = IF Kind = "snmp" THEN [devices EXCEPT ![ip] = Merge(@, answer)]
                      ELSE devices
        /\ pending' = pending \cup Contribution(Kind, ip, answer, Discovered, received)
  BY DEF HostAnswers
<1>2. Kind \in Kinds /\ ip \in Discovered /\ Discovered \subseteq Ip
  BY KindType DEF HostAnswers, TypeOK
<1>3. Discovered' = Discovered /\ devices' \in [Discovered -> Device]
  <2>1. CASE Kind = "snmp"
    <3>1. answer \in SystemGroup
      BY <2>1, AnswersAssumption DEF Answers
    <3>2. Merge(devices[ip], answer) \in Device
      BY <3>1, <1>2, MergeType DEF TypeOK
    <3> QED BY <1>1, <1>2, <2>1, <3>2 DEF TypeOK, Discovered
  <2>2. CASE Kind # "snmp"
    BY <1>1, <2>2 DEF TypeOK, Discovered
  <2> QED BY <2>1, <2>2
<1>4. \A o \in pending' : Observation(o)
  BY <1>1, <1>2, ContributionType DEF TypeOK
<1> QED BY <1>2, <1>3, <1>4 DEF TypeOK, HostAnswers, Observation

(* A completed pass becomes an entry of the diagnostics. *)
LEMMA TypeEnrichCompletes == TypeOK /\ EnrichCompletes => TypeOK'
<1> SUFFICES ASSUME TypeOK, EnrichCompletes PROVE TypeOK'
  OBVIOUS
<1>1. Kind \in Kinds
  BY KindType DEF EnrichCompletes
<1>2. diagnostics' \in
        [Kinds -> {None} \cup [responded : SUBSET Discovered, silent : SUBSET Discovered]]
  BY <1>1 DEF TypeOK, EnrichCompletes
<1>3. turn' \in Nat \ {0} /\ turn' <= Len(EnrichmentOrder) + 1
  BY EngineAssumption DEF TypeOK, EnrichCompletes, EndPass
<1> QED BY <1>2, <1>3 DEF TypeOK, EnrichCompletes, EndPass, Observation, Discovered, Stages

(* A classified device joins the graph with the facts it has. *)
LEMMA TypeClassify ==
  ASSUME TypeOK, NEW ip \in Discovered, Classify(ip)
  PROVE  TypeOK'
<1>1. devices[ip] \in Device
  BY DEF TypeOK
<1>2. DOMAIN graph' = DOMAIN graph \cup {ip} /\ graph' \in [DOMAIN graph' -> Device]
  BY <1>1 DEF TypeOK, Classify
<1> QED BY <1>2 DEF TypeOK, Classify, engineVars, passVars, Observation, Discovered

(* Every variable keeps its type (the types of DiscoveryEngine's state). *)
THEOREM TypeCorrect == Spec => []TypeOK
<1>1. Init => TypeOK
  BY EngineAssumption DEF Init, TypeOK, Stages, Discovered
<1>2. TypeOK /\ [Next]_vars => TypeOK'
  <2> SUFFICES ASSUME TypeOK, [Next]_vars PROVE TypeOK'
    OBVIOUS
  <2>1. CASE Discover
    BY <2>1, TypeDiscover
  <2>2. CASE DiscoverRaises
    BY <2>2 DEF DiscoverRaises, TypeOK, Stages, engineVars, passVars, Observation, Discovered
  <2>3. CASE DiscoverEnds
    BY <2>3, EngineAssumption
       DEF DiscoverEnds, TypeOK, Stages, passVars, Observation, Discovered
  <2>4. CASE BeginEnrich
    BY <2>4 DEF BeginEnrich, TypeOK, Stages, engineVars, Observation, Discovered
  <2>5. ASSUME NEW ip \in todo, HostAnswers(ip) PROVE TypeOK'
    BY <2>5, TypeHostAnswers
  <2>6. ASSUME NEW ip \in todo, HostSilent(ip) PROVE TypeOK'
    BY <2>6 DEF HostSilent, TypeOK, engineVars, Observation, Discovered
  <2>7. CASE EnrichRaises
    BY <2>7, EngineAssumption DEF EnrichRaises, EndPass, TypeOK, Stages, Observation, Discovered
  <2>8. CASE EnrichCompletes
    BY <2>8, TypeEnrichCompletes
  <2>9. CASE EnrichmentEnds
    BY <2>9 DEF EnrichmentEnds, TypeOK, Stages, engineVars, passVars, Observation, Discovered
  <2>10. ASSUME NEW ip \in Discovered, Classify(ip) PROVE TypeOK'
    BY <2>10, TypeClassify
  <2>11. CASE ClassifyRaises
    BY <2>11 DEF ClassifyRaises, TypeOK, Stages, engineVars, passVars, Observation, Discovered
  <2>12. CASE ClassifyEnds
    BY <2>12 DEF ClassifyEnds, TypeOK, Stages, engineVars, passVars, Observation, Discovered
  <2>13. CASE UNCHANGED vars
    BY <2>13 DEF vars, TypeOK, engineVars, passVars, Observation, Discovered
  <2> QED BY <2>1, <2>2, <2>3, <2>4, <2>5, <2>6, <2>7, <2>8, <2>9, <2>10, <2>11, <2>12, <2>13
          DEF Next, Finished
<1> QED BY <1>1, <1>2, PTL DEF Spec

-----------------------------------------------------------------------------
(* The endpoint-bootstrapping gate *)

(* The strengthening: what the running provider holds is gated already. *)
Gated ==
  \A o \in observations \cup pending : o.type = "identity" => o.subject \in Discovered

(* An edge joins the subjects of the observation it was made from. *)
LEMMA EdgeEndpoints ==
  ASSUME NEW kept, NEW o
  PROVE  Edge(kept, o).subject = o.subject /\ Edge(kept, o).related = o.related
BY DEF Edge

(* Gated observations resolve to discovered identities and endpoints only. *)
LEMMA GatedEndpoints == Gated => EndpointsDiscovered
<1> SUFFICES ASSUME Gated PROVE EndpointsDiscovered
  OBVIOUS
<1>1. DOMAIN Identities = Subjects(observations)
  BY DEF Identities, ResolveIdentities
<1>2. Subjects(observations) \subseteq Discovered
  BY DEF Gated, Subjects, IdentitiesIn
<1>3. \A r \in Relationships : r.subject \in DOMAIN Identities /\ r.related \in DOMAIN Identities
  <2>1. \A o \in Resolvable(observations, DOMAIN Identities) :
          o.subject \in DOMAIN Identities /\ o.related \in DOMAIN Identities
    BY DEF Resolvable
  <2>2. \A r \in Relationships : \E o \in Resolvable(observations, DOMAIN Identities) :
          r.subject = o.subject /\ r.related = o.related
    BY EdgeEndpoints DEF Relationships, ResolveRelationships
  <2> QED BY <2>1, <2>2
<1> QED BY <1>1, <1>2, <1>3 DEF EndpointsDiscovered

(* The gates hold for everything a provider ever gathers. *)
LEMMA AlwaysGated == Spec => []Gated
<1>1. Init => Gated
  BY DEF Init, Gated
<1>2. TypeOK /\ Gated /\ [Next]_vars => Gated'
  <2> SUFFICES ASSUME TypeOK, Gated, [Next]_vars PROVE Gated'
    OBVIOUS
  <2>1. CASE Discover
    <3>1. PICK scan \in Scans :
            /\ devices' = AddDevices(scan)
            /\ observations' = observations \cup ScanObservations(scan, <<"nmap", turn>>)
      BY <2>1 DEF Discover
    <3>2. DOMAIN scan \subseteq Ip /\ scan \in [DOMAIN scan -> HostReport]
      BY <2>1, ScansType DEF Discover
    <3>3. Discovered' = Discovered \cup DOMAIN scan
      BY <3>1, <3>2, AddDevicesType DEF Discovered
    <3>4. \A o \in ScanObservations(scan, <<"nmap", turn>>) : o.subject \in DOMAIN scan
      BY <3>2, ScanObservationsType
    <3> QED BY <2>1, <3>1, <3>3, <3>4 DEF Gated, Discover, passVars
  <2>2. ASSUME NEW ip \in todo, HostAnswers(ip) PROVE Gated'
    <3>1. PICK answer \in Answers(Kind) :
            /\ devices' = IF Kind = "snmp" THEN [devices EXCEPT ![ip] = Merge(@, answer)]
                          ELSE devices
            /\ pending' = pending \cup Contribution(Kind, ip, answer, Discovered, received)
      BY <2>2 DEF HostAnswers
    <3>2. Discovered' = Discovered
      BY <3>1 DEF Discovered
    <3>3. Kind \in Kinds /\ ip \in Discovered /\ Discovered \in SUBSET Ip
      BY <2>2, KindType DEF HostAnswers, TypeOK
    <3>4. \A o \in Contribution(Kind, ip, answer, Discovered, received) :
            o.type = "identity" => o.subject \in Discovered
      BY <3>3, ContributionType DEF TypeOK
    <3> QED BY <2>2, <3>1, <3>2, <3>4 DEF Gated, HostAnswers
  <2>3. CASE EnrichCompletes
    BY <2>3 DEF EnrichCompletes, EndPass, Gated, Discovered
  <2>4. CASE EnrichRaises
    BY <2>4 DEF EnrichRaises, EndPass, Gated, Discovered
  <2>5. CASE BeginEnrich
    BY <2>5 DEF BeginEnrich, engineVars, Gated, Discovered
  <2>6. CASE UNCHANGED <<devices, observations, pending>>
    BY <2>6 DEF Gated, Discovered
  <2>7. \/ Discover \/ (\E ip \in todo : HostAnswers(ip))
        \/ EnrichCompletes \/ EnrichRaises \/ BeginEnrich
        \/ UNCHANGED <<devices, observations, pending>>
    BY DEF Next, DiscoverRaises, DiscoverEnds, HostSilent, EnrichmentEnds, Classify,
           ClassifyRaises, ClassifyEnds, Finished, vars, engineVars, passVars
  <2> QED BY <2>1, <2>2, <2>3, <2>4, <2>5, <2>6, <2>7
<1> QED BY <1>1, <1>2, TypeCorrect, PTL DEF Spec

(* Canonical identities and relationship endpoints are discovered devices,   *)
(* whatever the neighbour tables name and whichever provider fails           *)
(* (ARCH-022 section 4).                                                     *)
THEOREM EndpointsAlwaysDiscovered == Spec => []EndpointsDiscovered
BY AlwaysGated, GatedEndpoints, PTL

-----------------------------------------------------------------------------
(* The facts on a device, and the verdict drawn from them *)

(* Merging keeps every fact there is. *)
LEMMA MergeKeeps ==
  ASSUME NEW device, NEW group
  PROVE  /\ device.hostname # None => Merge(device, group).hostname = device.hostname
         /\ Merge(device, group).mac = device.mac
         /\ device.description # None => Merge(device, group).description = device.description
BY DEF Merge, Fallback

(* A device is never forgotten and a fact on it never overwritten (ADR-010). *)
THEOREM FirstReportAlwaysWins == Spec => FirstReportWins
<1> DEFINE Keeps == \A ip \in Discovered :
                      /\ ip \in DOMAIN devices'
                      /\ \A f \in {"hostname", "mac", "description"} :
                           devices[ip][f] # None => devices'[ip][f] = devices[ip][f]
<1>1. TypeOK /\ [Next]_vars => Keeps
  <2> SUFFICES ASSUME TypeOK, [Next]_vars PROVE Keeps
    OBVIOUS
  <2>1. CASE Discover
    BY <2>1 DEF Discover, AddDevices, Discovered
  <2>2. ASSUME NEW ip \in todo, HostAnswers(ip) PROVE Keeps
    <3>1. PICK answer \in Answers(Kind) :
            devices' = IF Kind = "snmp" THEN [devices EXCEPT ![ip] = Merge(@, answer)]
                       ELSE devices
      BY <2>2 DEF HostAnswers
    <3>2. DOMAIN devices' = DOMAIN devices
      BY <3>1
    <3>3. \A x \in Discovered : devices'[x] = devices[x]
                               \/ devices'[x] = Merge(devices[x], answer)
      BY <3>1 DEF Discovered, TypeOK
    <3> QED BY <3>2, <3>3, MergeKeeps DEF Discovered
  <2>3. CASE UNCHANGED devices
    BY <2>3 DEF Discovered
  <2>4. Discover \/ (\E ip \in todo : HostAnswers(ip)) \/ UNCHANGED devices
    BY DEF Next, DiscoverRaises, DiscoverEnds, BeginEnrich, HostSilent, EnrichRaises,
           EnrichCompletes, EnrichmentEnds, Classify, ClassifyRaises, ClassifyEnds,
           Finished, vars, engineVars
  <2> QED BY <2>1, <2>2, <2>3, <2>4
<1> QED BY <1>1, TypeCorrect, PTL DEF Spec, FirstReportWins

(* The strengthening: nothing is classified before the evidence is in. *)
Judged ==
  /\ ClassifiedOnFinalEvidence
  /\ stage \in {"discover", "idle", "enrich"} => DOMAIN graph = {}

(* A verdict is drawn from the facts the device ends the run with, and a     *)
(* finished run has one for every device (ADR-010).                          *)
THEOREM AlwaysClassifiedOnFinalEvidence == Spec => []ClassifiedOnFinalEvidence
<1>1. Init => Judged
  BY DEF Init, Judged, ClassifiedOnFinalEvidence
<1>2. TypeOK /\ Judged /\ [Next]_vars => Judged'
  <2> SUFFICES ASSUME TypeOK, Judged, [Next]_vars PROVE Judged'
    OBVIOUS
  <2>1. CASE stage \in {"discover", "idle", "enrich"} /\ UNCHANGED graph /\ stage' # "done"
    BY <2>1 DEF Judged, ClassifiedOnFinalEvidence
  <2>2. ASSUME NEW ip \in Discovered, Classify(ip) PROVE Judged'
    BY <2>2 DEF Classify, engineVars, Judged, ClassifiedOnFinalEvidence
  <2>3. CASE ClassifyEnds
    BY <2>3 DEF ClassifyEnds, engineVars, Judged, ClassifiedOnFinalEvidence, Discovered
  <2>4. CASE ClassifyRaises \/ UNCHANGED vars
    BY <2>4 DEF ClassifyRaises, vars, engineVars, Judged, ClassifiedOnFinalEvidence, Discovered
  <2>5. \/ stage \in {"discover", "idle", "enrich"} /\ UNCHANGED graph /\ stage' # "done"
        \/ \E ip \in Discovered : Classify(ip)
        \/ ClassifyEnds \/ ClassifyRaises \/ UNCHANGED vars
    BY DEF Next, Discover, DiscoverRaises, DiscoverEnds, BeginEnrich, HostAnswers, HostSilent,
           EndPass, EnrichRaises, EnrichCompletes, EnrichmentEnds, Finished
  <2> QED BY <2>1, <2>2, <2>3, <2>4, <2>5
<1>3. Judged => ClassifiedOnFinalEvidence
  BY DEF Judged
<1> QED BY <1>1, <1>2, <1>3, TypeCorrect, PTL DEF Spec

-----------------------------------------------------------------------------
(* The evidence that is retained *)

(* Every observation a host's answer adds is stamped with the provider's    *)
(* run; a relationship starts at the host that answered.                    *)
LEMMA ContributionOrigin ==
  ASSUME NEW kind \in Kinds, NEW discovered, NEW ip, NEW snapshot, NEW answer
  PROVE  \A o \in Contribution(kind, ip, answer, discovered, snapshot) :
           o.run = Run(kind) /\ (o.type = "relationship" => o.subject = ip)
<1>1. CASE kind = "snmp"
  BY <1>1 DEF Contribution, SystemObservations, IdentityObservation
<1>2. CASE kind = "arp"
  BY <1>2 DEF Contribution, ArpRelationships, ArpIdentities, IdentityObservation,
              RelationshipObservation
<1>3. CASE kind = "lldp"
  BY <1>3 DEF Contribution, LldpObservations, IdentityObservation, RelationshipObservation
<1>4. CASE kind = "fdb"
  BY <1>4 DEF Contribution, FdbObservations, RelationshipObservation
<1> QED BY <1>1, <1>2, <1>3, <1>4 DEF Kinds

(* A scan's observations carry the run of the scan. *)
LEMMA ScanOrigin ==
  ASSUME NEW scan, NEW run
  PROVE  \A o \in ScanObservations(scan, run) : o.run = run /\ o.type = "identity"
BY DEF ScanObservations, IdentityObservation

(* Two kinds have two runs, and a scan's run is neither. *)
LEMMA RunsDiffer ==
  /\ \A j, k \in Kinds : Run(j) = Run(k) => j = k
  /\ \A k \in Kinds : \A i : Run(k) # <<"nmap", i>>
BY DEF Run, Kinds

-----------------------------------------------------------------------------
(* Whose observations *)

(* The strengthening: the running provider holds observations of its own    *)
(* run only.                                                                 *)
Attributed ==
  /\ FaultContributesNothing
  /\ stage = "enrich" => \A o \in pending : o.run = Run(Kind)

LEMMA AttributedStep == TypeOK /\ Attributed /\ [Next]_vars => Attributed'
<1> SUFFICES ASSUME TypeOK, Attributed, [Next]_vars PROVE Attributed'
  OBVIOUS
<1>1. CASE Discover
  BY <1>1, ScanOrigin, RunsDiffer
     DEF Discover, Attributed, FaultContributesNothing
<1>2. CASE BeginEnrich
  BY <1>2 DEF BeginEnrich, Attributed, FaultContributesNothing, engineVars
<1>3. ASSUME NEW ip \in todo, HostAnswers(ip) PROVE Attributed'
  <2>1. Kind \in Kinds /\ Kind' = Kind
    BY <1>3, KindType DEF HostAnswers, Kind
  <2>2. \A o \in pending' : o.run = Run(Kind)
    BY <1>3, <2>1, ContributionOrigin DEF HostAnswers, Attributed
  <2> QED BY <1>3, <2>1, <2>2 DEF HostAnswers, Attributed, FaultContributesNothing
<1>4. CASE EnrichRaises
  BY <1>4 DEF EnrichRaises, EndPass, Attributed, FaultContributesNothing
<1>5. CASE EnrichCompletes
  <2>1. Kind \in Kinds
    BY <1>5, KindType DEF EnrichCompletes
  <2>2. [responded |-> responded, silent |-> silent] \in Diagnostics
    BY DEF TypeOK, Diagnostics
  <2>3. \A k \in Kinds : diagnostics'[k] = None => k # Kind /\ diagnostics[k] = None
    BY <1>5, <2>1, <2>2, NoneIsNoDiagnostics DEF EnrichCompletes, TypeOK
  <2>4. \A o \in pending : o.run = Run(Kind)
    BY <1>5 DEF EnrichCompletes, Attributed
  <2> QED BY <1>5, <2>1, <2>3, <2>4, RunsDiffer
          DEF EnrichCompletes, EndPass, Attributed, FaultContributesNothing
<1>6. CASE /\ UNCHANGED <<observations, diagnostics, pending, turn>>
           /\ stage' = "enrich" => stage = "enrich"
  BY <1>6 DEF Attributed, FaultContributesNothing, Kind
<1>7. CASE DiscoverEnds
  BY <1>7 DEF DiscoverEnds, Attributed, FaultContributesNothing, passVars
<1>8. \/ Discover \/ BeginEnrich \/ (\E ip \in todo : HostAnswers(ip))
      \/ EnrichRaises \/ EnrichCompletes \/ DiscoverEnds
      \/ /\ UNCHANGED <<observations, diagnostics, pending, turn>>
         /\ stage' = "enrich" => stage = "enrich"
  BY DEF Next, DiscoverRaises, HostSilent, EnrichmentEnds, Classify, ClassifyRaises,
         ClassifyEnds, Finished, vars, engineVars, passVars
<1> QED BY <1>1, <1>2, <1>3, <1>4, <1>5, <1>6, <1>7, <1>8

LEMMA AlwaysAttributed == Spec => []Attributed
<1>1. Init => Attributed
  BY DEF Init, Attributed, FaultContributesNothing
<1> QED BY <1>1, AttributedStep, TypeCorrect, PTL DEF Spec

(* An enrichment provider that raised, wherever in its pass, has contributed *)
(* no observation (discovery_engine.py:88).                                  *)
THEOREM FaultsContributeNothing == Spec => []FaultContributesNothing
<1>1. Attributed => FaultContributesNothing
  BY DEF Attributed
<1> QED BY <1>1, AlwaysAttributed, PTL

-----------------------------------------------------------------------------
(* What the diagnostics say *)

(* The strengthening: the running pass has each device queried, or still to *)
(* query; it holds relationships of hosts that answered; and providers      *)
(* whose turn has not ended have no diagnostics.                            *)
Accounted ==
  /\ DiagnosticsAccountForPass
  /\ stage = "enrich" =>
       /\ todo \cup responded \cup silent = Discovered
       /\ todo \cap (responded \cup silent) = {} /\ responded \cap silent = {}
       /\ \A o \in pending : o.type = "relationship" => o.subject \in responded
  /\ stage = "discover" => diagnostics = [k \in Kinds |-> None]
  /\ stage \in {"idle", "enrich"} =>
       \A i \in turn..Len(EnrichmentOrder) : diagnostics[EnrichmentOrder[i]] = None

LEMMA AccountedStep == TypeOK /\ Attributed /\ Accounted /\ [Next]_vars => Accounted'
<1> SUFFICES ASSUME TypeOK, Attributed, Accounted, [Next]_vars PROVE Accounted'
  OBVIOUS
<1> USE DEF DiagnosticsAccountForPass
<1>1. CASE Discover
  BY <1>1 DEF Discover, Accounted
<1>2. CASE DiscoverEnds
  BY <1>2, EngineAssumption DEF DiscoverEnds, Accounted, passVars, Discovered
<1>3. CASE BeginEnrich
  BY <1>3 DEF BeginEnrich, Accounted, engineVars, Discovered
<1>4. ASSUME NEW ip \in todo, HostAnswers(ip) PROVE Accounted'
  <2>1. Kind \in Kinds /\ ip \in Discovered
    BY <1>4, KindType DEF HostAnswers, TypeOK
  <2>2. Discovered' = Discovered
    BY <1>4 DEF HostAnswers, Discovered, TypeOK
  <2>3. \A o \in pending' : o.type = "relationship" => o.subject \in responded'
    BY <1>4, <2>1, ContributionOrigin DEF HostAnswers, Accounted
  <2>4. /\ todo' \cup responded' \cup silent' = Discovered'
        /\ todo' \cap (responded' \cup silent') = {} /\ responded' \cap silent' = {}
    BY <1>4, <2>2 DEF HostAnswers, Accounted
  <2>5. DiagnosticsAccountForPass'
    BY <1>4, <2>2 DEF HostAnswers, Accounted
  <2> QED BY <1>4, <2>3, <2>4, <2>5 DEF HostAnswers, Accounted
<1>5. ASSUME NEW ip \in todo, HostSilent(ip) PROVE Accounted'
  <2>1. ip \in Discovered /\ UNCHANGED <<devices, observations, diagnostics>>
    BY <1>5 DEF HostSilent, TypeOK, engineVars
  <2>2. /\ todo' \cup responded' \cup silent' = Discovered
        /\ todo' \cap (responded' \cup silent') = {} /\ responded' \cap silent' = {}
    BY <1>5, <2>1 DEF HostSilent, Accounted
  <2>3. DiagnosticsAccountForPass'
    BY <2>1 DEF Accounted, Discovered
  <2> QED BY <1>5, <2>1, <2>2, <2>3 DEF HostSilent, engineVars, Accounted, Discovered
<1>6. CASE EnrichRaises
  <2>1. \A i \in turn'..Len(EnrichmentOrder) : i \in turn..Len(EnrichmentOrder)
    BY <1>6, EngineAssumption DEF EnrichRaises, EndPass, TypeOK
  <2>2. DiagnosticsAccountForPass'
    BY <1>6 DEF EnrichRaises, Accounted, Discovered
  <2> QED BY <1>6, <2>1, <2>2 DEF EnrichRaises, EndPass, Accounted
<1>7. CASE EnrichCompletes
  <2>1. Kind \in Kinds
    BY <1>7, KindType DEF EnrichCompletes
  <2>2. /\ Discovered' = Discovered
        /\ \A k \in Kinds \ {Kind} : diagnostics'[k] = diagnostics[k]
        /\ diagnostics'[Kind] = [responded |-> responded, silent |-> silent]
    BY <1>7, <2>1 DEF EnrichCompletes, Discovered, TypeOK
  <2>3. \A o \in observations : o.run # Run(Kind)
    <3>1. turn \in turn..Len(EnrichmentOrder)
      BY <1>7, EngineAssumption DEF EnrichCompletes, TypeOK
    <3>2. diagnostics[Kind] = None
      BY <1>7, <3>1 DEF EnrichCompletes, Accounted, Kind
    <3> QED BY <2>1, <3>2 DEF Attributed, FaultContributesNothing
  <2>4. \A o \in pending : /\ o.run = Run(Kind)
                           /\ o.type = "relationship" => o.subject \in responded
    BY <1>7 DEF EnrichCompletes, Attributed, Accounted
  <2>5. ASSUME NEW k \in Kinds, diagnostics'[k] # None
        PROVE  /\ diagnostics'[k].responded \cup diagnostics'[k].silent = Discovered'
               /\ diagnostics'[k].responded \cap diagnostics'[k].silent = {}
               /\ \A o \in RelationshipsIn(observations') :
                    o.run = Run(k) => o.subject \in diagnostics'[k].responded
    <3>1. CASE k = Kind
      BY <3>1, <1>7, <2>2, <2>3, <2>4 DEF EnrichCompletes, Accounted, RelationshipsIn
    <3>2. CASE k # Kind
      BY <3>2, <2>5, <1>7, <2>1, <2>2, <2>4, RunsDiffer
         DEF EnrichCompletes, Accounted, RelationshipsIn
    <3> QED BY <3>1, <3>2
  <2>6. ASSUME NEW i \in turn'..Len(EnrichmentOrder)
        PROVE  diagnostics'[EnrichmentOrder[i]] = None
    <3>1. i \in turn..Len(EnrichmentOrder) /\ i # turn /\ turn \in 1..Len(EnrichmentOrder)
      BY <1>7, EngineAssumption DEF EnrichCompletes, EndPass, TypeOK
    <3>2. EnrichmentOrder[i] # Kind /\ EnrichmentOrder[i] \in Kinds
      BY <3>1, EngineAssumption DEF Kind, TypeOK
    <3> QED BY <1>7, <2>2, <3>1, <3>2 DEF EnrichCompletes, Accounted
  <2> QED BY <1>7, <2>5, <2>6 DEF EnrichCompletes, EndPass, Accounted
<1>8. CASE /\ UNCHANGED <<devices, observations, diagnostics>>
           /\ stage' \notin {"discover", "idle", "enrich"}
  BY <1>8 DEF Accounted, Discovered
<1>9. CASE UNCHANGED vars
  BY <1>9 DEF vars, engineVars, passVars, Accounted, Discovered
<1>10. \/ Discover \/ DiscoverEnds \/ BeginEnrich \/ EnrichRaises \/ EnrichCompletes
       \/ \E ip \in todo : HostAnswers(ip) \/ HostSilent(ip)
       \/ /\ UNCHANGED <<devices, observations, diagnostics>>
          /\ stage' \notin {"discover", "idle", "enrich"}
       \/ UNCHANGED vars
  BY DEF Next, DiscoverRaises, EnrichmentEnds, Classify, ClassifyRaises, ClassifyEnds,
         Finished, engineVars
<1> QED BY <1>1, <1>2, <1>3, <1>4, <1>5, <1>6, <1>7, <1>8, <1>9, <1>10

(* The diagnostics of a completed pass account for every device once, and a  *)
(* host they list as silent has reported no relationship in that pass.       *)
THEOREM DiagnosticsAlwaysAccount == Spec => []DiagnosticsAccountForPass
<1>1. Init => Accounted
  BY DEF Init, Accounted, DiagnosticsAccountForPass
<1>2. Accounted => DiagnosticsAccountForPass
  BY DEF Accounted
<1> QED BY <1>1, <1>2, AccountedStep, AlwaysAttributed, TypeCorrect, PTL DEF Spec

-----------------------------------------------------------------------------
(* Relationships found through the MAC index *)

(* The order the application configures (application.py:134): no provider    *)
(* that uses the MAC index runs before the one that adds MAC addresses.      *)
ArpFirst ==
  \A i, j \in 1..Len(EnrichmentOrder) :
    EnrichmentOrder[i] = "arp" /\ EnrichmentOrder[j] \in {"lldp", "fdb"} => i < j

(* The relationships found through the MAC index, collected or still held.   *)
ThroughIndex == {o \in RelationshipsIn(observations \cup pending) : o.via # None}

(* From here on nothing gives a subject another MAC address. *)
MacsFinal ==
  /\ stage # "discover"
  /\ \A i \in turn..Len(EnrichmentOrder) : EnrichmentOrder[i] # "arp"

(* The strengthening: the running provider has seen all evidence there is;  *)
(* what it found, too, is right; by the time something was found the MAC    *)
(* addresses are final, because only an ARP pass holds any.                 *)
MacStable ==
  /\ stage = "enrich" => received = observations
  /\ \A o \in ThroughIndex : Resolves(observations, o.via, o.related)
  /\ ThroughIndex # {} => MacsFinal
  /\ \A o \in IdentitiesIn(pending) :
       o.property = "mac_address" => stage = "enrich" /\ Kind = "arp"

(* Evidence that adds no MAC address leaves the index as it was. *)
LEMMA SameIndex ==
  ASSUME NEW obs, NEW more,
         \A o \in IdentitiesIn(more) : o.property # "mac_address"
  PROVE  \A m, s : Resolves(obs \cup more, m, s) <=> Resolves(obs, m, s)
<1>1. \A m : MacSubjects(obs \cup more, m) = MacSubjects(obs, m)
  BY DEF MacSubjects, IdentitiesIn
<1> QED BY <1>1 DEF Resolves

(* What an answer adds: a relationship found through the index is right in  *)
(* the snapshot, only LLDP and the bridge table find any, and only ARP adds *)
(* MAC addresses.                                                           *)
LEMMA ContributionIndex ==
  ASSUME NEW kind \in Kinds, NEW discovered, NEW ip, NEW snapshot, NEW answer
  PROVE  \A o \in Contribution(kind, ip, answer, discovered, snapshot) :
           /\ o.type = "relationship" /\ o.via # None =>
                kind \in {"lldp", "fdb"} /\ Resolves(snapshot, o.via, o.related)
           /\ o.type = "identity" /\ o.property = "mac_address" => kind = "arp"
<1>1. CASE kind = "snmp"
  BY <1>1 DEF Contribution, SystemObservations, IdentityObservation
<1>2. CASE kind = "arp"
  BY <1>2 DEF Contribution, ArpRelationships, ArpIdentities, IdentityObservation,
              RelationshipObservation
<1>3. CASE kind = "lldp"
  <2>1. ASSUME NEW row, NEW o \in LldpObservations(ip, row, discovered, snapshot)
        PROVE  /\ o.type = "relationship" /\ o.via # None =>
                    Resolves(snapshot, o.via, o.related)
               /\ o.type = "identity" => o.property = "hostname"
    <3>1. PICK r \in RelatedSubjects(row, snapshot) :
            \/ o = RelationshipObservation(ip, r.ip, "connected_to", Source("snmp", r.method),
                                           Run("lldp"), r.via)
            \/ o = IdentityObservation(r.ip, "hostname", row.sysName,
                                       Source("snmp", r.method), Run("lldp"))
      BY <2>1 DEF LldpObservations
    <3>2. r.via # None => Resolves(snapshot, r.via, r.ip)
      BY <3>1 DEF RelatedSubjects
    <3> QED BY <3>1, <3>2 DEF RelationshipObservation, IdentityObservation
  <2>2. Contribution(kind, ip, answer, discovered, snapshot)
          = UNION {LldpObservations(ip, row, discovered, snapshot) : row \in answer}
    BY <1>3 DEF Contribution
  <2> QED BY <1>3, <2>1, <2>2
<1>4. CASE kind = "fdb"
  <2>1. ASSUME NEW entry, NEW o \in FdbObservations(ip, entry, snapshot)
        PROVE  o.type = "relationship" /\ Resolves(snapshot, o.via, o.related)
    BY <2>1 DEF FdbObservations, RelationshipObservation
  <2>2. Contribution(kind, ip, answer, discovered, snapshot)
          = UNION {FdbObservations(ip, entry, snapshot) : entry \in answer}
    BY <1>4 DEF Contribution
  <2> QED BY <1>4, <2>1, <2>2
<1> QED BY <1>1, <1>2, <1>3, <1>4 DEF Kinds

LEMMA MacStableStep ==
  ASSUME ArpFirst
  PROVE  TypeOK /\ MacStable /\ [Next]_vars => MacStable'
<1> SUFFICES ASSUME TypeOK, MacStable, [Next]_vars PROVE MacStable'
  OBVIOUS
<1>1. CASE Discover
  <2>1. ThroughIndex = {}
    BY <1>1 DEF Discover, MacStable, MacsFinal
  <2>2. ThroughIndex' = {}
    BY <1>1, <2>1, ScanOrigin DEF Discover, passVars, ThroughIndex, RelationshipsIn
  <2> QED BY <1>1, <2>2 DEF Discover, passVars, TypeOK, MacStable, IdentitiesIn
<1>2. CASE BeginEnrich
  <2>1. ThroughIndex' \subseteq ThroughIndex
    BY <1>2 DEF BeginEnrich, engineVars, ThroughIndex, RelationshipsIn
  <2> QED BY <1>2, <2>1 DEF BeginEnrich, engineVars, MacStable, MacsFinal, IdentitiesIn
<1>3. ASSUME NEW ip \in todo, HostAnswers(ip) PROVE MacStable'
  <2>1. PICK answer \in Answers(Kind) :
          pending' = pending \cup Contribution(Kind, ip, answer, Discovered, observations)
    BY <1>3 DEF HostAnswers, MacStable
  <2> DEFINE New == Contribution(Kind, ip, answer, Discovered, observations)
  <2>2. Kind \in Kinds /\ Kind' = Kind
    BY <1>3, KindType DEF HostAnswers, Kind
  <2>3. \A o \in New :
          /\ o.type = "relationship" /\ o.via # None =>
               Kind \in {"lldp", "fdb"} /\ Resolves(observations, o.via, o.related)
          /\ o.type = "identity" /\ o.property = "mac_address" => Kind = "arp"
    BY <2>2, ContributionIndex
  <2>4. Kind \in {"lldp", "fdb"} => MacsFinal
    <3>1. stage = "enrich" /\ turn \in 1..Len(EnrichmentOrder) /\ Kind = EnrichmentOrder[turn]
      BY <1>3 DEF HostAnswers, Kind, TypeOK
    <3>2. Len(EnrichmentOrder) \in Nat
      BY EngineAssumption
    <3> HIDE DEF Kind
    <3> QED BY <3>1, <3>2, ArpFirst DEF MacsFinal, ArpFirst
  <2>5. \A o \in ThroughIndex' : o \in ThroughIndex \/ (o \in New /\ o.type = "relationship"
                                                        /\ o.via # None)
    BY <1>3, <2>1 DEF HostAnswers, ThroughIndex, RelationshipsIn
  <2>6. \A o \in ThroughIndex' : Resolves(observations', o.via, o.related)
    BY <1>3, <2>3, <2>5 DEF HostAnswers, MacStable
  <2>7. ThroughIndex' # {} => MacsFinal'
    BY <1>3, <2>3, <2>4, <2>5 DEF HostAnswers, MacStable, MacsFinal
  <2>8. \A o \in IdentitiesIn(pending') :
          o.property = "mac_address" => stage' = "enrich" /\ Kind' = "arp"
    BY <1>3, <2>1, <2>2, <2>3 DEF HostAnswers, MacStable, IdentitiesIn
  <2> QED BY <1>3, <2>6, <2>7, <2>8 DEF HostAnswers, MacStable
<1>4. CASE EnrichRaises
  <2>1. ThroughIndex' \subseteq ThroughIndex
    BY <1>4 DEF EnrichRaises, EndPass, ThroughIndex, RelationshipsIn
  <2>2. MacsFinal => MacsFinal'
    BY <1>4, EngineAssumption DEF EnrichRaises, EndPass, MacsFinal, TypeOK
  <2> QED BY <1>4, <2>1, <2>2 DEF EnrichRaises, EndPass, MacStable, IdentitiesIn
<1>5. CASE EnrichCompletes
  <2>1. ThroughIndex' = ThroughIndex
    BY <1>5 DEF EnrichCompletes, EndPass, ThroughIndex, RelationshipsIn
  <2>2. MacsFinal => MacsFinal'
    BY <1>5, EngineAssumption DEF EnrichCompletes, EndPass, MacsFinal, TypeOK
  <2>3. MacsFinal => \A o \in IdentitiesIn(pending) : o.property # "mac_address"
    <3>1. turn \in turn..Len(EnrichmentOrder)
      BY <1>5, EngineAssumption DEF EnrichCompletes, TypeOK
    <3> QED BY <3>1 DEF MacsFinal, MacStable, Kind
  <2>4. \A o \in ThroughIndex : Resolves(observations', o.via, o.related)
    BY <1>5, <2>3, SameIndex DEF EnrichCompletes, MacStable
  <2> QED BY <1>5, <2>1, <2>2, <2>4 DEF EnrichCompletes, EndPass, MacStable, IdentitiesIn
<1>6. CASE DiscoverEnds
  <2>1. ThroughIndex = {} /\ ThroughIndex' = {}
    BY <1>6 DEF DiscoverEnds, passVars, MacStable, MacsFinal, ThroughIndex, RelationshipsIn
  <2> QED BY <1>6, <2>1 DEF DiscoverEnds, passVars, TypeOK, MacStable, IdentitiesIn
<1>7. CASE /\ UNCHANGED <<turn, observations, received, pending>>
           /\ (stage' = "enrich") = (stage = "enrich")
           /\ stage = "discover" \/ stage' # "discover"
  BY <1>7 DEF MacStable, MacsFinal, ThroughIndex, Kind
<1>8. \/ Discover \/ BeginEnrich \/ (\E ip \in todo : HostAnswers(ip))
      \/ EnrichRaises \/ EnrichCompletes \/ DiscoverEnds
      \/ /\ UNCHANGED <<turn, observations, received, pending>>
         /\ (stage' = "enrich") = (stage = "enrich")
         /\ stage = "discover" \/ stage' # "discover"
  BY DEF Next, DiscoverRaises, HostSilent, EnrichmentEnds, Classify, ClassifyRaises,
         ClassifyEnds, Finished, vars, engineVars, passVars
<1> QED BY <1>1, <1>2, <1>3, <1>4, <1>5, <1>6, <1>7, <1>8

(* In the order the application configures, a relationship found through the *)
(* MAC index is never made ambiguous by evidence that arrives later.         *)
THEOREM MacResolutionAlwaysStable ==
  ASSUME ArpFirst
  PROVE  Spec => []MacResolutionStable
<1>1. Init => MacStable
  BY DEF Init, MacStable, ThroughIndex, RelationshipsIn, IdentitiesIn
<1>2. TypeOK /\ MacStable /\ [Next]_vars => MacStable'
  BY MacStableStep
<1>3. MacStable => MacResolutionStable
  BY DEF MacStable, MacResolutionStable, ThroughIndex, RelationshipsIn
<1> QED BY <1>1, <1>2, <1>3, TypeCorrect, PTL DEF Spec

-----------------------------------------------------------------------------
(* What confirms a hostname, and what happens to a conflict *)

(* All that discovery providers claim comes from the one source they are. *)
LEMMA ScanSource ==
  ASSUME NEW scan, NEW run
  PROVE  \A o \in ScanObservations(scan, run) : o.source = NmapSource
BY DEF ScanObservations, IdentityObservation

(* The strengthening: an observation is a discovery provider's, or it is    *)
(* stamped with the run of an enrichment provider; so are the ones the       *)
(* running provider still holds.                                             *)
Provenance ==
  \A o \in observations \cup pending :
    o.source = NmapSource \/ \E k \in Kinds : o.run = Run(k)

LEMMA ProvenanceStep == TypeOK /\ Provenance /\ [Next]_vars => Provenance'
<1> SUFFICES ASSUME TypeOK, Provenance, [Next]_vars PROVE Provenance'
  OBVIOUS
<1>1. CASE Discover
  BY <1>1, ScanSource DEF Discover, passVars, Provenance
<1>2. ASSUME NEW ip \in todo, HostAnswers(ip) PROVE Provenance'
  <2>1. Kind \in Kinds
    BY <1>2, KindType DEF HostAnswers
  <2>2. PICK answer : pending' = pending \cup Contribution(Kind, ip, answer, Discovered, received)
    BY <1>2 DEF HostAnswers
  <2>3. \A o \in Contribution(Kind, ip, answer, Discovered, received) : o.run = Run(Kind)
    BY <2>1, ContributionOrigin
  <2> QED BY <1>2, <2>1, <2>2, <2>3 DEF HostAnswers, Provenance
<1>3. CASE observations' \cup pending' \subseteq observations \cup pending
  BY <1>3 DEF Provenance
<1>4. \/ Discover \/ (\E ip \in todo : HostAnswers(ip))
      \/ observations' \cup pending' \subseteq observations \cup pending
  BY DEF Next, DiscoverRaises, DiscoverEnds, BeginEnrich, HostSilent, EndPass, EnrichRaises,
         EnrichCompletes, EnrichmentEnds, Classify, ClassifyRaises, ClassifyEnds,
         Finished, vars, engineVars, passVars
<1> QED BY <1>1, <1>2, <1>3, <1>4

(* A confirmed property rests on two sources. *)
LEMMA ConfirmedBySeveral ==
  ASSUME NEW group, PropertyState(group) = "confirmed"
  PROVE  Several(Sources(group))
BY DEF PropertyState

(* Scanning an address from two overlapping subnets never confirms its       *)
(* hostname: two sources, of which discovery is one, make an enrichment      *)
(* provider the other (ADR-012).                                             *)
THEOREM OverlapDoesNotConfirm == Spec => []OverlapNeverConfirms
<1>1. Init => Provenance
  BY DEF Init, Provenance
<1>2. Provenance => OverlapNeverConfirms
  <2> SUFFICES ASSUME Provenance, NEW s \in DOMAIN Identities,
                      "hostname" \in DOMAIN Identities[s].properties,
                      Identities[s].properties["hostname"] = "confirmed"
               PROVE  \E o \in About(observations, s) :
                        o.property = "hostname" /\ \E k \in Kinds : o.run = Run(k)
    BY DEF OverlapNeverConfirms
  <2> DEFINE group == {o \in About(observations, s) : o.property = "hostname"}
  <2>1. Identities[s].properties = PropertyStates(observations, s)
    BY DEF Identities, ResolveIdentities
  <2>2. PropertyState(group) = "confirmed"
    BY <2>1 DEF PropertyStates
  <2>3. PICK x, y \in group : x.source # y.source
    <3> HIDE DEF group
    <3> QED BY <2>2, ConfirmedBySeveral DEF Several, Sources
  <2>4. x \in observations /\ y \in observations
    BY DEF About, IdentitiesIn
  <2> QED BY <2>3, <2>4 DEF Provenance
<1> QED BY <1>1, <1>2, ProvenanceStep, TypeCorrect, PTL DEF Spec

(* Evidence is only ever added. *)
LEMMA ObservationsGrow == [Next]_vars => observations \subseteq observations'
BY DEF Next, Discover, DiscoverRaises, DiscoverEnds, BeginEnrich, HostAnswers, HostSilent,
       EnrichRaises, EnrichCompletes, EnrichmentEnds, Classify, ClassifyRaises, ClassifyEnds,
       Finished, vars, engineVars

(* More evidence cannot make one value of several. *)
LEMMA ConflictGrows ==
  ASSUME NEW group, NEW more, group \subseteq more, PropertyState(group) = "conflicting"
  PROVE  PropertyState(more) = "conflicting"
<1>1. Several(Values(group))
  BY DEF PropertyState
<1>2. Several(Values(more))
  BY <1>1 DEF Several, Values
<1> QED BY <1>2 DEF PropertyState

(* An identity is conflicting when one of its properties is. *)
LEMMA ConflictingRollUp ==
  ASSUME NEW states
  PROVE  RollUp(states) = "conflicting" <=> \E p \in DOMAIN states : states[p] = "conflicting"
BY DEF RollUp

LEMMA IdentityConflictGrows ==
  ASSUME NEW obs, NEW more, obs \subseteq more, NEW s \in Subjects(obs),
         ResolveIdentities(obs)[s].state = "conflicting"
  PROVE  s \in Subjects(more) /\ ResolveIdentities(more)[s].state = "conflicting"
<1>1. s \in Subjects(more) /\ About(obs, s) \subseteq About(more, s)
  BY DEF Subjects, IdentitiesIn, About
<1>2. RollUp(PropertyStates(obs, s)) = "conflicting"
  BY DEF ResolveIdentities
<1>3. PICK p \in DOMAIN PropertyStates(obs, s) : PropertyStates(obs, s)[p] = "conflicting"
  BY <1>2, ConflictingRollUp
<1>4. /\ p \in DOMAIN PropertyStates(more, s)
      /\ PropertyStates(more, s)[p] = PropertyState({o \in About(more, s) : o.property = p})
      /\ PropertyStates(obs, s)[p] = PropertyState({o \in About(obs, s) : o.property = p})
  BY <1>1, <1>3 DEF PropertyStates
<1>5. {o \in About(obs, s) : o.property = p} \subseteq {o \in About(more, s) : o.property = p}
  BY <1>1
<1>6. PropertyStates(more, s)[p] = "conflicting"
  BY <1>3, <1>4, <1>5, ConflictGrows
<1>7. RollUp(PropertyStates(more, s)) = "conflicting"
  BY <1>4, <1>6, ConflictingRollUp
<1> QED BY <1>1, <1>7 DEF ResolveIdentities

(* A conflict between edges of one subject and category is judged by all    *)
(* evidence in that group, and the group only grows.                        *)
LEMMA EdgeConflictGrows ==
  ASSUME NEW kept, NEW more, kept \subseteq more, NEW o \in kept,
         Edge(kept, o).state = "conflicting"
  PROVE  Edge(more, o) = Edge(kept, o)
<1> DEFINE Group(all) == {r \in all : r.subject = o.subject /\ r.category = o.category}
<1>1. EdgeState(Group(kept), o.related) = "conflicting"
  BY DEF Edge
<1>2. /\ Several({r.related : r \in Group(kept)})
      /\ \A r \in Group(kept) : CardinalityFor(r.category) = "single"
  <2> HIDE DEF Group
  <2> QED BY <1>1 DEF EdgeState
<1>3. Several({r.related : r \in Group(more)})
  BY <1>2 DEF Several
<1>4. \A r \in Group(more) : CardinalityFor(r.category) = "single"
  BY <1>2
<1>5. EdgeState(Group(more), o.related) = "conflicting"
  <2> HIDE DEF Group
  <2> QED BY <1>3, <1>4 DEF EdgeState
<1> QED BY <1>1, <1>5 DEF Edge

(* A conflict is never hidden by later evidence: a subject or an edge that   *)
(* the observations so far make conflicting stays so (ADR-012, ADR-013).     *)
THEOREM ConflictStaysVisible == Spec => ConflictNeverHidden
<1> DEFINE Shown ==
      /\ \A s \in DOMAIN Identities : Identities[s].state = "conflicting" =>
           s \in DOMAIN Identities' /\ Identities'[s].state = "conflicting"
      /\ \A r \in Relationships : r.state = "conflicting" => r \in Relationships'
<1>1. [Next]_vars => Shown
  <2> SUFFICES ASSUME [Next]_vars PROVE Shown
    OBVIOUS
  <2>1. observations \subseteq observations'
    BY ObservationsGrow
  <2>2. DOMAIN Identities = Subjects(observations) /\ DOMAIN Identities' = Subjects(observations')
    BY DEF Identities, ResolveIdentities
  <2>3. ASSUME NEW s \in DOMAIN Identities, Identities[s].state = "conflicting"
        PROVE  s \in DOMAIN Identities' /\ Identities'[s].state = "conflicting"
    BY <2>1, <2>2, <2>3, IdentityConflictGrows DEF Identities
  <2>4. ASSUME NEW r \in Relationships, r.state = "conflicting"
        PROVE  r \in Relationships'
    <3> DEFINE kept == Resolvable(observations, DOMAIN Identities)
               more == Resolvable(observations', DOMAIN Identities')
    <3>1. kept \subseteq more
      BY <2>1, <2>2 DEF Resolvable, Subjects, IdentitiesIn, RelationshipsIn
    <3>2. PICK o \in kept : r = Edge(kept, o)
      BY DEF Relationships, ResolveRelationships
    <3>3. Edge(more, o) = r
      <4> HIDE DEF kept, more
      <4> QED BY <2>4, <3>1, <3>2, EdgeConflictGrows
    <3> QED BY <3>1, <3>2, <3>3 DEF Relationships, ResolveRelationships
  <2> QED BY <2>3, <2>4
<1> QED BY <1>1, PTL DEF Spec, ConflictNeverHidden

-----------------------------------------------------------------------------
(* What discovery promises the layers above it: EvidenceLog *)

(* While a provider runs or may still run, it is its turn next: the turns   *)
(* left are the current one and the ones left after it.                     *)
LEMMA CurrentTurn ==
  ASSUME TypeOK, stage = "enrich"
  PROVE  /\ Kind \in Kinds
         /\ Run(Kind) \in Waiting
         /\ {Run(EnrichmentOrder[i]) : i \in (turn + 1)..Len(EnrichmentOrder)}
              = Waiting \ {Run(Kind)}
<1>1. Kind \in Kinds
  BY KindType
<1>2. turn \in 1..Len(EnrichmentOrder) /\ TurnsLeft = turn..Len(EnrichmentOrder)
  BY EngineAssumption DEF TypeOK, TurnsLeft
<1>3. \A i \in turn..Len(EnrichmentOrder) :
        /\ i \in 1..Len(EnrichmentOrder) /\ EnrichmentOrder[i] \in Kinds
        /\ i \in (turn + 1)..Len(EnrichmentOrder) <=> i # turn
  BY <1>2, EngineAssumption
<1>4. \A i \in turn..Len(EnrichmentOrder) : Run(EnrichmentOrder[i]) = Run(Kind) <=> i = turn
  BY <1>1, <1>2, <1>3, RunsDiffer, EngineAssumption DEF Kind
<1>5. \A i \in (turn + 1)..Len(EnrichmentOrder) : i \in turn..Len(EnrichmentOrder)
  BY <1>2, EngineAssumption
<1>6. Run(Kind) \in Waiting
  BY <1>2, EngineAssumption DEF Waiting, Kind
<1> QED BY <1>1, <1>2, <1>3, <1>4, <1>5, <1>6 DEF Waiting

(* A provider's turn ends with its whole batch or with nothing. *)
LEMMA PassContributes ==
  ASSUME TypeOK, Gated, Attributed, stage = "enrich", EndPass, UNCHANGED devices,
         observations' = observations \/ observations' = observations \cup pending
  PROVE  \E c \in Waiting : Log!Contribute(c)
<1>1. Run(Kind) \in Waiting
  BY CurrentTurn
<1>2. Waiting' = Waiting \ {Run(Kind)}
  <2>1. TurnsLeft' = (turn + 1)..Len(EnrichmentOrder)
    BY DEF EndPass, TurnsLeft
  <2>2. Waiting' = {Run(EnrichmentOrder[i]) : i \in (turn + 1)..Len(EnrichmentOrder)}
    BY <2>1 DEF Waiting
  <2> QED BY <2>2, CurrentTurn
<1>3. Phase = "closed" /\ Phase' = "closed"
  BY DEF Phase, EndPass
<1>4. \A o \in observations' \ observations :
        o.run = Run(Kind) /\ (o.type = "identity" => o.subject \in Discovered)
  BY DEF Attributed, Gated
<1>5. Discovered' = Discovered /\ observations \subseteq observations'
  BY DEF Discovered
<1> QED BY <1>1, <1>2, <1>3, <1>4, <1>5 DEF Log!Contribute

LEMMA LogStep ==
  TypeOK /\ Gated /\ Attributed /\ [Next]_vars => [Log!LogNext]_Log!logVars
<1> SUFFICES ASSUME TypeOK, Gated, Attributed, [Next]_vars
             PROVE  Log!LogNext \/ UNCHANGED Log!logVars
  OBVIOUS
<1>1. CASE Discover
  <2>1. PICK scan \in Scans :
          /\ devices' = AddDevices(scan)
          /\ observations' = observations \cup ScanObservations(scan, <<"nmap", turn>>)
    BY <1>1 DEF Discover
  <2>2. DOMAIN scan \subseteq Ip /\ scan \in [DOMAIN scan -> HostReport]
    BY <1>1, ScansType DEF Discover
  <2>3. Discovered' = Discovered \cup DOMAIN scan
    BY <2>1, <2>2, AddDevicesType DEF Discovered
  <2>4. \A o \in ScanObservations(scan, <<"nmap", turn>>) :
          o.type = "identity" /\ o.subject \in DOMAIN scan
    BY <2>2, ScanObservationsType
  <2>5. Phase = "open" /\ UNCHANGED <<Phase, Waiting>>
    BY <1>1 DEF Discover, Phase, Waiting, TurnsLeft
  <2> QED BY <2>1, <2>3, <2>4, <2>5 DEF Log!LogNext, Log!Learn
<1>2. CASE DiscoverRaises \/ ClassifyRaises
  <2>1. Phase \in {"open", "closed"} /\ Phase' = "failed" /\ Waiting' = {}
    BY <1>2 DEF DiscoverRaises, ClassifyRaises, Phase, Waiting, TurnsLeft
  <2> QED BY <1>2, <2>1
          DEF DiscoverRaises, ClassifyRaises, engineVars, Discovered, Log!LogNext, Log!Fail
<1>3. CASE DiscoverEnds
  <2>1. Phase = "open" /\ Phase' = "closed" /\ UNCHANGED <<Discovered, observations, Waiting>>
    BY <1>3 DEF DiscoverEnds, Phase, Discovered, Waiting, TurnsLeft
  <2> QED BY <2>1 DEF Log!LogNext, Log!Close
<1>4. CASE EnrichRaises \/ EnrichCompletes
  <2>1. \E c \in Waiting : Log!Contribute(c)
    BY <1>4, PassContributes DEF EnrichRaises, EnrichCompletes
  <2> QED BY <2>1 DEF Log!LogNext
<1>5. CASE ClassifyEnds
  <2>1. Phase = "closed" /\ Phase' = "sealed" /\ UNCHANGED <<Discovered, observations, Waiting>>
    BY <1>5 DEF ClassifyEnds, engineVars, Phase, Discovered, Waiting, TurnsLeft
  <2> QED BY <2>1 DEF Log!LogNext, Log!Seal
<1>6. CASE /\ Discovered' = Discovered /\ UNCHANGED <<turn, observations>>
           /\ stage \in {"idle", "enrich", "classify"} /\ stage' \in {"idle", "enrich", "classify"}
  BY <1>6 DEF Phase, Waiting, TurnsLeft, Log!logVars
<1>7. CASE UNCHANGED vars
  BY <1>7 DEF vars, engineVars, Phase, Discovered, Waiting, TurnsLeft, Log!logVars
<1>8. ASSUME NEW ip \in todo, HostAnswers(ip)
      PROVE  /\ Discovered' = Discovered /\ UNCHANGED <<turn, observations>>
             /\ stage = "enrich" /\ stage' = "enrich"
  BY <1>8 DEF HostAnswers, Discovered, TypeOK
<1>9. ASSUME BeginEnrich \/ EnrichmentEnds \/ (\E ip \in todo : HostSilent(ip))
             \/ (\E ip \in Discovered : Classify(ip))
      PROVE  /\ Discovered' = Discovered /\ UNCHANGED <<turn, observations>>
             /\ stage \in {"idle", "enrich", "classify"} /\ stage' \in {"idle", "enrich", "classify"}
  BY <1>9 DEF BeginEnrich, EnrichmentEnds, HostSilent, Classify, engineVars, Discovered
<1> QED BY <1>1, <1>2, <1>3, <1>4, <1>5, <1>6, <1>7, <1>8, <1>9 DEF Next, Finished

(* The engine implements EvidenceLog: once discovery is over the known       *)
(* addresses are final, and evidence comes in whole batches, once per        *)
(* provider, about known addresses only.                                     *)
THEOREM EngineImplementsLog == Spec => ImplementsEvidenceLog
<1>1. Init => Log!LogInit
  BY DEF Init, Log!LogInit, Phase, Discovered, Waiting, TurnsLeft, Contributors
<1> QED BY <1>1, LogStep, AlwaysGated, AlwaysAttributed, TypeCorrect, PTL
        DEF Spec, ImplementsEvidenceLog, Log!LogSpec
=============================================================================
