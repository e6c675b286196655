------------------------- MODULE NmapProviderProofs -------------------------
(***************************************************************************)
(* Theorems about NmapProvider for every subnet, every profile and         *)
(* everything the two scans may say.                                       *)
(***************************************************************************)
EXTENDS NmapProvider, FiniteSetTheorems, TLAPS

USE NoneIsNoValue

-----------------------------------------------------------------------------
(* What the operators return. *)

(* An identity observation says what it was built from. *)
LEMMA ObservationFields ==
  ASSUME NEW ip, NEW property, NEW value, NEW source
  PROVE  LET o == IdentityObservation(ip, property, value, source, CallRun)
         IN  /\ o.type = "identity" /\ o.run = CallRun /\ o.subject = ip
             /\ o.property = property /\ o.value = value
BY DEF IdentityObservation

(* Host discovery retains exactly the names and addresses it reports. *)
LEMMA ScanEvidence ==
  ASSUME NEW up, NEW scan \in [up -> HostReport]
  PROVE  /\ \A o \in ScanObservations(scan, CallRun) :
              /\ o.type = "identity" /\ o.run = CallRun /\ o.subject \in up
              /\ \/ o.property = "hostname" /\ o.value = scan[o.subject].hostname
                 \/ o.property = "mac_address" /\ o.value = scan[o.subject].mac
              /\ o.value # None
         /\ \A ip \in up : scan[ip].hostname # None =>
              \E o \in ScanObservations(scan, CallRun) :
                /\ o.type = "identity" /\ o.subject = ip
                /\ o.property = "hostname" /\ o.value = scan[ip].hostname
         /\ \A ip \in up : scan[ip].mac # None =>
              \E o \in ScanObservations(scan, CallRun) :
                /\ o.type = "identity" /\ o.subject = ip
                /\ o.property = "mac_address" /\ o.value = scan[ip].mac
<1> DEFINE name(ip) == IdentityObservation(ip, "hostname", scan[ip].hostname, NmapSource, CallRun)
           mac(ip)  == IdentityObservation(ip, "mac_address", scan[ip].mac, NmapSource, CallRun)
<1>1. ScanObservations(scan, CallRun) =
        {name(ip) : ip \in {x \in up : scan[x].hostname # None}}
        \cup {mac(ip) : ip \in {x \in up : scan[x].mac # None}}
  BY DEF ScanObservations
<1>2. \A ip : /\ name(ip).type = "identity" /\ name(ip).run = CallRun
              /\ name(ip).subject = ip /\ name(ip).property = "hostname"
              /\ name(ip).value = scan[ip].hostname
  BY ObservationFields
<1>3. \A ip : /\ mac(ip).type = "identity" /\ mac(ip).run = CallRun
              /\ mac(ip).subject = ip /\ mac(ip).property = "mac_address"
              /\ mac(ip).value = scan[ip].mac
  BY ObservationFields
<1> HIDE DEF name, mac
<1> QED BY <1>1, <1>2, <1>3

(* What is emitted is one observation of the value, or nothing for None. *)
LEMMA EmitEvidence ==
  ASSUME NEW ip, NEW property, NEW value, NEW source
  PROVE  /\ \A o \in Emit(ip, property, value, source) :
              /\ o.type = "identity" /\ o.run = CallRun /\ o.subject = ip
              /\ o.property = property /\ o.value = value /\ value # None
         /\ value # None => \E o \in Emit(ip, property, value, source) :
              /\ o.type = "identity" /\ o.subject = ip
              /\ o.property = property /\ o.value = value
BY ObservationFields DEF Emit

(* A host's enrichment is retained under its own address, and the value the  *)
(* merge chose for a property is among the values retained for it.           *)
LEMMA HostEvidence ==
  ASSUME NEW ip, NEW device, NEW data
  PROVE  LET after == Enriched(device, data)
             kept  == HostObservations(ip, data)
         IN  /\ \A o \in kept :
                  /\ o.type = "identity" /\ o.run = CallRun /\ o.subject = ip
                  /\ \/ o.property = "computer_name" /\ after.computer_name # None
                     \/ o.property = "domain" /\ after.domain # None
             /\ after.computer_name # None => \E o \in kept :
                  /\ o.type = "identity" /\ o.subject = ip
                  /\ o.property = "computer_name" /\ o.value = after.computer_name
             /\ after.domain # None => \E o \in kept :
                  /\ o.type = "identity" /\ o.subject = ip
                  /\ o.property = "domain" /\ o.value = after.domain
             /\ after.hostname = device.hostname
             /\ after.mac_address = device.mac_address
<1> DEFINE after == Enriched(device, data)
           smbName   == Emit(ip, "computer_name", data.smb.computer_name, SmbSource)
           rdpName   == Emit(ip, "computer_name", data.rdp.computer_name, RdpSource)
           smbDomain == Emit(ip, "domain", SmbDomain(data), SmbSource)
           rdpDomain == Emit(ip, "domain", data.rdp.domain, RdpSource)
<1>1. HostObservations(ip, data) = smbName \cup rdpName \cup smbDomain \cup rdpDomain
  BY DEF HostObservations
<1>2. /\ after.computer_name = Or(data.smb.computer_name, data.rdp.computer_name)
      /\ after.domain = Or(SmbDomain(data), data.rdp.domain)
      /\ after.hostname = device.hostname /\ after.mac_address = device.mac_address
  BY DEF Enriched
<1>3. \A v, w : Or(v, w) \in {v, w} /\ (v # None \/ w # None => Or(v, w) # None)
  BY DEF Or
<1>4. \A o \in smbName \cup rdpName :
        /\ o.type = "identity" /\ o.run = CallRun /\ o.subject = ip
        /\ o.property = "computer_name" /\ after.computer_name # None
  BY <1>2, <1>3, EmitEvidence
<1>5. \A o \in smbDomain \cup rdpDomain :
        /\ o.type = "identity" /\ o.run = CallRun /\ o.subject = ip
        /\ o.property = "domain" /\ after.domain # None
  BY <1>2, <1>3, EmitEvidence
<1>6. after.computer_name # None => \E o \in smbName \cup rdpName :
        /\ o.type = "identity" /\ o.subject = ip
        /\ o.property = "computer_name" /\ o.value = after.computer_name
  BY <1>2, <1>3, EmitEvidence
<1>7. after.domain # None => \E o \in smbDomain \cup rdpDomain :
        /\ o.type = "identity" /\ o.subject = ip
        /\ o.property = "domain" /\ o.value = after.domain
  BY <1>2, <1>3, EmitEvidence
<1> HIDE DEF after, smbName, rdpName, smbDomain, rdpDomain
<1>8. /\ \A o \in HostObservations(ip, data) :
           /\ o.type = "identity" /\ o.run = CallRun /\ o.subject = ip
           /\ \/ o.property = "computer_name" /\ after.computer_name # None
              \/ o.property = "domain" /\ after.domain # None
      /\ after.computer_name # None => \E o \in HostObservations(ip, data) :
           /\ o.type = "identity" /\ o.subject = ip
           /\ o.property = "computer_name" /\ o.value = after.computer_name
      /\ after.domain # None => \E o \in HostObservations(ip, data) :
           /\ o.type = "identity" /\ o.subject = ip
           /\ o.property = "domain" /\ o.value = after.domain
  BY <1>1, <1>4, <1>5, <1>6, <1>7
<1> QED BY <1>2, <1>8 DEF after

-----------------------------------------------------------------------------
(* Type correctness. *)

(* What the second scan says of a host, one it does not mention included. *)
Reported == [report : HostReport, ports : SUBSET Port, smb : SmbOutput, rdp : RdpOutput]

LEMMA DataType ==
  ASSUME NEW heard, NEW scan \in [heard -> HostData], NEW ip
  PROVE  DataOf(scan, ip) \in Reported
BY ProviderAssumption DEF Reported, DataOf, NoData, HostReport, SmbOutput, RdpOutput

(* Enrichment keeps the type of a device. *)
LEMMA EnrichedType ==
  ASSUME NEW device \in DeviceType, NEW heard, NEW scan \in [heard -> HostData], NEW ip
  PROVE  Enriched(device, DataOf(scan, ip)) \in DeviceType
<1> DEFINE data == DataOf(scan, ip)
<1>1. data \in Reported
  BY DataType
<1> HIDE DEF data
<1>2. \A v, w \in Name \cup {None} : Or(v, w) \in Name \cup {None}
  BY DEF Or
<1>3. /\ SmbDomain(data) \in Name \cup {None} /\ OpenPorts(data) \subseteq Port
      /\ data.smb.operating_system \in Name \cup {None}
      /\ data.smb.computer_name \in Name \cup {None}
      /\ data.smb.smb_signing \in Name \cup {None}
      /\ data.rdp.operating_system \in Name \cup {None}
      /\ data.rdp.computer_name \in Name \cup {None}
      /\ data.rdp.domain \in Name \cup {None}
  BY <1>1, <1>2 DEF SmbDomain, OpenPorts, SmbOutput, RdpOutput, Reported
<1> QED BY <1>2, <1>3 DEF Enriched, DeviceType, data

(* Every variable keeps its type, whatever the network answers to the two    *)
(* scans and wherever the call raises.                                       *)
THEOREM TypeCorrect == Spec => []TypeOK
<1>1. Init => TypeOK
  BY DEF Init, TypeOK, Discovered, NoDiagnostics
<1>2. TypeOK /\ [Next]_vars => TypeOK'
  <2> SUFFICES ASSUME TypeOK, [Next]_vars PROVE TypeOK'
    OBVIOUS
  <2>0. \A up \in SUBSET Subnet : Cardinality(up) \in Nat
    BY ProviderAssumption, FS_Subset, FS_CardinalityType
  <2>1. CASE HostDiscovery
    <3>1. PICK up \in SUBSET Subnet : \E scan \in [up -> HostReports] :
            /\ devices' = [ip \in up |-> NewDevice(scan[ip])]
            /\ observations' = ScanObservations(scan, CallRun)
            /\ diagnostics' \in {diagnostics, [hosts |-> Cardinality(up), phases |-> 1,
                                               byHost |-> [ip \in {} |-> None]]}
      BY <2>1 DEF HostDiscovery
    <3>2. PICK scan \in [up -> HostReport] :
            /\ devices' = [ip \in up |-> NewDevice(scan[ip])]
            /\ observations' = ScanObservations(scan, CallRun)
      BY <3>1, HostReportsAssumption
    <3>3. devices' \in [up -> DeviceType] /\ Discovered' = up
      BY <3>2 DEF NewDevice, DeviceType, HostReport, Discovered
    <3>4. \A o \in observations' : o.type = "identity" /\ o.run = CallRun /\ o.subject \in up
      BY <3>2, ScanEvidence
    <3>5. Discovered = {} /\ DOMAIN result = {}
      BY <2>1 DEF HostDiscovery, TypeOK, Discovered
    <3>6. /\ diagnostics'.hosts \in Nat /\ diagnostics'.phases \in 0..2
          /\ DOMAIN diagnostics'.byHost \subseteq up
      BY <3>1, <3>5, <2>0 DEF TypeOK
    <3>7. profile' = profile /\ result' = result /\ phase' \in {"returned", "enrichment"}
      BY <2>1 DEF HostDiscovery
    <3> QED BY <3>3, <3>4, <3>5, <3>6, <3>7 DEF TypeOK
  <2>2. CASE ServiceEnrichment
    <3>1. PICK heard \in SUBSET Discovered : \E scan \in [heard -> HostData] :
            /\ result' = scan
            /\ devices' = [ip \in Discovered |-> Enriched(devices[ip], DataOf(scan, ip))]
            /\ observations' = observations \cup
                 UNION {HostObservations(ip, DataOf(scan, ip)) : ip \in Discovered}
            /\ diagnostics' = [hosts |-> Cardinality(Discovered), phases |-> 2,
                               byHost |-> [ip \in Discovered |-> Diagnose(DataOf(scan, ip))]]
      BY <2>2 DEF ServiceEnrichment
    <3>2. result' \in [heard -> HostData]
      BY <3>1
    <3>3. \A ip \in Discovered : Enriched(devices[ip], DataOf(result', ip)) \in DeviceType
      BY <3>2, EnrichedType DEF TypeOK
    <3>4. devices' \in [Discovered -> DeviceType] /\ Discovered' = Discovered
      BY <3>1, <3>3 DEF Discovered
    <3>5. \A o \in observations' : /\ o.type = "identity" /\ o.run = CallRun
                                   /\ o.subject \in Discovered
      BY <3>1, HostEvidence DEF TypeOK
    <3>6. /\ diagnostics'.hosts \in Nat /\ diagnostics'.phases \in 0..2
          /\ DOMAIN diagnostics'.byHost = Discovered
      BY <3>1, <2>0 DEF TypeOK
    <3>7. profile' = profile /\ phase' = "returned"
      BY <2>2 DEF ServiceEnrichment
    <3> QED BY <3>2, <3>4, <3>5, <3>6, <3>7 DEF TypeOK
  <2>3. CASE ScanRaises
    BY <2>3 DEF ScanRaises, TypeOK, Discovered
  <2>4. CASE UNCHANGED vars
    BY <2>4 DEF vars, TypeOK, Discovered
  <2> QED BY <2>1, <2>2, <2>3, <2>4 DEF Next, Ended
<1> QED BY <1>1, <1>2, PTL DEF Spec

-----------------------------------------------------------------------------
(* The facts on a device and the evidence retained of it. *)

(* The inductive form of FactsAreEvidence, observation by observation; before *)
(* the second scan no device has a computer name or a domain, so that what    *)
(* the merge writes replaces nothing.                                         *)
OneAccount ==
  /\ \A o \in observations : /\ o.property \in IdentityProperties
                             /\ devices[o.subject][o.property] # None
  /\ \A ip \in Discovered : \A p \in IdentityProperties : devices[ip][p] # None =>
       \E o \in observations : /\ o.type = "identity" /\ o.subject = ip
                               /\ o.property = p /\ o.value = devices[ip][p]
  /\ phase = "enrichment" => \A ip \in Discovered :
       devices[ip].computer_name = None /\ devices[ip].domain = None

(* The first scan writes an account of itself. *)
LEMMA DiscoveryAccount == TypeOK /\ HostDiscovery => OneAccount'
<1> SUFFICES ASSUME TypeOK, HostDiscovery PROVE OneAccount'
  OBVIOUS
<1>1. PICK up \in SUBSET Subnet : \E scan \in [up -> HostReport] :
        /\ devices' = [ip \in up |-> NewDevice(scan[ip])]
        /\ observations' = ScanObservations(scan, CallRun)
  BY HostReportsAssumption DEF HostDiscovery
<1>2. PICK scan \in [up -> HostReport] :
        /\ devices' = [ip \in up |-> NewDevice(scan[ip])]
        /\ observations' = ScanObservations(scan, CallRun)
  BY <1>1
<1>3. /\ Discovered' = up
      /\ \A ip \in up : /\ devices'[ip].hostname = scan[ip].hostname
                        /\ devices'[ip].mac_address = scan[ip].mac
                        /\ devices'[ip].computer_name = None
                        /\ devices'[ip].domain = None
  BY <1>2 DEF NewDevice, Discovered
<1>4. \A o \in observations' : /\ o.property \in IdentityProperties
                               /\ devices'[o.subject][o.property] # None
  BY <1>2, <1>3, ScanEvidence DEF IdentityProperties
<1>5. \A ip \in up : \A p \in IdentityProperties : devices'[ip][p] # None =>
        \E o \in observations' : /\ o.type = "identity" /\ o.subject = ip
                                 /\ o.property = p /\ o.value = devices'[ip][p]
  BY <1>2, <1>3, ScanEvidence DEF IdentityProperties
<1> QED BY <1>3, <1>4, <1>5 DEF OneAccount

(* The second scan adds what it writes to the devices to the account. *)
LEMMA EnrichmentAccount == TypeOK /\ OneAccount /\ ServiceEnrichment => OneAccount'
<1> SUFFICES ASSUME TypeOK, OneAccount, ServiceEnrichment PROVE OneAccount'
  OBVIOUS
<1>1. PICK scan :
        /\ devices' = [ip \in Discovered |-> Enriched(devices[ip], DataOf(scan, ip))]
        /\ observations' = observations \cup
             UNION {HostObservations(ip, DataOf(scan, ip)) : ip \in Discovered}
  BY DEF ServiceEnrichment
<1>2. phase = "enrichment" /\ phase' = "returned" /\ Discovered' = Discovered
  BY <1>1 DEF ServiceEnrichment, Discovered
<1>3. \A ip \in Discovered : devices'[ip] = Enriched(devices[ip], DataOf(scan, ip))
  BY <1>1
<1>4. \A ip \in Discovered : /\ devices'[ip].hostname = devices[ip].hostname
                             /\ devices'[ip].mac_address = devices[ip].mac_address
  BY <1>3, HostEvidence
<1>5. \A ip \in Discovered : \A o \in HostObservations(ip, DataOf(scan, ip)) :
        /\ o \in observations' /\ o.type = "identity" /\ o.subject = ip
        /\ \/ o.property = "computer_name" /\ devices'[ip].computer_name # None
           \/ o.property = "domain" /\ devices'[ip].domain # None
  BY <1>1, <1>3, HostEvidence
<1>6. \A o \in observations : /\ o.property \in {"hostname", "mac_address"}
                              /\ o.subject \in Discovered /\ o \in observations'
  BY <1>1, <1>2 DEF OneAccount, TypeOK, IdentityProperties
<1>7. \A o \in observations' : /\ o.property \in IdentityProperties
                               /\ devices'[o.subject][o.property] # None
  <2>1. \A o \in observations : devices'[o.subject][o.property] # None
    BY <1>4, <1>6 DEF OneAccount
  <2>2. \A o \in observations' : o \notin observations =>
          \E ip \in Discovered : o \in HostObservations(ip, DataOf(scan, ip))
    BY <1>1
  <2>3. \A o \in observations' : o \notin observations =>
          /\ o.property \in IdentityProperties
          /\ devices'[o.subject][o.property] # None
    BY <2>2, <1>5 DEF IdentityProperties
  <2> QED BY <2>1, <2>3, <1>6 DEF IdentityProperties
<1>8. \A ip \in Discovered : \A p \in IdentityProperties : devices'[ip][p] # None =>
        \E o \in observations' : /\ o.type = "identity" /\ o.subject = ip
                                 /\ o.property = p /\ o.value = devices'[ip][p]
  <2> SUFFICES ASSUME NEW ip \in Discovered, NEW p \in IdentityProperties,
                      devices'[ip][p] # None
               PROVE  \E o \in observations' : /\ o.type = "identity" /\ o.subject = ip
                                               /\ o.property = p /\ o.value = devices'[ip][p]
    OBVIOUS
  <2>1. CASE p \in {"hostname", "mac_address"}
    BY <2>1, <1>4, <1>6 DEF OneAccount, IdentityProperties
  <2>2. CASE p = "computer_name"
    <3>1. \E o \in HostObservations(ip, DataOf(scan, ip)) :
            /\ o.type = "identity" /\ o.subject = ip
            /\ o.property = "computer_name" /\ o.value = devices'[ip].computer_name
      BY <2>2, <1>3, HostEvidence
    <3> QED BY <3>1, <1>5, <2>2
  <2>3. CASE p = "domain"
    <3>1. \E o \in HostObservations(ip, DataOf(scan, ip)) :
            /\ o.type = "identity" /\ o.subject = ip
            /\ o.property = "domain" /\ o.value = devices'[ip].domain
      BY <2>3, <1>3, HostEvidence
    <3> QED BY <3>1, <1>5, <2>3
  <2> QED BY <2>1, <2>2, <2>3 DEF IdentityProperties
<1> QED BY <1>2, <1>7, <1>8 DEF OneAccount

LEMMA AlwaysOneAccount == Spec => []OneAccount
<1>1. Init => OneAccount
  BY DEF Init, OneAccount, Discovered
<1>2. TypeOK /\ OneAccount /\ [Next]_vars => OneAccount'
  <2> SUFFICES ASSUME TypeOK, OneAccount, [Next]_vars PROVE OneAccount'
    OBVIOUS
  <2>1. CASE ScanRaises
    BY <2>1 DEF ScanRaises, OneAccount, Discovered
  <2>2. CASE UNCHANGED vars
    BY <2>2 DEF vars, OneAccount, Discovered
  <2> QED BY <2>1, <2>2, DiscoveryAccount, EnrichmentAccount DEF Next, Ended
<1> QED BY <1>1, <1>2, TypeCorrect, PTL DEF Spec

(* Every identity fact on a device is backed by an observation with its      *)
(* value, and no source's report is without a fact.                          *)
THEOREM FactsAlwaysEvidence == Spec => []FactsAreEvidence
<1>1. TypeOK /\ OneAccount => FactsAreEvidence
  <2> SUFFICES ASSUME TypeOK, OneAccount, NEW ip \in Discovered, NEW p \in IdentityProperties
               PROVE  LET values == Values({o \in About(observations, ip) : o.property = p})
                      IN  IF devices[ip][p] = None THEN values = {}
                          ELSE devices[ip][p] \in values
    BY DEF FactsAreEvidence
  <2>1. {o \in About(observations, ip) : o.property = p}
          = {o \in observations : o.type = "identity" /\ o.subject = ip /\ o.property = p}
    BY DEF About, IdentitiesIn
  <2> QED BY <2>1 DEF Values, OneAccount
<1> QED BY <1>1, TypeCorrect, AlwaysOneAccount, PTL

(* The second scan loses or renames nothing that the first one found. *)
THEOREM EnrichmentAlwaysOnlyAdds == Spec => EnrichmentOnlyAdds
<1> DEFINE Adds == phase = "enrichment" =>
             /\ DOMAIN devices' = Discovered
             /\ \A ip \in Discovered : /\ devices'[ip].hostname = devices[ip].hostname
                                       /\ devices'[ip].mac_address = devices[ip].mac_address
             /\ observations \subseteq observations'
<1>1. TypeOK /\ [Next]_vars => [Adds]_vars
  <2> SUFFICES ASSUME phase = "enrichment", Next PROVE Adds
    BY DEF vars
  <2>1. CASE ServiceEnrichment
    <3>1. PICK scan :
            /\ devices' = [ip \in Discovered |-> Enriched(devices[ip], DataOf(scan, ip))]
            /\ observations \subseteq observations'
      BY <2>1 DEF ServiceEnrichment
    <3>2. \A ip \in Discovered : devices'[ip] = Enriched(devices[ip], DataOf(scan, ip))
      BY <3>1
    <3>3. \A ip \in Discovered :
            /\ devices'[ip].hostname = devices[ip].hostname
            /\ devices'[ip].mac_address = devices[ip].mac_address
      <4> SUFFICES ASSUME NEW ip \in Discovered
                   PROVE  /\ devices'[ip].hostname = devices[ip].hostname
                          /\ devices'[ip].mac_address = devices[ip].mac_address
        OBVIOUS
      <4>1. devices'[ip] = Enriched(devices[ip], DataOf(scan, ip))
        BY <3>2
      <4>2. /\ Enriched(devices[ip], DataOf(scan, ip)).hostname = devices[ip].hostname
            /\ Enriched(devices[ip], DataOf(scan, ip)).mac_address = devices[ip].mac_address
        BY DEF Enriched
      <4> QED BY <4>1, <4>2
    <3> QED BY <3>1, <3>3
  <2>2. CASE ScanRaises \/ Ended
    BY <2>2 DEF ScanRaises, Ended, vars, Discovered
  <2> QED BY <2>1, <2>2 DEF Next, HostDiscovery
<1>2. [][Adds]_vars => EnrichmentOnlyAdds
  BY DEF EnrichmentOnlyAdds
<1> HIDE DEF Adds
<1>3. Spec => [][Adds]_vars
  BY <1>1, TypeCorrect, PTL DEF Spec
<1> QED BY <1>2, <1>3

-----------------------------------------------------------------------------
(* What the call says of itself in its diagnostics. *)

(* A script's output reports something when one of its fields does. *)
LEMMA ReportsFields ==
  ASSUME NEW data \in Reported
  PROVE  /\ Reports(data.smb) <=> \/ data.smb.operating_system # None
                                  \/ data.smb.computer_name # None
                                  \/ SmbDomain(data) # None
                                  \/ data.smb.smb_signing # None
         /\ Reports(data.rdp) <=> \/ data.rdp.operating_system # None
                                  \/ data.rdp.computer_name # None
                                  \/ data.rdp.domain # None
<1>1. data.smb \in SmbOutput /\ data.rdp \in RdpOutput
  BY DEF Reported
<1>2. SmbDomain(data) # None <=> data.smb.domainName # None \/ data.smb.workgroup # None
  BY DEF SmbDomain, Or
<1>3. /\ DOMAIN data.smb = {"operating_system", "computer_name", "domainName", "workgroup",
                            "smb_signing"}
      /\ DOMAIN data.rdp = {"operating_system", "computer_name", "domain"}
  BY <1>1 DEF SmbOutput, RdpOutput
<1> QED BY <1>2, <1>3 DEF Reports

(* What enrichment may leave on a device. *)
Left(device) ==
  \/ device.services # {}
  \/ \E f \in {"operating_system", "computer_name", "domain", "smb_signing"} : device[f] # None

(* A host is called enriched exactly when enrichment leaves something on    *)
(* its device, although the one is judged before the merge and the other    *)
(* after it; where nothing is left, the reasons say so for every kind of    *)
(* evidence.                                                                 *)
LEMMA DiagnoseMatches ==
  ASSUME NEW device, NEW data \in Reported,
         NEW after, after = Enriched(device, data),
         NEW verdict, verdict = Diagnose(data)
  PROVE  /\ verdict.enriched <=> Left(after)
         /\ ~verdict.enriched => verdict.reasons =
              {"no curated ports open", "SMB unreachable", "RDP unreachable", "HTTP not present"}
<1>1. verdict.enriched <=>
        OpenPorts(data) # {} \/ Reports(data.smb) \/ Reports(data.rdp)
  BY DEF Diagnose
<1>2. /\ after.services = OpenPorts(data)
      /\ after.operating_system = Or(data.smb.operating_system, data.rdp.operating_system)
      /\ after.computer_name = Or(data.smb.computer_name, data.rdp.computer_name)
      /\ after.domain = Or(SmbDomain(data), data.rdp.domain)
      /\ after.smb_signing = data.smb.smb_signing
  BY DEF Enriched
<1>3. \A v, w : Or(v, w) # None <=> v # None \/ w # None
  BY DEF Or
<1>4. (\E f \in {"operating_system", "computer_name", "domain", "smb_signing"} : after[f] # None)
        <=> Reports(data.smb) \/ Reports(data.rdp)
  <2>1. (\E f \in {"operating_system", "computer_name", "domain", "smb_signing"} : after[f] # None)
          <=> \/ after.operating_system # None \/ after.computer_name # None
              \/ after.domain # None \/ after.smb_signing # None
    OBVIOUS
  <2> QED BY <1>2, <1>3, <2>1, ReportsFields
<1>5. ASSUME ~verdict.enriched
      PROVE  verdict.reasons =
              {"no curated ports open", "SMB unreachable", "RDP unreachable", "HTTP not present"}
  <2>1. OpenPorts(data) = {}
    BY <1>1, <1>5
  <2>2. verdict.reasons = Reasons({})
    BY <2>1 DEF Diagnose
  <2>3. Numbers({}) = {} /\ HttpLike({}) = {} /\ TlsLike({}) = {}
    BY DEF Numbers, HttpLike, TlsLike
  <2>4. \A r : r \in Reasons({}) <=> r \in {"no curated ports open", "SMB unreachable",
                                           "RDP unreachable", "HTTP not present"}
    BY <2>3 DEF Reasons
  <2> QED BY <2>2, <2>4
<1> QED BY <1>1, <1>2, <1>4, <1>5 DEF Left

(* The strengthening: the second scan is run for a profile that asks for it, *)
(* and only when there is a host to scan.                                    *)
Diagnosed ==
  /\ DiagnosticsMatchDevices
  /\ phase = "enrichment" => profile # "fast" /\ Discovered # {}

LEMMA DiagnosedByDiscovery == HostDiscovery => Diagnosed'
<1> SUFFICES ASSUME HostDiscovery PROVE Diagnosed'
  OBVIOUS
<1>1. PICK up \in SUBSET Subnet :
        /\ DOMAIN devices' = up
        /\ \/ /\ profile = "fast" \/ up = {}
              /\ diagnostics' = [hosts |-> Cardinality(up), phases |-> 1,
                                 byHost |-> [ip \in {} |-> None]]
           \/ profile # "fast" /\ up # {} /\ phase' = "enrichment"
  BY DEF HostDiscovery
<1>2. profile' = profile /\ Discovered' = up
  BY <1>1 DEF HostDiscovery, Discovered
<1>3. CASE phase' = "enrichment"
  BY <1>1, <1>2, <1>3 DEF Diagnosed, DiagnosticsMatchDevices, HostDiscovery
<1>4. CASE phase' # "enrichment"
  <2>1. /\ profile = "fast" \/ up = {}
        /\ diagnostics'.hosts = Cardinality(up) /\ diagnostics'.phases = 1
        /\ DOMAIN diagnostics'.byHost = {}
    BY <1>1, <1>4
  <2> QED BY <1>2, <1>4, <2>1 DEF Diagnosed, DiagnosticsMatchDevices
<1> QED BY <1>3, <1>4

LEMMA DiagnosedByEnrichment == TypeOK /\ Diagnosed /\ ServiceEnrichment => Diagnosed'
<1> SUFFICES ASSUME TypeOK, Diagnosed, ServiceEnrichment PROVE Diagnosed'
  OBVIOUS
<1>1. PICK heard \in SUBSET Discovered : \E scan \in [heard -> HostData] :
        /\ devices' = [ip \in Discovered |-> Enriched(devices[ip], DataOf(scan, ip))]
        /\ diagnostics' = [hosts |-> Cardinality(Discovered), phases |-> 2,
                           byHost |-> [ip \in Discovered |-> Diagnose(DataOf(scan, ip))]]
  BY DEF ServiceEnrichment
<1>2. PICK scan \in [heard -> HostData] :
        /\ devices' = [ip \in Discovered |-> Enriched(devices[ip], DataOf(scan, ip))]
        /\ diagnostics' = [hosts |-> Cardinality(Discovered), phases |-> 2,
                           byHost |-> [ip \in Discovered |-> Diagnose(DataOf(scan, ip))]]
  BY <1>1
<1>3. \A ip \in Discovered : /\ devices'[ip] = Enriched(devices[ip], DataOf(scan, ip))
                             /\ diagnostics'.byHost[ip] = Diagnose(DataOf(scan, ip))
                             /\ DataOf(scan, ip) \in Reported
  BY <1>2, DataType
<1>4. /\ phase' = "returned" /\ profile # "fast" /\ profile' = profile
      /\ Discovered # {} /\ Discovered' = Discovered
      /\ diagnostics'.hosts = Cardinality(Discovered) /\ diagnostics'.phases = 2
      /\ DOMAIN diagnostics'.byHost = Discovered
  BY <1>2 DEF ServiceEnrichment, Diagnosed, Discovered
<1>5. ASSUME NEW ip \in Discovered
      PROVE  /\ diagnostics'.byHost[ip].enriched <=> Left(devices'[ip])
             /\ ~diagnostics'.byHost[ip].enriched =>
                  diagnostics'.byHost[ip].reasons =
                    {"no curated ports open", "SMB unreachable", "RDP unreachable",
                     "HTTP not present"}
  <2>1. /\ devices'[ip] = Enriched(devices[ip], DataOf(scan, ip))
        /\ diagnostics'.byHost[ip] = Diagnose(DataOf(scan, ip))
        /\ DataOf(scan, ip) \in Reported
    BY <1>3
  <2> QED BY <2>1, DiagnoseMatches
<1> QED BY <1>4, <1>5 DEF Diagnosed, DiagnosticsMatchDevices, Left

(* The diagnostics of a call say of each of its devices what is on it: as    *)
(* many hosts as devices, a verdict for each exactly when there was a second *)
(* scan, "enriched" exactly where it left something.                         *)
THEOREM DiagnosticsAlwaysMatch == Spec => []DiagnosticsMatchDevices
<1>1. Init => Diagnosed
  BY DEF Init, Diagnosed, DiagnosticsMatchDevices
<1>2. TypeOK /\ Diagnosed /\ [Next]_vars => Diagnosed'
  <2> SUFFICES ASSUME TypeOK, Diagnosed, [Next]_vars PROVE Diagnosed'
    OBVIOUS
  <2>1. CASE ScanRaises
    BY <2>1 DEF ScanRaises, Diagnosed, DiagnosticsMatchDevices, Discovered
  <2>2. CASE UNCHANGED vars
    BY <2>2 DEF vars, Diagnosed, DiagnosticsMatchDevices, Discovered
  <2> QED BY <2>1, <2>2, DiagnosedByDiscovery, DiagnosedByEnrichment DEF Next, Ended
<1>3. Diagnosed => DiagnosticsMatchDevices
  BY DEF Diagnosed
<1> QED BY <1>1, <1>2, <1>3, TypeCorrect, PTL DEF Spec

-----------------------------------------------------------------------------
(* What the merge decides, the resolver still sees. *)

(* Of two reports of one property, SMB's and RDP's, the resolver makes a     *)
(* confirmation when they agree and a conflict when they do not.             *)
LEMMA TwoReports ==
  ASSUME NEW ip, NEW p, NEW v, NEW w, v # None, w # None
  PROVE  LET group == Emit(ip, p, v, SmbSource) \cup Emit(ip, p, w, RdpSource)
         IN  /\ group # {}
             /\ PropertyState(group) = IF v = w THEN "confirmed" ELSE "conflicting"
<1> DEFINE x == IdentityObservation(ip, p, v, SmbSource, CallRun)
           y == IdentityObservation(ip, p, w, RdpSource, CallRun)
<1>1. /\ Emit(ip, p, v, SmbSource) = {x} /\ Emit(ip, p, w, RdpSource) = {y}
  BY DEF Emit
<1>2. x.value = v /\ y.value = w /\ x.source = SmbSource /\ y.source = RdpSource
  BY DEF IdentityObservation
<1>3. SmbSource # RdpSource
  BY DEF SmbSource, RdpSource, Source
<1> HIDE DEF x, y
<1>4. Values({x, y}) = {v, w} /\ Sources({x, y}) = {SmbSource, RdpSource}
  BY <1>2 DEF Values, Sources
<1>5. PropertyState({x, y}) = IF v = w THEN "confirmed" ELSE "conflicting"
  BY <1>3, <1>4 DEF PropertyState, Several
<1>6. {x} \cup {y} = {x, y}
  OBVIOUS
<1> QED BY <1>1, <1>5, <1>6

(* What a host's enrichment retains of one property is the two reports.      *)
LEMMA HostReportsOf ==
  ASSUME NEW ip, NEW data
  PROVE  /\ {o \in HostObservations(ip, data) : o.property = "computer_name"}
               = Emit(ip, "computer_name", data.smb.computer_name, SmbSource)
                 \cup Emit(ip, "computer_name", data.rdp.computer_name, RdpSource)
         /\ {o \in HostObservations(ip, data) : o.property = "domain"}
               = Emit(ip, "domain", SmbDomain(data), SmbSource)
                 \cup Emit(ip, "domain", data.rdp.domain, RdpSource)
<1> DEFINE smbName   == Emit(ip, "computer_name", data.smb.computer_name, SmbSource)
           rdpName   == Emit(ip, "computer_name", data.rdp.computer_name, RdpSource)
           smbDomain == Emit(ip, "domain", SmbDomain(data), SmbSource)
           rdpDomain == Emit(ip, "domain", data.rdp.domain, RdpSource)
<1>1. HostObservations(ip, data) = smbName \cup rdpName \cup smbDomain \cup rdpDomain
  BY DEF HostObservations
<1>2. /\ \A o \in smbName \cup rdpName : o.property = "computer_name"
      /\ \A o \in smbDomain \cup rdpDomain : o.property = "domain"
  BY EmitEvidence
<1> HIDE DEF smbName, rdpName, smbDomain, rdpDomain
<1>3. /\ {o \in HostObservations(ip, data) : o.property = "computer_name"} = smbName \cup rdpName
      /\ {o \in HostObservations(ip, data) : o.property = "domain"} = smbDomain \cup rdpDomain
  BY <1>1, <1>2
<1> QED BY <1>3 DEF smbName, rdpName, smbDomain, rdpDomain

(* It is retained under the host's own address. *)
LEMMA HostSubject ==
  ASSUME NEW ip, NEW data
  PROVE  \A o \in HostObservations(ip, data) : o.type = "identity" /\ o.subject = ip
BY HostEvidence

(* After the second scan, all that is known of a host's computer name and    *)
(* domain is what that scan retained under its address.                      *)
LEMMA DetailsOfHost ==
  ASSUME TypeOK, OneAccount, phase = "enrichment", NEW scan,
         observations' = observations \cup
           UNION {HostObservations(ip, DataOf(scan, ip)) : ip \in Discovered},
         NEW ip \in Discovered, NEW p \in {"computer_name", "domain"}
  PROVE  {o \in About(observations', ip) : o.property = p}
           = {o \in HostObservations(ip, DataOf(scan, ip)) : o.property = p}
<1>1. \A o \in observations : o.property # p
  BY DEF TypeOK, OneAccount
<1>2. \A x \in Discovered : \A o \in HostObservations(x, DataOf(scan, x)) :
        o.type = "identity" /\ o.subject = x
  BY HostSubject
<1>3. \A o : o \in About(observations', ip) /\ o.property = p
           <=> o \in HostObservations(ip, DataOf(scan, ip)) /\ o.property = p
  BY <1>1, <1>2 DEF About, IdentitiesIn
<1> QED BY <1>3

LEMMA MergeShownByEnrichment ==
  TypeOK /\ OneAccount /\ ServiceEnrichment => MergeHidesNoConflict'
<1> SUFFICES ASSUME TypeOK, OneAccount, ServiceEnrichment PROVE MergeHidesNoConflict'
  OBVIOUS
<1>1. PICK heard \in SUBSET Discovered : \E scan \in [heard -> HostData] :
        /\ result' = scan
        /\ devices' = [ip \in Discovered |-> Enriched(devices[ip], DataOf(scan, ip))]
        /\ observations' = observations \cup
             UNION {HostObservations(ip, DataOf(scan, ip)) : ip \in Discovered}
  BY DEF ServiceEnrichment
<1> DEFINE Data(ip) == DataOf(result', ip)
           smb(ip) == [computer_name |-> Data(ip).smb.computer_name,
                       domain |-> SmbDomain(Data(ip))]
           rdp(ip) == Data(ip).rdp
<1>2. /\ DOMAIN result' = heard
      /\ \A ip \in heard : DataOf(result', ip) = result'[ip]
      /\ \A ip \in Discovered : devices'[ip] = Enriched(devices[ip], Data(ip))
      /\ observations' = observations \cup
             UNION {HostObservations(ip, Data(ip)) : ip \in Discovered}
  BY <1>1 DEF DataOf
<1>3. ASSUME NEW ip \in heard, NEW p \in {"computer_name", "domain"},
             smb(ip)[p] # None, rdp(ip)[p] # None
      PROVE  /\ devices'[ip][p] = smb(ip)[p]
             /\ PropertyStates(observations', ip)[p] =
                  IF smb(ip)[p] = rdp(ip)[p] THEN "confirmed" ELSE "conflicting"
  <2> DEFINE group == {o \in About(observations', ip) : o.property = p}
  <2>1. group = Emit(ip, p, smb(ip)[p], SmbSource) \cup Emit(ip, p, rdp(ip)[p], RdpSource)
    <3>1. group = {o \in HostObservations(ip, Data(ip)) : o.property = p}
      <4> HIDE DEF Data
      <4>1. phase = "enrichment" /\ ip \in Discovered
        BY DEF ServiceEnrichment
      <4>2. observations' = observations \cup
             UNION {HostObservations(x, DataOf(result', x)) : x \in Discovered}
        BY <1>2 DEF Data
      <4> QED BY <4>1, <4>2, DetailsOfHost DEF Data
    <3> HIDE DEF group, Data
    <3>2. smb(ip).computer_name = Data(ip).smb.computer_name /\ smb(ip).domain = SmbDomain(Data(ip))
      OBVIOUS
    <3>3. CASE p = "computer_name"
      BY <3>1, <3>2, <3>3, HostReportsOf
    <3>4. CASE p = "domain"
      BY <3>1, <3>2, <3>4, HostReportsOf
    <3> QED BY <3>3, <3>4
  <2>2. /\ group # {}
        /\ PropertyState(group) = IF smb(ip)[p] = rdp(ip)[p] THEN "confirmed" ELSE "conflicting"
    <3> HIDE DEF group, smb, rdp
    <3> QED BY <1>3, <2>1, TwoReports
  <2>3. PropertyStates(observations', ip)[p] = PropertyState(group)
    <3>1. p \in {o.property : o \in About(observations', ip)}
      BY <2>2
    <3> QED BY <3>1 DEF PropertyStates
  <2>4. devices'[ip][p] = smb(ip)[p]
    <3>1. devices'[ip] = Enriched(devices[ip], Data(ip))
      BY <1>2
    <3> HIDE DEF Data
    <3> QED BY <1>3, <3>1 DEF Enriched, Or
  <2> QED BY <2>2, <2>3, <2>4
<1>4. ASSUME NEW ip \in heard
      PROVE  /\ smb(ip) = [computer_name |-> result'[ip].smb.computer_name,
                           domain |-> SmbDomain(result'[ip])]
             /\ rdp(ip) = result'[ip].rdp
  BY <1>2
<1> HIDE DEF smb, rdp, Data
<1> QED BY <1>2, <1>3, <1>4 DEF MergeHidesNoConflict

(* Where SMB and RDP name different computers or domains the device carries  *)
(* SMB's and the resolved identity is conflicting; where they agree it is    *)
(* confirmed (nmap_provider.py:349, ADR-012).                                *)
THEOREM MergeNeverHidesConflict == Spec => []MergeHidesNoConflict
<1>1. Init => MergeHidesNoConflict
  BY DEF Init, MergeHidesNoConflict
<1>2. TypeOK /\ OneAccount /\ MergeHidesNoConflict /\ [Next]_vars => MergeHidesNoConflict'
  <2> SUFFICES ASSUME TypeOK, OneAccount, MergeHidesNoConflict, [Next]_vars
               PROVE  MergeHidesNoConflict'
    OBVIOUS
  <2>1. CASE HostDiscovery
    <3>1. DOMAIN result' = {}
      BY <2>1 DEF HostDiscovery, TypeOK, Discovered
    <3> QED BY <3>1 DEF MergeHidesNoConflict
  <2>2. CASE ScanRaises
    BY <2>2 DEF ScanRaises, MergeHidesNoConflict
  <2>3. CASE UNCHANGED vars
    BY <2>3 DEF vars, MergeHidesNoConflict
  <2> QED BY <2>1, <2>2, <2>3, MergeShownByEnrichment DEF Next, Ended
<1> QED BY <1>1, <1>2, TypeCorrect, AlwaysOneAccount, PTL DEF Spec

-----------------------------------------------------------------------------
(* The provider implements the contract of the engine's Discover step. *)

(* The devices as the contract sees them; once the first scan is over they   *)
(* are host reports, and what is retained beyond details is exactly what     *)
(* host discovery retains of them.                                           *)
Found == [ip \in Discovered |-> [hostname |-> devices[ip].hostname,
                                 mac      |-> devices[ip].mac_address]]

Kept(obs) == {o \in obs : ~IsDetail(o)}

ScanKept ==
  phase \in {"enrichment", "returned"} =>
    /\ Found \in [Discovered -> HostReports]
    /\ Kept(observations) = ScanObservations(Found, CallRun)

LEMMA ScanKeptByDiscovery == TypeOK /\ HostDiscovery => ScanKept'
<1> SUFFICES ASSUME TypeOK, HostDiscovery PROVE ScanKept'
  OBVIOUS
<1>1. PICK up \in SUBSET Subnet : \E scan \in [up -> HostReports] :
        /\ devices' = [ip \in up |-> NewDevice(scan[ip])]
        /\ observations' = ScanObservations(scan, CallRun)
  BY DEF HostDiscovery
<1>2. PICK scan \in [up -> HostReports] :
        /\ devices' = [ip \in up |-> NewDevice(scan[ip])]
        /\ observations' = ScanObservations(scan, CallRun)
  BY <1>1
<1>3. \A r \in HostReports : [hostname |-> r.hostname, mac |-> r.mac] = r
  BY HostReportsAssumption DEF HostReport
<1>4. /\ Discovered' = up
      /\ \A ip \in up : /\ devices'[ip].hostname = scan[ip].hostname
                        /\ devices'[ip].mac_address = scan[ip].mac
  BY <1>2 DEF NewDevice, Discovered
<1>5. Found' = [ip \in up |-> [hostname |-> scan[ip].hostname, mac |-> scan[ip].mac]]
  BY <1>4 DEF Found
<1>6. Found' = scan
  BY <1>3, <1>5
<1>7. \A o \in observations' : ~IsDetail(o)
  BY <1>2, HostReportsAssumption, ScanEvidence DEF IsDetail
<1> QED BY <1>2, <1>4, <1>6, <1>7 DEF ScanKept, Kept

LEMMA ScanKeptByEnrichment == TypeOK /\ ScanKept /\ ServiceEnrichment => ScanKept'
<1> SUFFICES ASSUME TypeOK, ScanKept, ServiceEnrichment PROVE ScanKept'
  OBVIOUS
<1>1. PICK scan :
        /\ devices' = [ip \in Discovered |-> Enriched(devices[ip], DataOf(scan, ip))]
        /\ observations' = observations \cup
             UNION {HostObservations(ip, DataOf(scan, ip)) : ip \in Discovered}
  BY DEF ServiceEnrichment
<1>2. phase = "enrichment" /\ Discovered' = Discovered
  BY <1>1 DEF ServiceEnrichment, Discovered
<1>3. \A ip \in Discovered : devices'[ip] = Enriched(devices[ip], DataOf(scan, ip))
  BY <1>1
<1>4. \A ip \in Discovered : /\ devices'[ip].hostname = devices[ip].hostname
                             /\ devices'[ip].mac_address = devices[ip].mac_address
  BY <1>3, HostEvidence
<1>5. Found' = Found
  BY <1>2, <1>4 DEF Found
<1>6. \A ip \in Discovered : \A o \in HostObservations(ip, DataOf(scan, ip)) : IsDetail(o)
  BY HostEvidence DEF IsDetail
<1>7. Kept(observations') = Kept(observations)
  BY <1>1, <1>6 DEF Kept
<1> QED BY <1>2, <1>5, <1>7 DEF ScanKept

LEMMA AlwaysScanKept == Spec => []ScanKept
<1>1. Init => ScanKept
  BY DEF Init, ScanKept
<1>2. TypeOK /\ ScanKept /\ [Next]_vars => ScanKept'
  <2> SUFFICES ASSUME TypeOK, ScanKept, [Next]_vars PROVE ScanKept'
    OBVIOUS
  <2>1. CASE ScanRaises
    BY <2>1 DEF ScanRaises, ScanKept
  <2>2. CASE UNCHANGED vars
    BY <2>2 DEF vars, ScanKept, Found, Discovered
  <2> QED BY <2>1, <2>2, ScanKeptByDiscovery, ScanKeptByEnrichment DEF Next, Ended
<1> QED BY <1>1, <1>2, TypeCorrect, PTL DEF Spec

(* A step that returns is the contract's Returns. *)
LEMMA ReturnStep ==
  ASSUME TypeOK', OneAccount', ScanKept', Next,
         phase \in {"discovery", "enrichment"}, phase' = "returned"
  PROVE  Contract!Returns
<1>1. Found' \in [Discovered' -> HostReports] /\ Discovered' \in SUBSET Subnet
  BY DEF ScanKept, TypeOK
<1>2. {o \in observations' : ~IsDetail(o)} = ScanObservations(Found', CallRun)
  BY DEF ScanKept, Kept
<1>3. \A o \in {x \in observations' : IsDetail(x)} :
        /\ o.type = "identity" /\ o.run = CallRun /\ o.subject \in Discovered'
        /\ o.property \in {"computer_name", "domain"}
  BY DEF TypeOK, IsDetail
<1>4. DOMAIN Found' = Discovered'
  BY DEF Found
<1>5. Returned' /\ ~Returned
  BY DEF Returned
<1>6. \A scan, run : Contract!ScanObservations(scan, run) = ScanObservations(scan, run)
  BY DEF Contract!ScanObservations, ScanObservations, Contract!IdentityObservation,
         IdentityObservation, Contract!NmapSource, NmapSource, Contract!Source, Source
<1>7. Contract!ScanRun = CallRun
  BY DEF Contract!ScanRun, CallRun
<1> DEFINE f == IF Returned THEN Found ELSE [ip \in {} |-> None]
           c == IF Returned THEN {o \in observations : ~IsDetail(o)} ELSE {}
           d == IF Returned THEN {o \in observations : IsDetail(o)} ELSE {}
<1>8. \E up \in SUBSET Subnet : f' \in [up -> HostReports]
  BY <1>1, <1>5
<1>9. c' = Contract!ScanObservations(f', Contract!ScanRun)
  BY <1>2, <1>5, <1>6, <1>7
<1>10. \A o \in d' : /\ o.type = "identity" /\ o.run = Contract!ScanRun
                     /\ o.subject \in DOMAIN f'
                     /\ o.property \in {"computer_name", "domain"}
  BY <1>3, <1>4, <1>5, <1>7
<1> QED BY <1>8, <1>9, <1>10 DEF Contract!Returns, Found

(* What discover() returns is devices of the subnet with exactly their       *)
(* host-discovery observations, at once, or nothing.                         *)
THEOREM ProviderImplementsContract == Spec => ImplementsScanContract
<1>1. Init => Contract!ContractInit
  BY DEF Init, Contract!ContractInit, Returned
<1>2. TypeOK /\ TypeOK' /\ OneAccount' /\ ScanKept' /\ [Next]_vars
        => [Contract!Returns \/ Contract!Raises]_Contract!contractVars
  <2> SUFFICES ASSUME TypeOK, TypeOK', OneAccount', ScanKept', [Next]_vars
               PROVE  [Contract!Returns \/ Contract!Raises]_Contract!contractVars
    OBVIOUS
  <2>1. CASE HostDiscovery
    <3>1. phase = "discovery" /\ phase' \in {"enrichment", "returned"}
      BY <2>1 DEF HostDiscovery
    <3>2. CASE phase' = "returned"
      BY <3>1, <3>2, <2>1, ReturnStep DEF Next
    <3>3. CASE phase' = "enrichment"
      BY <3>1, <3>3 DEF Contract!contractVars, Returned
    <3> QED BY <3>1, <3>2, <3>3
  <2>2. CASE ServiceEnrichment
    BY <2>2, ReturnStep DEF ServiceEnrichment, Next
  <2>3. CASE ScanRaises
    BY <2>3 DEF ScanRaises, Contract!Raises, Returned
  <2>4. CASE UNCHANGED vars
    BY <2>4 DEF vars, Contract!contractVars, Returned, Discovered
  <2> QED BY <2>1, <2>2, <2>3, <2>4 DEF Next, Ended
<1> QED
  BY <1>1, <1>2, TypeCorrect, AlwaysOneAccount, AlwaysScanKept, PTL
  DEF Spec, ImplementsScanContract, Contract!ContractSpec
=============================================================================
