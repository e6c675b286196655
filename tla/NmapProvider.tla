---------------------------- MODULE NmapProvider ----------------------------
(***************************************************************************)
(* One call of NmapProvider.discover(): host discovery, and for the        *)
(* STANDARD and DEEP profiles a second scan of the hosts found, whose      *)
(* SMB and RDP evidence is merged into the devices per field while each    *)
(* source's report is retained as an observation of its own.  The two      *)
(* scans see the network at different times: a host may be gone from the   *)
(* second result or answer it with other names.                            *)
(***************************************************************************)
EXTENDS HostScan, Resolution, Integers, FiniteSets

CONSTANTS Subnet,    \* the addresses scanned
          Profiles,  \* the profiles this provider may be configured with
          HostData   \* what the second scan can say of a host

(***************************************************************************)
(* A port of the second scan: its number, whether it is open, the service  *)
(* name nmap resolved, and which per-port scripts returned something.      *)
(***************************************************************************)
Port == [number : Nat, open : BOOLEAN,
         service : {"http", "https", "ssl", "other", None},
         scripts : SUBSET {"http-title", "ssl-cert", "http-auth"}]

SmbOutput == [operating_system : Name \cup {None}, computer_name : Name \cup {None},
              domainName : Name \cup {None}, workgroup : Name \cup {None},
              smb_signing : Name \cup {None}]

RdpOutput == [operating_system : Name \cup {None}, computer_name : Name \cup {None},
              domain : Name \cup {None}]

ASSUME ProviderAssumption ==
  /\ Subnet \subseteq Ip /\ IsFiniteSet(Subnet)
  /\ Profiles \subseteq {"fast", "standard", "deep"}
  /\ HostData \subseteq [report : HostReport, ports : SUBSET Port,
                         smb : SmbOutput, rdp : RdpOutput]

VARIABLES
  profile,       \* _scan_profile
  phase,         \* which scan runs next, or how the call ended
  devices,       \* devices_by_ip
  observations,  \* _observations
  result,        \* enriched_hosts: what the second scan returned, by host
  diagnostics    \* run_diagnostics

vars == <<profile, phase, devices, observations, result, diagnostics>>

Discovered == DOMAIN devices
NoDiagnostics == [hosts |-> 0, phases |-> 0, byHost |-> [ip \in {} |-> None]]

Init ==
  /\ profile \in Profiles /\ phase = "discovery"
  /\ devices = [ip \in {} |-> None] /\ observations = {}
  /\ result = [ip \in {} |-> None]
  /\ diagnostics = NoDiagnostics

-----------------------------------------------------------------------------
(* Host discovery: _build_device for every host of the first scan.  FAST     *)
(* ends here, and so does a scan that found nobody.                          *)

CallRun == <<"nmap", 0>>   \* _current_run_id

NewDevice(report) ==
  [hostname |-> report.hostname, mac_address |-> report.mac, services |-> {},
   operating_system |-> None, computer_name |-> None, domain |-> None,
   smb_signing |-> None]

HostDiscovery ==
  /\ phase = "discovery"
  /\ \E up \in SUBSET Subnet : \E scan \in [up -> HostReports] :
       /\ devices' = [ip \in up |-> NewDevice(scan[ip])]
       /\ observations' = ScanObservations(scan, CallRun)
       /\ IF profile = "fast" \/ up = {}
          THEN /\ phase' = "returned"
               /\ diagnostics' = [hosts |-> Cardinality(up), phases |-> 1,
                                   byHost |-> [ip \in {} |-> None]]
          ELSE /\ phase' = "enrichment"
               /\ UNCHANGED diagnostics
  /\ UNCHANGED <<profile, result>>

-----------------------------------------------------------------------------
(* Service enrichment. *)

Or(a, b) == IF a # None THEN a ELSE b

(* A host the second scan does not mention is read as an empty result. *)
NoData == [report |-> [hostname |-> None, mac |-> None], ports |-> {},
           smb |-> [operating_system |-> None, computer_name |-> None,
                    domainName |-> None, workgroup |-> None, smb_signing |-> None],
           rdp |-> [operating_system |-> None, computer_name |-> None, domain |-> None]]

DataOf(scan, ip) == IF ip \in DOMAIN scan THEN scan[ip] ELSE NoData

OpenPorts(data) == {p \in data.ports : p.open}
SmbDomain(data) == Or(data.smb.domainName, data.smb.workgroup)

(* Mutation: the host name of the second scan is preferred. *)
Enriched_Renames(device, data) ==
  [hostname |-> Or(data.report.hostname, device.hostname), mac_address |-> device.mac_address,
   services |-> OpenPorts(data),
   operating_system |-> Or(data.smb.operating_system, data.rdp.operating_system),
   computer_name |-> Or(data.smb.computer_name, data.rdp.computer_name),
   domain |-> Or(SmbDomain(data), data.rdp.domain),
   smb_signing |-> data.smb.smb_signing]

(* SMB wins, per field: RDP fills in what SMB left empty. *)
Enriched(device, data) ==
  [hostname |-> device.hostname, mac_address |-> device.mac_address,
   services |-> OpenPorts(data),
   operating_system |-> Or(data.smb.operating_system, data.rdp.operating_system),
   computer_name |-> Or(data.smb.computer_name, data.rdp.computer_name),
   domain |-> Or(SmbDomain(data), data.rdp.domain),
   smb_signing |-> data.smb.smb_signing]

SmbSource == Source("nmap", "smb-os-discovery")
RdpSource == Source("nmap", "rdp-ntlm-info")

(* _emit_identity_observation: nothing is retained of a value not reported. *)
Emit(ip, property, value, source) ==
  IF value = None THEN {} ELSE {IdentityObservation(ip, property, value, source, CallRun)}

(* Mutations: only what the merge chose is retained; the fallback from      *)
(* domain name to workgroup is made for the device only.                     *)
HostObservations_Merged(ip, data) ==
  LET name == Or(data.smb.computer_name, data.rdp.computer_name)
      domain == Or(SmbDomain(data), data.rdp.domain)
  IN  Emit(ip, "computer_name", name, SmbSource) \cup Emit(ip, "domain", domain, SmbSource)

HostObservations_NoWorkgroup(ip, data) ==
  Emit(ip, "computer_name", data.smb.computer_name, SmbSource)
  \cup Emit(ip, "computer_name", data.rdp.computer_name, RdpSource)
  \cup Emit(ip, "domain", data.smb.domainName, SmbSource)
  \cup Emit(ip, "domain", data.rdp.domain, RdpSource)

(* Each source's report is retained, not what the merge made of it. *)
HostObservations(ip, data) ==
  Emit(ip, "computer_name", data.smb.computer_name, SmbSource)
  \cup Emit(ip, "computer_name", data.rdp.computer_name, RdpSource)
  \cup Emit(ip, "domain", SmbDomain(data), SmbSource)
  \cup Emit(ip, "domain", data.rdp.domain, RdpSource)

-----------------------------------------------------------------------------
(* diagnose_host: what the host's own results say about missing evidence. *)

HttpLike(services) == {p \in services : p.service \in {"http", "https"}}
TlsLike(services)  == {p \in services : p.service \in {"https", "ssl"}}
Numbers(services)  == {p.number : p \in services}
Carry(services, script) == \E p \in services : script \in p.scripts

Reports(output) == \E f \in DOMAIN output : output[f] # None

Reasons(services) ==
  {r \in {"no curated ports open", "no supported services", "SMB unreachable",
          "RDP unreachable", "HTTP not present", "no TLS certificate"} :
     \/ r = "no curated ports open" /\ services = {}
     \/ r = "no supported services" /\ services # {} /\ \A p \in services : p.service = None
     \/ r = "SMB unreachable"  /\ 445 \notin Numbers(services)
     \/ r = "RDP unreachable"  /\ 3389 \notin Numbers(services)
     \/ r = "HTTP not present" /\ HttpLike(services) = {}
     \/ /\ r = "no TLS certificate" /\ HttpLike(services) # {} /\ TlsLike(services) # {}
        /\ ~Carry(TlsLike(services), "ssl-cert")}

(* has_smb_identity and has_rdp_identity are judged before the merge. *)
Diagnose(data) ==
  LET services == OpenPorts(data)
  IN  [enriched |-> services # {} \/ Reports(data.smb) \/ Reports(data.rdp),
       services |-> services # {}, smb |-> Reports(data.smb), rdp |-> Reports(data.rdp),
       title |-> Carry(services, "http-title"), certificate |-> Carry(services, "ssl-cert"),
       realm |-> Carry(services, "http-auth"), reasons |-> Reasons(services)]

(* Mutations: a host missing from the second result is dropped; it gets no  *)
(* diagnostics.                                                              *)
ServiceEnrichment_Drops ==
  /\ phase = "enrichment"
  /\ \E heard \in SUBSET Discovered : \E scan \in [heard -> HostData] :
       /\ result' = scan
       /\ devices' = [ip \in heard |-> Enriched(devices[ip], scan[ip])]
       /\ observations' = observations \cup
                          UNION {HostObservations(ip, scan[ip]) : ip \in heard}
       /\ diagnostics' = [hosts |-> Cardinality(Discovered), phases |-> 2,
                          byHost |-> [ip \in heard |-> Diagnose(scan[ip])]]
  /\ phase' = "returned"
  /\ UNCHANGED profile

ServiceEnrichment_Skips ==
  /\ phase = "enrichment"
  /\ \E heard \in SUBSET Discovered : \E scan \in [heard -> HostData] :
       /\ result' = scan
       /\ devices' = [ip \in Discovered |-> Enriched(devices[ip], DataOf(scan, ip))]
       /\ observations' = observations \cup
                          UNION {HostObservations(ip, scan[ip]) : ip \in heard}
       /\ diagnostics' = [hosts |-> Cardinality(Discovered), phases |-> 2,
                          byHost |-> [ip \in heard |-> Diagnose(scan[ip])]]
  /\ phase' = "returned"
  /\ UNCHANGED profile

(* The scan of the hosts found (a host may be gone by now) and the loop over *)
(* the devices, whether the scan mentions them or not.                       *)
ServiceEnrichment ==
  /\ phase = "enrichment"
  /\ \E heard \in SUBSET Discovered : \E scan \in [heard -> HostData] :
       /\ result' = scan
       /\ devices' = [ip \in Discovered |-> Enriched(devices[ip], DataOf(scan, ip))]
       /\ observations' = observations \cup
                          UNION {HostObservations(ip, DataOf(scan, ip)) : ip \in Discovered}
       /\ diagnostics' = [hosts |-> Cardinality(Discovered), phases |-> 2,
                          byHost |-> [ip \in Discovered |-> Diagnose(DataOf(scan, ip))]]
  /\ phase' = "returned"
  /\ UNCHANGED profile

(* nmap fails, or a subscriber of the events published in between raises.    *)
ScanRaises ==
  /\ phase \in {"discovery", "enrichment"}
  /\ phase' = "raised"
  /\ UNCHANGED <<profile, devices, observations, result, diagnostics>>

Ended == phase \in {"returned", "raised"} /\ UNCHANGED vars

Next == HostDiscovery \/ ServiceEnrichment \/ ScanRaises \/ Ended

Spec == Init /\ [][Next]_vars

-----------------------------------------------------------------------------
(* Properties *)

DeviceType == [hostname : Name \cup {None}, mac_address : Mac \cup {None},
               services : SUBSET Port,
               operating_system : Name \cup {None}, computer_name : Name \cup {None},
               domain : Name \cup {None}, smb_signing : Name \cup {None}]

(* Every variable has its type, and only the second scan has a result. *)
TypeOK ==
  /\ profile \in Profiles
  /\ phase \in {"discovery", "enrichment", "returned", "raised"}
  /\ Discovered \subseteq Subnet /\ devices \in [Discovered -> DeviceType]
  /\ \A o \in observations : /\ o.type = "identity" /\ o.run = CallRun
                             /\ o.subject \in Discovered
  /\ DOMAIN result \subseteq Discovered /\ result \in [DOMAIN result -> HostData]
  /\ phase = "discovery" => devices = [ip \in {} |-> None] /\ observations = {}
  /\ diagnostics.hosts \in Nat /\ diagnostics.phases \in 0..2
  /\ DOMAIN diagnostics.byHost \subseteq Discovered

IdentityProperties == {"hostname", "mac_address", "computer_name", "domain"}

(* The identity facts on a device and the evidence retained of it are one    *)
(* account of the same scan: every fact has an observation with its value,   *)
(* and a property without a fact has no observation (the merge never drops a *)
(* property that some source reported, nmap_provider.py:164).                *)
FactsAreEvidence ==
  \A ip \in Discovered : \A p \in IdentityProperties :
    LET values == Values({o \in About(observations, ip) : o.property = p})
    IN  IF devices[ip][p] = None THEN values = {} ELSE devices[ip][p] \in values

(* What the merge decides for the device, the resolver still sees as a       *)
(* question: where SMB and RDP name different computers, or different        *)
(* domains, the device carries SMB's and the resolved identity is            *)
(* conflicting; where they agree it is confirmed by the two sources          *)
(* (nmap_provider.py:349, ADR-012).                                          *)
MergeHidesNoConflict ==
  phase = "returned" =>
    \A ip \in DOMAIN result :
      LET smb == [computer_name |-> result[ip].smb.computer_name,
                  domain |-> SmbDomain(result[ip])]
          rdp == result[ip].rdp
          states == PropertyStates(observations, ip)
      IN  \A p \in {"computer_name", "domain"} :
            smb[p] # None /\ rdp[p] # None =>
              /\ devices[ip][p] = smb[p]
              /\ states[p] = IF smb[p] = rdp[p] THEN "confirmed" ELSE "conflicting"

(* The diagnostics of a call account for its devices: as many hosts as       *)
(* devices; a verdict for each if and only if there was a second scan; and   *)
(* "enriched" exactly where enrichment left something on the device, with a  *)
(* reason for each kind of evidence where it left nothing                    *)
(* (run_diagnostics.py:63).                                                  *)
DiagnosticsMatchDevices ==
  phase = "returned" =>
    /\ diagnostics.hosts = Cardinality(Discovered)
    /\ DOMAIN diagnostics.byHost = IF diagnostics.phases = 2 THEN Discovered ELSE {}
    /\ diagnostics.phases = 2 <=> profile # "fast" /\ Discovered # {}
    /\ \A ip \in DOMAIN diagnostics.byHost :
         diagnostics.byHost[ip].enriched <=>
           \/ devices[ip].services # {}
           \/ \E f \in {"operating_system", "computer_name", "domain", "smb_signing"} :
                devices[ip][f] # None
    /\ \A ip \in DOMAIN diagnostics.byHost :
         ~diagnostics.byHost[ip].enriched =>
           diagnostics.byHost[ip].reasons =
             {"no curated ports open", "SMB unreachable", "RDP unreachable", "HTTP not present"}

(* The second scan only adds: no host found is lost or renamed by what the   *)
(* network looks like the second time (ADR-001).                             *)
EnrichmentOnlyAdds ==
  [][phase = "enrichment" =>
       /\ DOMAIN devices' = Discovered
       /\ \A ip \in Discovered : /\ devices'[ip].hostname = devices[ip].hostname
                                 /\ devices'[ip].mac_address = devices[ip].mac_address
       /\ observations \subseteq observations']_vars

-----------------------------------------------------------------------------
(* The engine sees the devices when the call returns, and then all at once. *)
Returned == phase = "returned"

IsDetail(o) == o.property \in {"computer_name", "domain"}

Contract == INSTANCE ScanContract WITH
  outcome <- IF phase \in {"returned", "raised"} THEN phase ELSE "running",
  found   <- IF Returned
             THEN [ip \in Discovered |-> [hostname |-> devices[ip].hostname,
                                          mac |-> devices[ip].mac_address]]
             ELSE [ip \in {} |-> None],
  claims  <- IF Returned THEN {o \in observations : ~IsDetail(o)} ELSE {},
  details <- IF Returned THEN {o \in observations : IsDetail(o)} ELSE {}

(* The provider does what the engine's Discover step assumes of it: devices  *)
(* of the subnet and exactly their host-discovery observations, all at once, *)
(* or nothing.                                                               *)
ImplementsScanContract == Contract!ContractSpec
=============================================================================
