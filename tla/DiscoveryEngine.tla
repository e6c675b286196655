-------------------------- MODULE DiscoveryEngine --------------------------
(***************************************************************************)
(* DiscoveryEngine.discover(): the discovery providers in order, then the  *)
(* enrichment providers in order, then classification.  The program is one *)
(* thread; what varies is what the network answers, which host times out,  *)
(* and where a provider (or a subscriber of the event bus it publishes to) *)
(* raises.  An enrichment pass is therefore one step per host, so that it  *)
(* can fail between any two.                                               *)
(***************************************************************************)
EXTENDS EnrichmentProviders, HostScan, Resolution, Integers, Sequences

CONSTANTS Subnets,         \* one NmapProvider per entry: the addresses it scans
          EnrichmentOrder  \* the configured enrichment providers, in order

Device == [hostname    : Name \cup {None},
           mac         : Mac \cup {None},
           description : Name \cup {None},
           sources     : SUBSET {"nmap", "snmp"}]

ASSUME EngineAssumption ==
  /\ Subnets \in Seq(SUBSET Ip)
  /\ EnrichmentOrder \in Seq(Kinds)
  /\ \A i, j \in 1..Len(EnrichmentOrder) :
       EnrichmentOrder[i] = EnrichmentOrder[j] => i = j

(* What a completed pass leaves in run_diagnostics, by host. *)
Diagnostics == [responded : SUBSET Ip, silent : SUBSET Ip]

ASSUME NoneIsNoDiagnostics == None \notin Diagnostics

VARIABLES
  stage,         \* where discover() is
  turn,          \* index of the current provider
  devices,       \* devices_by_ip
  observations,  \* self.observations
  received,      \* the snapshot given to the running enrichment provider
  pending,       \* the observations that provider has gathered so far
  todo,          \* the devices it has not queried yet
  responded,     \* the hosts that answered it
  silent,        \* the hosts that did not
  diagnostics,   \* run_diagnostics of each enrichment provider, or None
  graph          \* the network graph: each device as it was classified

engineVars == <<turn, devices, observations>>
passVars   == <<received, pending, todo, responded, silent>>
vars == <<stage, engineVars, passVars, diagnostics, graph>>

Stages == {"discover", "idle", "enrich", "classify", "done", "aborted"}

Discovered == DOMAIN devices
Kind       == EnrichmentOrder[turn]

Init ==
  /\ stage = "discover" /\ turn = 1
  /\ devices = [ip \in {} |-> None]
  /\ observations = {}
  /\ received = {} /\ pending = {} /\ todo = {} /\ responded = {} /\ silent = {}
  /\ diagnostics = [k \in Kinds |-> None]
  /\ graph = [ip \in {} |-> None]

-----------------------------------------------------------------------------
(* Discovery providers: NmapProvider.discover() and collect_observations(). *)

NewDevice(report) == [hostname |-> report.hostname, mac |-> report.mac,
                      description |-> None, sources |-> {"nmap"}]

(* The first provider to find an address keeps it (setdefault). *)
AddDevices(scan) ==
  [ip \in Discovered \cup DOMAIN scan |->
     IF ip \in Discovered THEN devices[ip] ELSE NewDevice(scan[ip])]

Scans == UNION {[up -> HostReports] : up \in SUBSET Subnets[turn]}

Discover ==
  /\ stage = "discover" /\ turn <= Len(Subnets)
  /\ \E scan \in Scans :
       /\ devices' = AddDevices(scan)
       /\ observations' = observations \cup ScanObservations(scan, <<"nmap", turn>>)
  /\ turn' = turn + 1
  /\ UNCHANGED <<stage, passVars, diagnostics, graph>>

(* Nothing catches a discovery provider that raises: the run ends. *)
DiscoverRaises ==
  /\ stage = "discover" /\ turn <= Len(Subnets)
  /\ stage' = "aborted"
  /\ UNCHANGED <<engineVars, passVars, diagnostics, graph>>

DiscoverEnds ==
  /\ stage = "discover" /\ turn > Len(Subnets)
  /\ stage' = "idle" /\ turn' = 1
  /\ UNCHANGED <<devices, observations, passVars, diagnostics, graph>>

-----------------------------------------------------------------------------
(* Enrichment providers, each inside a try that swallows every exception. *)

(* Mutations: one provider too many; the snapshot is taken once, in front   *)
(* of the loop.                                                              *)
BeginEnrich_OffByOne ==
  /\ stage = "idle" /\ turn <= Len(EnrichmentOrder) + 1
  /\ stage' = "enrich"
  /\ received' = observations
  /\ pending' = {} /\ todo' = Discovered /\ responded' = {} /\ silent' = {}
  /\ UNCHANGED <<engineVars, diagnostics, graph>>

BeginEnrich_StaleSnapshot ==
  /\ stage = "idle" /\ turn <= Len(EnrichmentOrder)
  /\ stage' = "enrich"
  /\ received' = {o \in observations : o.run[1] = "nmap"}
  /\ pending' = {} /\ todo' = Discovered /\ responded' = {} /\ silent' = {}
  /\ UNCHANGED <<engineVars, diagnostics, graph>>

BeginEnrich ==
  /\ stage = "idle" /\ turn <= Len(EnrichmentOrder)
  /\ stage' = "enrich"
  /\ received' = observations
  /\ pending' = {} /\ todo' = Discovered /\ responded' = {} /\ silent' = {}
  /\ UNCHANGED <<engineVars, diagnostics, graph>>

HostAnswers(ip) ==
  /\ stage = "enrich" /\ ip \in todo
  /\ todo' = todo \ {ip}
  /\ responded' = responded \cup {ip}
  /\ \E answer \in Answers(Kind) :
       /\ devices' = IF Kind = "snmp" THEN [devices EXCEPT ![ip] = Merge(@, answer)]
                     ELSE devices
       /\ pending' = pending \cup Contribution(Kind, ip, answer, Discovered, received)
  /\ UNCHANGED <<stage, turn, observations, received, silent, diagnostics, graph>>

HostSilent(ip) ==
  /\ stage = "enrich" /\ ip \in todo
  /\ todo' = todo \ {ip}
  /\ silent' = silent \cup {ip}
  /\ UNCHANGED <<stage, engineVars, received, pending, responded, diagnostics, graph>>

(* The provider is not used again: what it holds no longer matters. *)
EndPass ==
  /\ stage' = "idle" /\ turn' = turn + 1
  /\ received' = {} /\ pending' = {} /\ todo' = {} /\ responded' = {} /\ silent' = {}

(* Mutations: the observations are collected in a finally clause; the try   *)
(* around the provider is missing.                                           *)
EnrichRaises_Collects ==
  /\ stage = "enrich" /\ EndPass
  /\ observations' = observations \cup pending
  /\ UNCHANGED <<devices, diagnostics, graph>>

EnrichRaises_Uncaught ==
  /\ stage = "enrich"
  /\ stage' = "aborted"
  /\ UNCHANGED <<engineVars, passVars, diagnostics, graph>>

(* The facts already merged into the devices stay; the observations do not. *)
EnrichRaises ==
  /\ stage = "enrich" /\ EndPass
  /\ UNCHANGED <<devices, observations, diagnostics, graph>>

(* Mutations: the provider returns at the first silent host; the engine     *)
(* keeps only the latest provider's observations.                           *)
EnrichCompletes_Early ==
  /\ stage = "enrich" /\ (todo = {} \/ silent # {}) /\ EndPass
  /\ diagnostics' = [diagnostics EXCEPT ![Kind] = [responded |-> responded, silent |-> silent]]
  /\ observations' = observations \cup pending
  /\ UNCHANGED <<devices, graph>>

EnrichCompletes_Replaces ==
  /\ stage = "enrich" /\ todo = {} /\ EndPass
  /\ diagnostics' = [diagnostics EXCEPT ![Kind] = [responded |-> responded, silent |-> silent]]
  /\ observations' = IF pending = {} THEN observations ELSE pending
  /\ UNCHANGED <<devices, graph>>

EnrichCompletes ==
  /\ stage = "enrich" /\ todo = {} /\ EndPass
  /\ diagnostics' = [diagnostics EXCEPT ![Kind] = [responded |-> responded, silent |-> silent]]
  /\ observations' = observations \cup pending
  /\ UNCHANGED <<devices, graph>>

EnrichmentEnds ==
  /\ stage = "idle" /\ turn > Len(EnrichmentOrder)
  /\ stage' = "classify"
  /\ UNCHANGED <<engineVars, passVars, diagnostics, graph>>

-----------------------------------------------------------------------------
(* Classification: each device once; the verdict is a function of the facts *)
(* on the device, so the graph keeps the facts the verdict was drawn from.  *)

(* Mutation: devices may be classified while providers are still to run. *)
Classify_Early(ip) ==
  /\ stage \in {"idle", "classify"} /\ ip \in Discovered \ DOMAIN graph
  /\ graph' = [x \in DOMAIN graph \cup {ip} |-> IF x = ip THEN devices[ip] ELSE graph[x]]
  /\ UNCHANGED <<stage, engineVars, passVars, diagnostics>>

Classify(ip) ==
  /\ stage = "classify" /\ ip \in Discovered \ DOMAIN graph
  /\ graph' = [x \in DOMAIN graph \cup {ip} |-> IF x = ip THEN devices[ip] ELSE graph[x]]
  /\ UNCHANGED <<stage, engineVars, passVars, diagnostics>>

ClassifyRaises ==
  /\ stage = "classify"
  /\ stage' = "aborted"
  /\ UNCHANGED <<engineVars, passVars, diagnostics, graph>>

ClassifyEnds ==
  /\ stage = "classify" /\ DOMAIN graph = Discovered
  /\ stage' = "done"
  /\ UNCHANGED <<engineVars, passVars, diagnostics, graph>>

-----------------------------------------------------------------------------
Finished == stage \in {"done", "aborted"} /\ UNCHANGED vars

Next ==
  \/ Discover \/ DiscoverRaises \/ DiscoverEnds
  \/ BeginEnrich
  \/ \E ip \in todo : HostAnswers(ip) \/ HostSilent(ip)
  \/ EnrichRaises \/ EnrichCompletes \/ EnrichmentEnds
  \/ \E ip \in Discovered : Classify(ip)
  \/ ClassifyRaises \/ ClassifyEnds
  \/ Finished

Spec == Init /\ [][Next]_vars

(* One thread, bounded timeouts and retries: a step that can be taken is. *)
FairSpec == Spec /\ WF_vars(Next)

-----------------------------------------------------------------------------
(* Properties *)

Observation(o) ==
  /\ o.type \in {"identity", "relationship"}
  /\ o.subject \in Ip
  /\ o.type = "relationship" => o.related \in Ip

(* Every variable has its type: a pass is over discovered devices, partial  *)
(* results belong to a running pass only, and the provider index stays      *)
(* within its list.                                                         *)
TypeOK ==
  /\ stage \in Stages
  /\ turn \in Nat \ {0}
  /\ stage = "discover" => turn <= Len(Subnets) + 1
  /\ stage \in {"idle", "classify", "done"} => turn <= Len(EnrichmentOrder) + 1
  /\ stage = "enrich" => turn <= Len(EnrichmentOrder)
  /\ Discovered \subseteq Ip /\ devices \in [Discovered -> Device]
  /\ \A o \in observations \cup received \cup pending : Observation(o)
  /\ todo \cup responded \cup silent \subseteq Discovered
  /\ stage # "enrich" =>
       received = {} /\ pending = {} /\ todo = {} /\ responded = {} /\ silent = {}
  /\ diagnostics \in
       [Kinds -> {None} \cup [responded : SUBSET Discovered, silent : SUBSET Discovered]]
  /\ DOMAIN graph \subseteq Discovered /\ graph \in [DOMAIN graph -> Device]

Identities    == ResolveIdentities(observations)
Relationships == ResolveRelationships(observations, DOMAIN Identities)

(* No evidence, however it arrives, makes a canonical identity or the        *)
(* endpoint of a canonical relationship out of an address that discovery did *)
(* not find (ARCH-022 section 4, arp_neighbor_provider.py:203).              *)
EndpointsDiscovered ==
  /\ DOMAIN Identities \subseteq Discovered
  /\ \A r \in Relationships : {r.subject, r.related} \subseteq Discovered

(* A relationship found through the MAC index stays right: at the end of the *)
(* run the MAC address still belongs to the one subject it was resolved to,  *)
(* whatever providers that ran later reported.                               *)
MacResolutionStable ==
  \A o \in RelationshipsIn(observations) :
    o.via # None => Resolves(observations, o.via, o.related)

(* An enrichment provider that raised contributed no observation, and so did *)
(* one that has not run (discovery_engine.py:88).                            *)
FaultContributesNothing ==
  \A k \in Kinds : diagnostics[k] = None => \A o \in observations : o.run # Run(k)

(* The diagnostics of a completed pass account for every discovered device   *)
(* once, and every relationship of the pass was reported by a device they    *)
(* list as having responded.                                                 *)
DiagnosticsAccountForPass ==
  \A k \in Kinds : diagnostics[k] # None =>
    /\ diagnostics[k].responded \cup diagnostics[k].silent = Discovered
    /\ diagnostics[k].responded \cap diagnostics[k].silent = {}
    /\ \A o \in RelationshipsIn(observations) :
         o.run = Run(k) => o.subject \in diagnostics[k].responded

(* No verdict is drawn before the evidence is complete: a device in the      *)
(* graph was classified on the facts it ends the run with, and discover()    *)
(* returns a graph of all the devices it found (ADR-010).                    *)
ClassifiedOnFinalEvidence ==
  /\ \A ip \in DOMAIN graph : graph[ip] = devices[ip]
  /\ stage = "done" => DOMAIN graph = Discovered

(* Scanning one address from two overlapping subnets never confirms its      *)
(* hostname: a confirmed hostname rests on an enrichment provider's answer   *)
(* too (ADR-012, observation independence).                                  *)
OverlapNeverConfirms ==
  \A s \in DOMAIN Identities :
    LET states == Identities[s].properties
    IN  "hostname" \in DOMAIN states /\ states["hostname"] = "confirmed" =>
          \E o \in About(observations, s) :
            o.property = "hostname" /\ \E k \in Kinds : o.run = Run(k)

(* A fact on a device is never overwritten and a device never forgotten: the *)
(* first provider to know wins, whoever answers later (ADR-010).             *)
FirstReportWins ==
  [][\A ip \in Discovered :
       /\ ip \in DOMAIN devices'
       /\ \A f \in {"hostname", "mac", "description"} :
            devices[ip][f] # None => devices'[ip][f] = devices[ip][f]]_vars

(* A conflict is never hidden by later evidence: a subject or an edge that   *)
(* the observations so far make conflicting stays so (ADR-012, ADR-013).     *)
ConflictNeverHidden ==
  [][/\ \A s \in DOMAIN Identities : Identities[s].state = "conflicting" =>
          s \in DOMAIN Identities' /\ Identities'[s].state = "conflicting"
     /\ \A r \in Relationships : r.state = "conflicting" => r \in Relationships']_vars

(* No enrichment provider keeps the run from classifying what was found:     *)
(* once discovery is over classification is reached, whatever is raised.     *)
EnrichmentNeverAborts == stage = "idle" ~> stage = "classify"
=============================================================================
