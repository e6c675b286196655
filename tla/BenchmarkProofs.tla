--------------------------- MODULE BenchmarkProofs ---------------------------
(***************************************************************************)
(* The classifier keeps its promised precedence for every evidence, not    *)
(* only for the recorded devices the runs try, and so does every verdict   *)
(* of a benchmark.  The counts of a benchmark account for every device     *)
(* exactly once, and a comparison of two reports tells one story, whatever *)
(* the datasets.                                                           *)
(***************************************************************************)
EXTENDS Benchmark, SequenceTheorems, FiniteSetTheorems, WellFoundedInduction, TLAPS

-----------------------------------------------------------------------------
(* The table of the rules *)

LEMMA RuleTable ==
  /\ Len(Rules) = 14
  /\ Rules[1] = "ServerHostname" /\ Rules[2] = "NetworkAppliance"
  /\ Rules[3] = "HypervisorHostname" /\ Rules[4] = "UbiquitiAccessPoint"
  /\ Rules[5] = "EdgeRouter" /\ Rules[6] = "SonicWallFirewall"
  /\ Rules[7] = "PfSenseFirewall" /\ Rules[8] = "VoiceVendor"
  /\ Rules[9] = "SwitchVendor" /\ Rules[10] = "CameraVendor"
  /\ Rules[11] = "WindowsServer" /\ Rules[12] = "PrinterVendor"
  /\ Rules[13] = "DellWorkstation" /\ Rules[14] = "WindowsWorkstation"
BY DEF Rules

LEMMA VerdictTable ==
  /\ Suggests[Rules[1]] = "SERVER" /\ Suggests[Rules[2]] = "SERVER"
  /\ Suggests[Rules[3]] = "HYPERVISOR" /\ Suggests[Rules[4]] = "ACCESS_POINT"
  /\ Suggests[Rules[5]] = "ROUTER" /\ Suggests[Rules[6]] = "FIREWALL"
  /\ Suggests[Rules[7]] = "FIREWALL" /\ Suggests[Rules[8]] = "PHONE"
  /\ Suggests[Rules[9]] = "SWITCH" /\ Suggests[Rules[10]] = "CAMERA"
  /\ Suggests[Rules[11]] = "SERVER" /\ Suggests[Rules[12]] = "PRINTER"
  /\ Suggests[Rules[13]] = "WORKSTATION" /\ Suggests[Rules[14]] = "WORKSTATION"
BY RuleTable DEF Suggests

(* Which rule stands at which place. *)
LEMMA HitTable ==
  ASSUME NEW d
  PROVE  /\ 1 \in Hits(d) <=> ServerHostname(d)
         /\ 2 \in Hits(d) <=> NetworkAppliance(d)
         /\ 3 \in Hits(d) <=> HypervisorHostname(d)
         /\ 4 \in Hits(d) <=> UbiquitiAccessPoint(d)
         /\ 5 \in Hits(d) <=> EdgeRouter(d)
         /\ 6 \in Hits(d) <=> SonicWallFirewall(d)
         /\ 7 \in Hits(d) <=> PfSenseFirewall(d)
         /\ 8 \in Hits(d) <=> VoiceVendor(d)
         /\ 9 \in Hits(d) <=> SwitchVendor(d)
         /\ 10 \in Hits(d) <=> CameraVendor(d)
         /\ 11 \in Hits(d) <=> WindowsServer(d)
         /\ 12 \in Hits(d) <=> PrinterVendor(d)
         /\ 13 \in Hits(d) <=> DellWorkstation(d)
         /\ 14 \in Hits(d) <=> WindowsWorkstation(d)
BY RuleTable DEF Hits, Matches

-----------------------------------------------------------------------------
(* The first rule that matches *)

(* A set of places that has a member has a first one. *)
LEMMA LeastPlace ==
  ASSUME NEW H, H \subseteq 1..14, H # {}
  PROVE  \E i \in H : \A j \in H : i <= j
<1> DEFINE Has(n) == H \cap 1..n # {} => \E i \in H : \A j \in H : i <= j
<1>1. Has(0)
  OBVIOUS
<1>2. \A n \in 0..13 : Has(n) => Has(n + 1)
  <2> SUFFICES ASSUME NEW n \in 0..13, Has(n), H \cap 1..(n + 1) # {}
               PROVE  \E i \in H : \A j \in H : i <= j
    OBVIOUS
  <2>1. CASE H \cap 1..n # {}
    BY <2>1
  <2>2. CASE H \cap 1..n = {}
    <3>1. n + 1 \in H
      BY <2>2
    <3>2. \A j \in H : n + 1 <= j
      BY <2>2
    <3> QED BY <3>1, <3>2
  <2> QED BY <2>1, <2>2
<1> HIDE DEF Has
<1>3. Has(1) /\ Has(2) /\ Has(3) /\ Has(4) /\ Has(5) /\ Has(6) /\ Has(7)
  BY <1>1, <1>2
<1>4. Has(8) /\ Has(9) /\ Has(10) /\ Has(11) /\ Has(12) /\ Has(13) /\ Has(14)
  BY <1>2, <1>3
<1> QED BY <1>4 DEF Has

LEMMA FirstHitFacts ==
  ASSUME NEW d, Hits(d) # {}
  PROVE  /\ FirstHit(d) \in Hits(d)
         /\ FirstHit(d) \in 1..14
         /\ \A j \in Hits(d) : FirstHit(d) <= j
<1>1. Hits(d) \subseteq 1..14
  BY RuleTable DEF Hits
<1>2. \E i \in Hits(d) : \A j \in Hits(d) : i <= j
  BY <1>1, LeastPlace
<1> QED BY <1>1, <1>2 DEF FirstHit

LEMMA NoHit ==
  ASSUME NEW d, Hits(d) = {}
  PROVE  FirstHit(d) = 15 /\ Classify(d) = "UNKNOWN"
BY RuleTable DEF FirstHit, Classify

-----------------------------------------------------------------------------
(* More evidence *)

(* The evidence grew: a text that was absent appeared or, in a hostname and  *)
(* a description, nothing else happened; no service entry was lost.          *)
Grew(d, e) ==
  /\ d.vendor = e.vendor /\ d.os \subseteq e.os
  /\ d.hostname \subseteq e.hostname /\ d.descr \subseteq e.descr
  /\ d.services \subseteq e.services

(* No rule takes a match back when evidence is added. *)
LEMMA IdentifiedGrows ==
  ASSUME NEW d, NEW e, Grew(d, e), NEW class, Identified(d, class)
  PROVE  Identified(e, class)
BY DEF Grew, Identified

LEMMA PrinterGrows ==
  ASSUME NEW d \in Evidence, NEW e \in Evidence, Grew(d, e), PrinterVendor(d)
  PROVE  PrinterVendor(e)
<1> DEFINE bare(x) == [x EXCEPT !.title = IF "redirect notice" \in x.title THEN {} ELSE x.title]
<1>1. \A x \in Evidence :
        /\ WithoutRedirectNotices(x).services = {bare(s) : s \in x.services}
        /\ WithoutRedirectNotices(x).descr = x.descr
  BY DEF WithoutRedirectNotices, Evidence
<1>2. {bare(s) : s \in d.services} \subseteq {bare(s) : s \in e.services}
  BY DEF Grew
<1>3. Identified(WithoutRedirectNotices(d), "printer vendor") =>
        Identified(WithoutRedirectNotices(e), "printer vendor")
  <2> HIDE DEF bare
  <2> QED BY <1>1, <1>2 DEF Identified, Grew
<1>4. PrinterNetworking(d) => PrinterNetworking(e)
  BY DEF Grew, PrinterNetworking
<1> QED BY <1>3, <1>4 DEF PrinterVendor, Grew

LEMMA HitsGrow ==
  ASSUME NEW d \in Evidence, NEW e \in Evidence, Grew(d, e)
  PROVE  Hits(d) \subseteq Hits(e)
<1> SUFFICES ASSUME NEW r, Matches(r, d) PROVE Matches(r, e)
  BY DEF Hits
<1>1. \A class : Identified(d, class) => Identified(e, class)
  BY IdentifiedGrows
<1>2. \A class : Signals(d, class) => Signals(e, class)
  BY DEF Grew, Signals
<1>3. PrinterVendor(d) => PrinterVendor(e)
  BY PrinterGrows
<1>4. /\ ServerHostname(d) => ServerHostname(e)
      /\ HypervisorHostname(d) => HypervisorHostname(e)
      /\ UbiquitiAccessPoint(d) => UbiquitiAccessPoint(e)
      /\ WindowsServer(d) => WindowsServer(e)
      /\ DellWorkstation(d) => DellWorkstation(e)
      /\ WindowsWorkstation(d) => WindowsWorkstation(e)
  BY DEF Grew, ServerHostname, HypervisorHostname, UbiquitiAccessPoint, WindowsServer,
         DellWorkstation, WindowsWorkstation
<1>5. /\ NetworkAppliance(d) => NetworkAppliance(e)
      /\ EdgeRouter(d) => EdgeRouter(e)
      /\ PfSenseFirewall(d) => PfSenseFirewall(e)
  BY <1>1 DEF NetworkAppliance, EdgeRouter, PfSenseFirewall
<1>6. /\ SonicWallFirewall(d) => SonicWallFirewall(e)
      /\ VoiceVendor(d) => VoiceVendor(e)
      /\ SwitchVendor(d) => SwitchVendor(e)
      /\ CameraVendor(d) => CameraVendor(e)
  BY <1>1, <1>2 DEF Grew, SonicWallFirewall, VoiceVendor, SwitchVendor, CameraVendor
<1> QED BY <1>3, <1>4, <1>5, <1>6 DEF Matches

-----------------------------------------------------------------------------
(* SNMP *)

(* Whatever SNMP adds to a device, every rule that matched still matches,   *)
(* the verdict comes from the same place in the order or an earlier one, and *)
(* a device that had a type does not lose it (snmp_provider.py:170).         *)
THEOREM SnmpNeverLosesVerdict ==
  ASSUME NEW d \in Evidence, NEW hostname \in Text, NEW descr \in Text
  PROVE  LET e == SnmpMerged(d, hostname, descr)
         IN  /\ Hits(d) \subseteq Hits(e)
             /\ FirstHit(e) <= FirstHit(d)
             /\ Classify(d) # "UNKNOWN" => Classify(e) # "UNKNOWN"
<1> DEFINE e == SnmpMerged(d, hostname, descr)
<1>1. e \in Evidence
  BY DEF SnmpMerged, Evidence
<1>2. Grew(d, e)
  BY DEF SnmpMerged, Evidence, Grew
<1> HIDE DEF e
<1>3. Hits(d) \subseteq Hits(e)
  BY <1>1, <1>2, HitsGrow
<1>4. FirstHit(e) <= FirstHit(d)
  <2>1. CASE Hits(e) = {}
    BY <1>3, <2>1, NoHit
  <2>2. CASE Hits(e) # {} /\ Hits(d) = {}
    BY <2>2, NoHit, FirstHitFacts
  <2>3. CASE Hits(d) # {}
    BY <1>3, <2>3, FirstHitFacts
  <2> QED BY <2>1, <2>2, <2>3
<1>5. Classify(d) # "UNKNOWN" => Classify(e) # "UNKNOWN"
  <2> SUFFICES ASSUME Hits(d) # {} PROVE Classify(e) # "UNKNOWN"
    BY NoHit
  <2>1. Hits(e) # {} /\ FirstHit(e) \in 1..14
    BY <1>3, FirstHitFacts
  <2>2. Classify(e) = Suggests[Rules[FirstHit(e)]]
    BY <2>1 DEF Classify
  <2> QED BY <2>1, <2>2, VerdictTable
<1> QED BY <1>3, <1>4, <1>5 DEF e

-----------------------------------------------------------------------------
(* Precedence *)

(* A verdict is what the first matching rule suggests. *)
LEMMA VerdictOfFirst ==
  ASSUME NEW d
  PROVE  \/ Hits(d) = {} /\ Classify(d) = "UNKNOWN"
         \/ /\ FirstHit(d) \in 1..14 /\ FirstHit(d) \in Hits(d)
            /\ \A j \in Hits(d) : FirstHit(d) <= j
            /\ Classify(d) = Suggests[Rules[FirstHit(d)]]
<1>1. CASE Hits(d) = {}
  BY <1>1, NoHit
<1>2. CASE Hits(d) # {}
  BY <1>2, FirstHitFacts DEF Classify
<1> QED BY <1>1, <1>2

(* The kinds of verdict that each stretch of the order can give. *)
LEMMA VerdictsByPlace ==
  ASSUME NEW d, NEW n \in 1..14, n \in Hits(d)
  PROVE  /\ n <= 11 => Classify(d) \notin {"PRINTER", "WORKSTATION", "UNKNOWN"}
         /\ n <= 9 => Classify(d) \notin {"PRINTER", "CAMERA", "WORKSTATION", "UNKNOWN"}
         /\ n <= 8 => Classify(d) # "SWITCH"
<1>1. /\ FirstHit(d) \in 1..14 /\ FirstHit(d) <= n
      /\ Classify(d) = Suggests[Rules[FirstHit(d)]]
  BY VerdictOfFirst
<1> QED BY <1>1, VerdictTable

(* What a match of the printer rule shows. *)
LEMMA PrinterShows ==
  ASSUME NEW d \in Evidence, PrinterVendor(d)
  PROVE  PrinterEvidence(d, "PRINTER")
<1> DEFINE bare(x) == [x EXCEPT !.title = IF "redirect notice" \in x.title THEN {} ELSE x.title]
<1>1. CASE "printer vendor" \in d.vendor \/ PrinterNetworking(d)
  BY <1>1 DEF PrinterNetworking, PrinterEvidence
<1>2. CASE Identified(WithoutRedirectNotices(d), "printer vendor")
  <2>1. /\ WithoutRedirectNotices(d).services = {bare(s) : s \in d.services}
        /\ WithoutRedirectNotices(d).descr = d.descr
    BY DEF WithoutRedirectNotices, Evidence
  <2>2. CASE "printer vendor" \in d.descr
    BY <2>2 DEF PrinterEvidence
  <2>3. CASE "printer vendor" \notin d.descr
    <3>1. PICK s \in d.services :
            "printer vendor" \in bare(s).product \cup bare(s).title \cup bare(s).identity
      BY <1>2, <2>1, <2>3 DEF Identified
    <3>2. s \in Service
      BY DEF Evidence
    <3>3. /\ bare(s).product = s.product /\ bare(s).identity = s.identity
          /\ bare(s).title = IF "redirect notice" \in s.title THEN {} ELSE s.title
      BY <3>2 DEF Service
    <3> HIDE DEF bare
    <3> QED BY <3>1, <3>3 DEF PrinterEvidence
  <2> QED BY <2>2, <2>3
<1> QED BY <1>1, <1>2 DEF PrinterVendor

(* No rule matches a device of which only such a vendor is known. *)
LEMMA NothingButVendor ==
  ASSUME NEW d \in Evidence,
         d.vendor \in {{"axis communications"}, {"cisco", "meraki"}, {"is ubiquiti"}},
         d.hostname = {}, d.os = {}, d.descr = {}, d.services = {}
  PROVE  Hits(d) = {}
<1>1. \A class : ~Identified(d, class) /\ ~Signals(d, class)
  BY DEF Identified, Signals
<1>2. ~PrinterVendor(d)
  <2>1. /\ WithoutRedirectNotices(d).services = {}
        /\ WithoutRedirectNotices(d).descr = {}
    BY DEF WithoutRedirectNotices, Evidence
  <2>2. ~Identified(WithoutRedirectNotices(d), "printer vendor")
    BY <2>1 DEF Identified
  <2>3. ~PrinterNetworking(d)
    BY DEF PrinterNetworking
  <2>4. "printer vendor" \notin d.vendor
    <3>1. \A x \in d.vendor : x \in {"axis communications", "cisco", "meraki", "is ubiquiti"}
      OBVIOUS
    <3> QED BY <3>1
  <2> QED BY <2>2, <2>3, <2>4 DEF PrinterVendor
<1>3. /\ ~ServerHostname(d) /\ ~NetworkAppliance(d) /\ ~HypervisorHostname(d)
      /\ ~UbiquitiAccessPoint(d) /\ ~EdgeRouter(d) /\ ~SonicWallFirewall(d)
      /\ ~PfSenseFirewall(d)
  BY <1>1 DEF ServerHostname, NetworkAppliance, HypervisorHostname, UbiquitiAccessPoint,
              EdgeRouter, SonicWallFirewall, PfSenseFirewall
<1>4. /\ ~VoiceVendor(d) /\ ~SwitchVendor(d) /\ ~CameraVendor(d) /\ ~WindowsServer(d)
      /\ ~DellWorkstation(d) /\ ~WindowsWorkstation(d)
  BY <1>1 DEF VoiceVendor, SwitchVendor, CameraVendor, WindowsServer, DellWorkstation,
              WindowsWorkstation
<1> QED BY <1>2, <1>3, <1>4 DEF Hits, Matches

(* The order of the rules keeps every promise made of it, for any device     *)
(* (device_classifier.py:28-99).                                             *)
THEOREM PrecedenceKept ==
  ASSUME NEW d \in Evidence
  PROVE  KeepsPrecedence(d, Classify(d))
<1>1. HypervisorStays(d, Classify(d))
  <2> SUFFICES ASSUME HypervisorHostname(d), ~ServerHostname(d), ~NetworkAppliance(d)
               PROVE  Classify(d) = "HYPERVISOR"
    BY DEF HypervisorStays
  <2>1. 3 \in Hits(d) /\ 1 \notin Hits(d) /\ 2 \notin Hits(d)
    BY HitTable
  <2>2. FirstHit(d) = 3 /\ Classify(d) = Suggests[Rules[FirstHit(d)]]
    BY <2>1, VerdictOfFirst
  <2> QED BY <2>2, VerdictTable
<1>2. ServerNotLost(d, Classify(d))
  BY HitTable, VerdictsByPlace DEF ServerNotLost
<1>3. SwitchOrPhoneNotLost(d, Classify(d))
  <2>1. Identified(d, "switch model") => 9 \in Hits(d)
    BY HitTable DEF SwitchVendor
  <2>2. VoiceVendor(d) => 8 \in Hits(d)
    BY HitTable
  <2>3. \A n \in {8, 9} : n \in Hits(d) =>
          Classify(d) \notin {"PRINTER", "CAMERA", "WORKSTATION", "UNKNOWN"}
    BY VerdictsByPlace
  <2>4. 8 \in Hits(d) => Classify(d) # "SWITCH"
    BY VerdictsByPlace
  <2> QED BY <2>1, <2>2, <2>3, <2>4 DEF SwitchOrPhoneNotLost
<1>4. PrinterEvidence(d, Classify(d))
  <2> SUFFICES ASSUME Classify(d) = "PRINTER"
               PROVE  PrinterEvidence(d, "PRINTER")
    BY DEF PrinterEvidence
  <2>1. FirstHit(d) = 12 /\ 12 \in Hits(d)
    BY VerdictOfFirst, VerdictTable
  <2>2. PrinterVendor(d)
    BY <2>1, HitTable
  <2> QED BY <2>2, PrinterShows
<1>5. VendorAloneDecidesNothing(d, Classify(d))
  <2> SUFFICES ASSUME d.vendor \in {{"axis communications"}, {"cisco", "meraki"}, {"is ubiquiti"}},
                      d.hostname = {}, d.os = {}, d.descr = {}, d.services = {}
               PROVE  Hits(d) = {}
    BY NoHit DEF VendorAloneDecidesNothing
  <2> QED BY NothingButVendor
<1> QED BY <1>1, <1>2, <1>3, <1>4, <1>5 DEF KeepsPrecedence

-----------------------------------------------------------------------------
(* Every verdict of a benchmark *)

AddressesOf(content) == {content.cases[i].ip : i \in 1..Len(content.cases)}
Addresses == UNION {AddressesOf(content) : content \in UNION {Contents[d] : d \in Names}}
LoadedDevice == [ip : Addresses, evidence : Evidence, type : DeviceTypes]

(* Strengthening: the devices loaded are those of a dataset, and the ones    *)
(* seen so far have the type the classifier gives them.                      *)
Judged ==
  /\ \A d \in Names : dataset[d] \in Contents[d]
  /\ dataset = [d \in Names |-> dataset[d]]
  /\ queue \subseteq Names
  /\ devices \in Seq(LoadedDevice)
  /\ tally.seen \in 0..Len(devices)
  /\ \A i \in 1..tally.seen : devices[i].type = Classify(devices[i].evidence)

LEMMA ClassifyType == ASSUME NEW d PROVE Classify(d) \in DeviceTypes
<1>1. \A n \in 1..14 : Rules[n] \in DOMAIN Suggests
  BY RuleTable DEF Suggests
<1>2. \A r \in DOMAIN Suggests : Suggests[r] \in DeviceTypes
  BY DEF DeviceTypes
<1> QED BY <1>1, <1>2, VerdictOfFirst DEF DeviceTypes

(* The devices that are loaded. *)
LEMMA LoadedDevices ==
  ASSUME NEW d \in Names, NEW content \in Contents[d],
         NEW f, f = [i \in 1..Len(content.cases) |->
                       [ip |-> content.cases[i].ip,
                        evidence |-> Loaded(content.cases[i].evidence),
                        type |-> "UNKNOWN"]]
  PROVE  f \in Seq(LoadedDevice)
<1>1. Len(content.cases) \in Nat
  BY BenchmarkAssumption
<1>2. ASSUME NEW i \in 1..Len(content.cases)
      PROVE  f[i] \in LoadedDevice
  <2>1. content.cases[i].evidence \in Evidence
    BY BenchmarkAssumption
  <2>2. Loaded(content.cases[i].evidence) \in Evidence
    BY <2>1 DEF Loaded, Evidence, Text
  <2>3. content.cases[i].ip \in Addresses
    <3>1. content.cases[i].ip \in AddressesOf(content)
      BY DEF AddressesOf
    <3>2. content \in UNION {Contents[e] : e \in Names}
      OBVIOUS
    <3> QED BY <3>1, <3>2 DEF Addresses
  <2> QED BY <2>2, <2>3 DEF DeviceTypes, LoadedDevice
<1>3. f \in [1..Len(content.cases) -> LoadedDevice]
  BY <1>2
<1> QED BY <1>1, <1>3, SeqDef

LEMMA JudgedStep == ASSUME Judged, [Next]_vars PROVE Judged'
<1> USE DEF Judged
<1>1. CASE UNCHANGED vars
  BY <1>1 DEF vars
<1>2. ASSUME NEW d \in Names, EditDataset(d) PROVE Judged'
  BY <1>2 DEF EditDataset
<1>3. ASSUME NEW out, NEW names \in SUBSET Names, NEW tests, Begins(out, names, tests)
      PROVE  Judged'
  BY <1>3 DEF Begins, NoTally
<1>4. CASE \E code : Ends(code) /\ UNCHANGED dataset
  BY <1>4 DEF Ends, NoTally
<1>5. CASE Finish \/ Dies
  BY <1>4, <1>5 DEF Finish, Dies
<1>6. ASSUME NEW d \in queue, LoadFails(d) PROVE Judged'
  BY <1>4, <1>6 DEF LoadFails
<1>7. ASSUME NEW d \in queue, Load(d) PROVE Judged'
  <2>1. /\ d \in Names /\ dataset[d] \in Contents[d]
        /\ devices' = [i \in 1..Len(dataset[d].cases) |->
                   [ip       |-> dataset[d].cases[i].ip,
                    evidence |-> Loaded(dataset[d].cases[i].evidence),
                    type     |-> "UNKNOWN"]]
    BY <1>7 DEF Load
  <2>2. devices' \in Seq(LoadedDevice)
    BY <2>1, LoadedDevices
  <2>3. tally'.seen = 0 /\ dataset' = dataset /\ queue' = queue
    BY <1>7 DEF Load, NoTally
  <2> QED BY <2>2, <2>3
<1>8. ASSUME NEW d \in queue, ClassifyDevice(d) PROVE Judged'
  <2> DEFINE n == tally.seen + 1
  <2>1. n \in 1..Len(devices) /\ tally'.seen = n
    BY <1>8 DEF ClassifyDevice, Counted
  <2>2. devices' = [devices EXCEPT ![n].type = Classify(devices[n].evidence)]
    BY <1>8 DEF ClassifyDevice
  <2>3. devices[n] \in LoadedDevice
    BY <2>1
  <2> HIDE DEF n
  <2>4. Classify(devices[n].evidence) \in DeviceTypes
    BY ClassifyType
  <2>5. /\ devices' \in Seq(LoadedDevice)
        /\ Len(devices') = Len(devices)
        /\ \A i \in 1..Len(devices) : i # n => devices'[i] = devices[i]
        /\ devices'[n].evidence = devices[n].evidence
        /\ devices'[n].type = Classify(devices[n].evidence)
    BY <2>1, <2>2, <2>3, <2>4 DEF LoadedDevice
  <2>6. \A i \in 1..n : i = n \/ i \in 1..tally.seen
    BY DEF n
  <2> QED BY <1>8, <2>1, <2>5, <2>6 DEF ClassifyDevice
<1>9. ASSUME NEW d \in queue, OpenReport(d) \/ WriteReport(d) PROVE Judged'
  BY <1>9 DEF OpenReport, WriteReport
<1>10. CASE Compare
  BY <1>10 DEF Compare
<1> QED
  BY <1>1, <1>2, <1>3, <1>5, <1>6, <1>7, <1>8, <1>9, <1>10
     DEF Next, BeginBenchmark, BeginValidate, Works

(* Every verdict of every benchmark keeps the promised precedence, whatever  *)
(* the datasets hold and whenever a command dies.                            *)
THEOREM VerdictsAlwaysKeepPrecedence == Spec => []VerdictsKeepPrecedence
<1>1. Init => Judged
  BY DEF Init, Judged, NoTally
<1>2. Judged /\ [Next]_vars => Judged'
  BY JudgedStep
<1>3. Judged => VerdictsKeepPrecedence
  <2> SUFFICES ASSUME Judged, NEW i \in 1..tally.seen
               PROVE  KeepsPrecedence(devices[i].evidence, devices[i].type)
    BY DEF VerdictsKeepPrecedence
  <2>1. i \in 1..Len(devices)
    BY DEF Judged
  <2>2. devices[i] \in LoadedDevice /\ devices[i].type = Classify(devices[i].evidence)
    BY <2>1, ElementOfSeq DEF Judged
  <2> QED BY <2>2, PrecedenceKept DEF LoadedDevice
<1> QED BY <1>1, <1>2, <1>3, PTL DEF Spec

-----------------------------------------------------------------------------
(* Types *)

(* The control of a command, beside what it has judged. *)
Commanded ==
  /\ commands \in 0..MaxCommands
  /\ phase \in {"idle", "next", "classify", "write"}
  /\ passed \in BOOLEAN
  /\ exit \in {None, "0", "1", "raised", "died"}
  /\ phase \in {"classify", "write"} => queue # {}

LEMMA CommandedStep == ASSUME Commanded, [Next]_vars PROVE Commanded'
<1> USE DEF Commanded
<1>1. MaxCommands \in Nat
  BY BenchmarkAssumption
<1>2. CASE UNCHANGED vars
  BY <1>2 DEF vars
<1>3. ASSUME NEW d \in Names, EditDataset(d) PROVE Commanded'
  BY <1>3 DEF EditDataset
<1>4. ASSUME NEW out, NEW names, NEW tests \in BOOLEAN, Begins(out, names, tests)
      PROVE  Commanded'
  BY <1>1, <1>4 DEF Begins
<1>5. ASSUME NEW code \in {"0", "1", "raised", "died"}, Ends(code), UNCHANGED commands
      PROVE  Commanded'
  BY <1>5 DEF Ends
<1>6. CASE Finish \/ Dies
  BY <1>5, <1>6 DEF Finish, Dies
<1>7. ASSUME NEW d \in queue, LoadFails(d) PROVE Commanded'
  BY <1>5, <1>7 DEF LoadFails
<1>8. ASSUME NEW d \in queue,
             Load(d) \/ ClassifyDevice(d) \/ OpenReport(d) \/ WriteReport(d)
      PROVE  Commanded'
  BY <1>8 DEF Load, ClassifyDevice, OpenReport, WriteReport
<1>9. CASE Compare
  BY <1>1, <1>9 DEF Compare, Compares
<1> QED
  BY <1>2, <1>3, <1>4, <1>6, <1>7, <1>8, <1>9
     DEF Next, BeginBenchmark, BeginValidate, Works

(* The types of a benchmark run: every dataset is one the directory may     *)
(* hold, no device is classified that was not loaded, every verdict is a    *)
(* device type, and a command that classifies or writes has a dataset at    *)
(* hand (benchmark_runner.py, devtools/validate.py).                        *)
THEOREM TypeCorrect == Spec => []TypeOK
<1>1. Init => Judged /\ Commanded
  BY BenchmarkAssumption DEF Init, Judged, Commanded, NoTally
<1>2. Judged /\ Commanded /\ [Next]_vars => Judged' /\ Commanded'
  BY JudgedStep, CommandedStep
<1>3. Judged /\ Commanded => TypeOK
  <2> SUFFICES ASSUME Judged, Commanded PROVE TypeOK
    OBVIOUS
  <2>1. ASSUME NEW i \in 1..Len(devices) PROVE devices[i].type \in DeviceTypes
    <3>1. devices[i] \in LoadedDevice
      BY ElementOfSeq DEF Judged
    <3> QED BY <3>1 DEF LoadedDevice
  <2> QED BY <2>1 DEF Judged, Commanded, TypeOK
<1> QED BY <1>1, <1>2, <1>3, PTL DEF Spec

-----------------------------------------------------------------------------
(* Sums *)

(* Induction with a set in place of a predicate: among the sets 1..m whose   *)
(* m is not reached one would contain no other.                              *)
LEMMA NaturalsBySteps ==
  ASSUME NEW A, 0 \in A, \A n \in Nat : n \in A => n + 1 \in A
  PROVE  \A n \in Nat : n \in A
<1> SUFFICES ASSUME NEW n \in Nat, n \notin A PROVE FALSE
  OBVIOUS
<1> DEFINE S == 1..n
           R == StrictSubsetOrdering(S)
           T == {1..m : m \in {k \in 0..n : k \notin A}}
<1>1. IsFiniteSet(S)
  BY FS_Interval
<1>2. IsWellFoundedOn(R, FiniteSubsetsOf(S))
  BY FS_StrictSubsetOrderingWellFounded
<1>3. T \subseteq FiniteSubsetsOf(S) /\ T # {}
  <2>1. FiniteSubsetsOf(S) = SUBSET S
    BY <1>1, FS_FiniteSubsetsOfFinite
  <2>2. \A m \in 0..n : 1..m \in SUBSET S
    OBVIOUS
  <2>3. n \in {k \in 0..n : k \notin A}
    OBVIOUS
  <2> QED BY <2>1, <2>2, <2>3
<1>4. PICK t \in T : \A u \in T : ~(<<u, t>> \in R)
  <2> HIDE DEF R, T
  <2> QED BY <1>2, <1>3, WFMin
<1>5. PICK m \in 0..n : m \notin A /\ t = 1..m
  BY <1>4
<1>6. m # 0 /\ m - 1 \in Nat /\ m - 1 \in 0..n
  BY <1>5
<1>7. m - 1 \notin A
  BY <1>5, <1>6
<1>8. 1..(m - 1) \in T
  BY <1>6, <1>7
<1>9. <<1..(m - 1), 1..m>> \in R
  <2>1. 1..(m - 1) \subseteq 1..m /\ m \in 1..m /\ m \notin 1..(m - 1) /\ 1..m \subseteq S
    BY <1>5, <1>6
  <2> QED BY <2>1 DEF StrictSubsetOrdering
<1> QED BY <1>4, <1>5, <1>8, <1>9

-----------------------------------------------------------------------------
(* g gives every part of S the sum of f over it, as the fold defines it. *)
One(s) == CHOOSE x \in s : TRUE

Sums(f, S, g) ==
  g = [s \in SUBSET S |-> IF s = {} THEN 0 ELSE f[One(s)] + g[s \ {One(s)}]]

LEMMA OneOf == ASSUME NEW s, s # {} PROVE One(s) \in s
BY DEF One

(* The sums exist. *)
LEMMA SumsExist ==
  ASSUME NEW S, IsFiniteSet(S), NEW f, \A x \in S : f[x] \in Nat
  PROVE  \E g \in [SUBSET S -> Nat] : Sums(f, S, g)
<1> DEFINE UpTo(g, n) == \A s \in SUBSET S : Cardinality(s) <= n =>
              g[s] = IF s = {} THEN 0 ELSE f[One(s)] + g[s \ {One(s)}]
           A == {n \in Nat : \E g \in [SUBSET S -> Nat] : UpTo(g, n)}
<1>1. \A s \in SUBSET S : IsFiniteSet(s) /\ Cardinality(s) \in Nat /\ Cardinality(s) <= Cardinality(S)
  BY FS_Subset, FS_CardinalityType
<1>2. \A s \in SUBSET S : s # {} =>
        /\ One(s) \in s /\ s \ {One(s)} \in SUBSET S
        /\ Cardinality(s \ {One(s)}) = Cardinality(s) - 1
  <2> SUFFICES ASSUME NEW s \in SUBSET S, s # {}
               PROVE  /\ One(s) \in s /\ s \ {One(s)} \in SUBSET S
                      /\ Cardinality(s \ {One(s)}) = Cardinality(s) - 1
    OBVIOUS
  <2>1. One(s) \in s
    BY OneOf
  <2> QED BY <1>1, <2>1, FS_RemoveElement
<1>3. 0 \in A
  <2> DEFINE g == [s \in SUBSET S |-> 0]
  <2>1. \A s \in SUBSET S : Cardinality(s) <= 0 => s = {}
    BY <1>1, FS_EmptySet
  <2>2. g \in [SUBSET S -> Nat] /\ UpTo(g, 0)
    BY <2>1
  <2> QED BY <2>2
<1>4. ASSUME NEW n \in Nat, n \in A PROVE n + 1 \in A
  <2>1. PICK g \in [SUBSET S -> Nat] : UpTo(g, n)
    BY <1>4
  <2> DEFINE h == [s \in SUBSET S |-> IF Cardinality(s) <= n THEN g[s]
                                      ELSE IF s = {} THEN 0 ELSE f[One(s)] + g[s \ {One(s)}]]
  <2>2. h \in [SUBSET S -> Nat]
    <3> SUFFICES ASSUME NEW s \in SUBSET S, s # {} PROVE f[One(s)] + g[s \ {One(s)}] \in Nat
      OBVIOUS
    <3>1. f[One(s)] \in Nat /\ g[s \ {One(s)}] \in Nat
      BY <1>2
    <3> QED BY <3>1
  <2>3. UpTo(h, n + 1)
    <3> SUFFICES ASSUME NEW s \in SUBSET S, Cardinality(s) <= n + 1
                 PROVE  h[s] = IF s = {} THEN 0 ELSE f[One(s)] + h[s \ {One(s)}]
      OBVIOUS
    <3>1. CASE s = {}
      <4>1. Cardinality(s) <= n
        BY <3>1, FS_EmptySet
      <4> QED BY <2>1, <3>1, <4>1
    <3>2. CASE s # {}
      <4>1. h[s \ {One(s)}] = g[s \ {One(s)}]
        BY <1>1, <1>2, <3>2
      <4>2. h[s] = f[One(s)] + g[s \ {One(s)}]
        BY <2>1, <3>2
      <4> QED BY <3>2, <4>1, <4>2
    <3> QED BY <3>1, <3>2
  <2> HIDE DEF h, UpTo
  <2> QED BY <2>2, <2>3
<1> HIDE DEF A
<1>5. Cardinality(S) \in A
  <2>1. Cardinality(S) \in Nat
    BY FS_CardinalityType
  <2> QED BY <1>3, <1>4, <2>1, NaturalsBySteps
<1>6. PICK g \in [SUBSET S -> Nat] : UpTo(g, Cardinality(S))
  BY <1>5 DEF A
<1>7. Sums(f, S, g)
  <2>1. \A s \in SUBSET S : g[s] = IF s = {} THEN 0 ELSE f[One(s)] + g[s \ {One(s)}]
    BY <1>1, <1>6
  <2> QED BY <2>1 DEF Sums
<1> QED BY <1>7

(* Functions that agree have the same sums. *)
LEMMA SumsAgree ==
  ASSUME NEW S, IsFiniteSet(S), NEW f, NEW g, Sums(f, S, g),
         NEW D, S \subseteq D, NEW e, NEW h, Sums(e, D, h),
         \A x \in S : e[x] = f[x]
  PROVE  \A s \in SUBSET S : h[s] = g[s]
<1> DEFINE A == {n \in Nat : \A s \in SUBSET S : Cardinality(s) = n => h[s] = g[s]}
<1>1. \A s \in SUBSET S : IsFiniteSet(s) /\ Cardinality(s) \in Nat
  BY FS_Subset, FS_CardinalityType
<1>2. \A s \in SUBSET S : g[s] = IF s = {} THEN 0 ELSE f[One(s)] + g[s \ {One(s)}]
  BY DEF Sums
<1>3. \A s \in SUBSET S : h[s] = IF s = {} THEN 0 ELSE e[One(s)] + h[s \ {One(s)}]
  BY DEF Sums
<1>4. 0 \in A
  <2>1. \A s \in SUBSET S : Cardinality(s) = 0 => s = {}
    BY <1>1, FS_EmptySet
  <2> QED BY <1>2, <1>3, <2>1
<1>5. ASSUME NEW n \in Nat, n \in A PROVE n + 1 \in A
  <2> SUFFICES ASSUME NEW s \in SUBSET S, Cardinality(s) = n + 1 PROVE h[s] = g[s]
    OBVIOUS
  <2>1. s # {}
    BY FS_EmptySet
  <2>2. One(s) \in s
    BY <2>1, OneOf
  <2>3. Cardinality(s \ {One(s)}) = n
    <3>1. Cardinality(s \ {One(s)}) = Cardinality(s) - 1
      BY <1>1, <2>2, FS_RemoveElement
    <3> QED BY <3>1
  <2>4. h[s \ {One(s)}] = g[s \ {One(s)}]
    BY <1>5, <2>3
  <2> QED BY <1>2, <1>3, <2>1, <2>2, <2>4
<1> HIDE DEF A
<1>6. \A n \in Nat : n \in A
  BY <1>4, <1>5, NaturalsBySteps
<1> QED BY <1>1, <1>6 DEF A

(* The order of summation does not matter. *)
AnyOrder(f, S, g) == \A s \in SUBSET S : \A x \in s : g[s] = f[x] + g[s \ {x}]

LEMMA SumsInAnyOrder ==
  ASSUME NEW S, IsFiniteSet(S), NEW f, \A x \in S : f[x] \in Nat,
         NEW g \in [SUBSET S -> Nat], Sums(f, S, g)
  PROVE  AnyOrder(f, S, g)
<1> DEFINE A == {n \in Nat : \A s \in SUBSET S : Cardinality(s) = n =>
                                \A x \in s : g[s] = f[x] + g[s \ {x}]}
<1>1. \A s \in SUBSET S : IsFiniteSet(s) /\ Cardinality(s) \in Nat
  BY FS_Subset, FS_CardinalityType
<1>2. \A s \in SUBSET S : g[s] = IF s = {} THEN 0 ELSE f[One(s)] + g[s \ {One(s)}]
  BY DEF Sums
<1>3. 0 \in A
  <2>1. \A s \in SUBSET S : Cardinality(s) = 0 => s = {}
    BY <1>1, FS_EmptySet
  <2> QED BY <2>1
<1>4. ASSUME NEW n \in Nat, n \in A PROVE n + 1 \in A
  <2> SUFFICES ASSUME NEW s \in SUBSET S, Cardinality(s) = n + 1, NEW x \in s
               PROVE  g[s] = f[x] + g[s \ {x}]
    OBVIOUS
  <2> DEFINE y == One(s)
  <2>1. y \in s /\ g[s] = f[y] + g[s \ {y}]
    BY <1>2, OneOf
  <2>2. CASE x = y
    BY <2>1, <2>2
  <2>3. CASE x # y
    <3>1. Cardinality(s \ {x}) = n /\ Cardinality(s \ {y}) = n
      BY <1>1, <2>1, FS_RemoveElement
    <3>2. x \in s \ {y} /\ y \in s \ {x}
      BY <2>1, <2>3
    <3> HIDE DEF y
    <3>3. g[s \ {y}] = f[x] + g[(s \ {y}) \ {x}]
      BY <1>4, <3>1, <3>2
    <3>4. g[s \ {x}] = f[y] + g[(s \ {x}) \ {y}]
      BY <1>4, <3>1, <3>2
    <3>5. PICK rest \in Nat : g[(s \ {x}) \ {y}] = rest
      OBVIOUS
    <3>6. g[(s \ {y}) \ {x}] = rest
      <4>1. (s \ {y}) \ {x} = (s \ {x}) \ {y}
        OBVIOUS
      <4> QED BY <3>5, <4>1
    <3>7. f[x] \in Nat /\ f[y] \in Nat
      BY <2>1
    <3> QED BY <2>1, <3>3, <3>4, <3>5, <3>6, <3>7
  <2> QED BY <2>2, <2>3
<1> HIDE DEF A
<1>5. \A n \in Nat : n \in A
  BY <1>3, <1>4, NaturalsBySteps
<1> QED BY <1>1, <1>5 DEF A, AnyOrder

-----------------------------------------------------------------------------
LEMMA SumIsFold ==
  ASSUME NEW f, NEW S, NEW g, Sums(f, S, g), IsFiniteSet(S)
  PROVE  SumFunctionOnSet(f, S) = g[S]
<1> DEFINE Fold(it) == it = [s \in SUBSET S |-> IF s = {} THEN 0
                          ELSE f[CHOOSE x \in s : TRUE] + it[s \ {CHOOSE x \in s : TRUE}]]
<1>1. SumFunctionOnSet(f, S) = (CHOOSE it : Fold(it))[S]
  BY DEF SumFunctionOnSet, FoldFunctionOnSet, MapThenFoldSet
<1>2. \A it : Fold(it) <=> Sums(f, S, it)
  BY DEF Sums, One
<1> HIDE DEF Fold
<1>3. Fold(CHOOSE it : Fold(it))
  BY <1>2
<1>4. Sums(f, S, CHOOSE it : Fold(it))
  BY <1>2, <1>3
<1>5. (CHOOSE it : Fold(it))[S] = g[S]
  BY <1>4, SumsAgree
<1> QED BY <1>1, <1>5

(* The sum of a function of naturals over a finite set. *)
LEMMA SumFacts ==
  ASSUME NEW f, NEW S, IsFiniteSet(S), \A x \in S : f[x] \in Nat
  PROVE  /\ SumFunctionOnSet(f, S) \in Nat
         /\ S = {} => SumFunctionOnSet(f, S) = 0
         /\ \A x \in S : SumFunctionOnSet(f, S) = f[x] + SumFunctionOnSet(f, S \ {x})
         /\ \A e : (\A x \in S : e[x] = f[x]) =>
                      SumFunctionOnSet(e, S) = SumFunctionOnSet(f, S)
<1>1. PICK g \in [SUBSET S -> Nat] : Sums(f, S, g)
  BY SumsExist
<1>2. SumFunctionOnSet(f, S) = g[S]
  BY <1>1, SumIsFold
<1>3. S = {} => g[S] = 0
  BY <1>1 DEF Sums
<1>6. AnyOrder(f, S, g)
  BY <1>1, SumsInAnyOrder
<1>4. ASSUME NEW x \in S PROVE SumFunctionOnSet(f, S) = f[x] + SumFunctionOnSet(f, S \ {x})
  <2>1. IsFiniteSet(S \ {x}) /\ \A y \in S \ {x} : f[y] \in Nat
    BY FS_RemoveElement
  <2>2. PICK h \in [SUBSET (S \ {x}) -> Nat] : Sums(f, S \ {x}, h)
    BY <2>1, SumsExist
  <2>3. SumFunctionOnSet(f, S \ {x}) = h[S \ {x}]
    BY <2>1, <2>2, SumIsFold
  <2>4. g[S \ {x}] = h[S \ {x}]
    BY <1>1, <2>1, <2>2, SumsAgree
  <2>5. g[S] = f[x] + g[S \ {x}]
    BY <1>6 DEF AnyOrder
  <2> QED BY <1>2, <2>3, <2>4, <2>5
<1>5. ASSUME NEW e, \A x \in S : e[x] = f[x]
      PROVE  SumFunctionOnSet(e, S) = SumFunctionOnSet(f, S)
  <2>1. \A x \in S : e[x] \in Nat
    BY <1>5
  <2>2. PICK h \in [SUBSET S -> Nat] : Sums(e, S, h)
    BY <2>1, SumsExist
  <2>3. SumFunctionOnSet(e, S) = h[S]
    BY <2>2, SumIsFold
  <2>4. h[S] = g[S]
    BY <1>1, <1>5, <2>2, SumsAgree
  <2> QED BY <1>2, <2>3, <2>4
<1> QED BY <1>2, <1>3, <1>4, <1>5

-----------------------------------------------------------------------------
(* Counting one device more *)

(* A bag of finitely many kinds. *)
Counts(bag) == IsFiniteSet(DOMAIN bag) /\ bag \in [DOMAIN bag -> Nat \ {0}]

LEMMA NothingCounted ==
  /\ Counts(EmptyBag) /\ DOMAIN EmptyBag = {}
  /\ \A cells : Total(EmptyBag, cells) = 0
<1>1. DOMAIN EmptyBag = {} /\ EmptyBag \in [{} -> Nat \ {0}]
  BY DEF EmptyBag, SetToBag
<1>2. Counts(EmptyBag)
  BY <1>1, FS_EmptySet DEF Counts
<1>3. ASSUME NEW cells PROVE Total(EmptyBag, cells) = 0
  <2>1. cells \cap DOMAIN EmptyBag = {}
    BY <1>1
  <2>2. IsFiniteSet({})
    BY FS_EmptySet
  <2>3. SumFunctionOnSet(EmptyBag, {}) = 0
    BY <2>2, SumFacts
  <2> QED BY <2>1, <2>3 DEF Total
<1> QED BY <1>1, <1>2, <1>3

LEMMA TotalFacts ==
  ASSUME NEW bag, Counts(bag), NEW cells
  PROVE  /\ Total(bag, cells) \in Nat
         /\ Total(bag, cells) = Total(bag, cells \cap DOMAIN bag)
<1>1. IsFiniteSet(cells \cap DOMAIN bag)
  BY FS_Subset DEF Counts
<1>2. \A x \in cells \cap DOMAIN bag : bag[x] \in Nat
  BY DEF Counts
<1>3. cells \cap DOMAIN bag = (cells \cap DOMAIN bag) \cap DOMAIN bag
  OBVIOUS
<1> QED BY <1>1, <1>2, <1>3, SumFacts DEF Total

LEMMA OneMoreShape ==
  ASSUME NEW bag, Counts(bag), NEW x
  PROVE  /\ Counts(OneMore(x, bag))
         /\ DOMAIN OneMore(x, bag) = DOMAIN bag \cup {x}
         /\ \A y \in DOMAIN bag : y # x => OneMore(x, bag)[y] = bag[y]
         /\ OneMore(x, bag)[x] = Copies(x, bag) + 1
         /\ \A y : Copies(y, OneMore(x, bag)) = Copies(y, bag) + (IF y = x THEN 1 ELSE 0)
         /\ \A y : Copies(y, bag) \in Nat
<1> DEFINE more == OneMore(x, bag)
<1>1. more = [e \in DOMAIN bag \cup {x} |-> (IF e \in DOMAIN bag THEN bag[e] ELSE 0)
                                           + (IF e \in {x} THEN 1 ELSE 0)]
  BY DEF OneMore, (+), SetToBag
<1>2. \A y \in DOMAIN bag : bag[y] \in Nat \ {0}
  BY DEF Counts
<1>3. \A y : Copies(y, bag) \in Nat
  BY <1>2 DEF Copies
<1> HIDE DEF more
<1>4. DOMAIN more = DOMAIN bag \cup {x}
  BY <1>1
<1>5. \A y \in DOMAIN bag : y # x => more[y] = bag[y]
  BY <1>1, <1>2
<1>6. more[x] = Copies(x, bag) + 1
  BY <1>1, <1>2 DEF Copies
<1>7. \A y : Copies(y, more) = Copies(y, bag) + (IF y = x THEN 1 ELSE 0)
  BY <1>2, <1>3, <1>4, <1>5, <1>6 DEF Copies
<1>8. Counts(more)
  <2>1. IsFiniteSet(DOMAIN bag \cup {x})
    BY FS_AddElement DEF Counts
  <2>2. \A y \in DOMAIN more : more[y] \in Nat \ {0}
    BY <1>2, <1>3, <1>4, <1>5, <1>6
  <2>3. more \in [DOMAIN more -> Nat \ {0}]
    BY <1>1, <1>4, <2>2
  <2> QED BY <1>4, <2>1, <2>3 DEF Counts
<1> QED BY <1>3, <1>4, <1>5, <1>6, <1>7, <1>8 DEF more

LEMMA OneMoreTotal ==
  ASSUME NEW bag, Counts(bag), NEW x, NEW cells
  PROVE  Total(OneMore(x, bag), cells) = Total(bag, cells) + (IF x \in cells THEN 1 ELSE 0)
<1> DEFINE more == OneMore(x, bag)
           old  == cells \cap DOMAIN bag
           new  == cells \cap DOMAIN more
           rest == old \ {x}
<1>1. /\ Counts(more) /\ DOMAIN more = DOMAIN bag \cup {x}
      /\ \A y \in DOMAIN bag : y # x => more[y] = bag[y]
      /\ more[x] = Copies(x, bag) + 1 /\ Copies(x, bag) \in Nat
  BY OneMoreShape
<1>2. /\ IsFiniteSet(old) /\ \A y \in old : bag[y] \in Nat
      /\ IsFiniteSet(new) /\ \A y \in new : more[y] \in Nat
      /\ IsFiniteSet(rest) /\ \A y \in rest : bag[y] \in Nat
  BY <1>1, FS_Subset DEF Counts
<1>3. \A y \in rest : more[y] = bag[y]
  BY <1>1
<1>4. Total(more, cells) = SumFunctionOnSet(more, new) /\ Total(bag, cells) = SumFunctionOnSet(bag, old)
  BY DEF Total
<1>5. new \ {x} = rest
  BY <1>1
<1> SUFFICES Total(more, cells) = Total(bag, cells) + (IF x \in cells THEN 1 ELSE 0)
  OBVIOUS
<1> HIDE DEF more
<1>6. SumFunctionOnSet(more, rest) = SumFunctionOnSet(bag, rest)
  BY <1>2, <1>3, SumFacts
<1>7. SumFunctionOnSet(bag, rest) \in Nat
  BY <1>2, SumFacts
<1>8. CASE x \notin cells
  <2>1. new = rest /\ old = rest
    BY <1>1, <1>8
  <2> QED BY <1>4, <1>6, <1>7, <1>8, <2>1
<1>9. CASE x \in cells
  <2>1. x \in new
    BY <1>1, <1>9
  <2> HIDE DEF old, new, rest
  <2>2. SumFunctionOnSet(more, new) = more[x] + SumFunctionOnSet(more, new \ {x})
    BY <1>2, <2>1, SumFacts
  <2>3. SumFunctionOnSet(bag, old) = Copies(x, bag) + SumFunctionOnSet(bag, rest)
    <3>1. CASE x \in DOMAIN bag
      <4>1. x \in old /\ rest = old \ {x}
        BY <1>9, <3>1 DEF old, rest
      <4>2. SumFunctionOnSet(bag, old) = bag[x] + SumFunctionOnSet(bag, old \ {x})
        BY <1>2, <4>1, SumFacts
      <4> QED BY <3>1, <4>1, <4>2 DEF Copies
    <3>2. CASE x \notin DOMAIN bag
      <4>1. rest = old
        BY <3>2 DEF old, rest
      <4> QED BY <1>7, <3>2, <4>1 DEF Copies
    <3> QED BY <3>1, <3>2
  <2> QED BY <1>1, <1>4, <1>5, <1>6, <1>7, <1>9, <2>2, <2>3
<1> QED BY <1>8, <1>9

-----------------------------------------------------------------------------
(* The tally *)

Missing(s)       == {i \in 1..Len(s) : s[i].expected = "MISSING"}
Diagonal(matrix) == {c \in DOMAIN matrix : c[1] = c[2]}
Aside(matrix)    == {c \in DOMAIN matrix : c[1] # c[2]}
RowOf(type, matrix) == {c \in DOMAIN matrix : c[1] = type}
Listed(s)        == s \in Seq({s[i] : i \in DOMAIN s})

(* Strengthening of Accounts: the counts are bags, and a type that was never *)
(* expected has no count at all.                                             *)
Balanced(t) ==
  /\ Counts(t.total) /\ Counts(t.right) /\ Counts(t.wrong)
  /\ Counts(t.matrix) /\ Counts(t.misclassified)
  /\ \A c \in DOMAIN t.matrix : c = <<c[1], c[2]>>
  /\ t.seen \in Nat /\ t.correct \in Nat /\ Listed(t.mismatches)
  /\ t.correct + Len(t.mismatches) = t.seen
  /\ Total(t.matrix, DOMAIN t.matrix) + Cardinality(Missing(t.mismatches)) = t.seen
  /\ Total(t.matrix, Diagonal(t.matrix)) = t.correct
  /\ Total(t.matrix, Aside(t.matrix)) + Cardinality(Missing(t.mismatches)) = Len(t.mismatches)
  /\ Total(t.misclassified, DOMAIN t.misclassified) = Len(t.mismatches)
  /\ DOMAIN t.total = Rows(t)
  /\ \A type :
       /\ Copies(type, t.right) = Copies(<<type, type>>, t.matrix)
       /\ Copies(type, t.right) + Copies(type, t.wrong) = Copies(type, t.total)
       /\ Total(t.matrix, RowOf(type, t.matrix)) = Copies(type, t.total)

LEMMA BalancedAccounts == ASSUME NEW t, Balanced(t) PROVE Accounts(t)
<1>1. /\ Missing(t.mismatches) = {i \in 1..Len(t.mismatches) : t.mismatches[i].expected = "MISSING"}
      /\ OffDiagonal(t) = Total(t.matrix, Aside(t.matrix))
      /\ Diagonal(t.matrix) = {c \in DOMAIN t.matrix : c[1] = c[2]}
      /\ \A type : RowOf(type, t.matrix) = {c \in DOMAIN t.matrix : c[1] = type}
  BY DEF Missing, OffDiagonal, Aside, Diagonal, RowOf
<1> QED BY <1>1 DEF Balanced, Accounts

(* One device more in the part of a bag that a condition on its kind picks.  *)
LEMMA OneMoreWhere ==
  ASSUME NEW bag, Counts(bag), NEW x, NEW before, NEW after,
         before = after \cap DOMAIN bag
  PROVE  Total(OneMore(x, bag), after) = Total(bag, before) + (IF x \in after THEN 1 ELSE 0)
BY OneMoreTotal, TotalFacts

MatrixGrown(m, n, e, a) ==
  /\ Counts(n)
  /\ Total(n, DOMAIN n) = Total(m, DOMAIN m) + 1
  /\ Total(n, Diagonal(n)) = Total(m, Diagonal(m)) + (IF e = a THEN 1 ELSE 0)
  /\ Total(n, Aside(n)) = Total(m, Aside(m)) + (IF e = a THEN 0 ELSE 1)
  /\ \A type : Total(n, RowOf(type, n)) = Total(m, RowOf(type, m)) + (IF type = e THEN 1 ELSE 0)
  /\ {c[1] : c \in DOMAIN n} = {c[1] : c \in DOMAIN m} \cup {e}

LEMMA MatrixGrows ==
  ASSUME NEW m, Counts(m), NEW e, NEW a
  PROVE  MatrixGrown(m, OneMore(<<e, a>>, m), e, a)
<1> DEFINE x == <<e, a>>
           n == OneMore(x, m)
<1>1. Counts(n) /\ DOMAIN n = DOMAIN m \cup {x}
  BY OneMoreShape
<1>2. x[1] = e /\ x[2] = a
  OBVIOUS
<1>3. Total(n, DOMAIN n) = Total(m, DOMAIN m) + 1
  <2>1. DOMAIN m = DOMAIN n \cap DOMAIN m /\ x \in DOMAIN n
    BY <1>1
  <2> HIDE DEF x
  <2> QED BY <2>1, OneMoreWhere
<1>4. Total(n, Diagonal(n)) = Total(m, Diagonal(m)) + (IF e = a THEN 1 ELSE 0)
  <2> HIDE DEF x, n
  <2>1. Diagonal(m) = Diagonal(n) \cap DOMAIN m /\ (x \in Diagonal(n) <=> e = a)
    BY <1>1, <1>2 DEF Diagonal
  <2>2. Total(OneMore(x, m), Diagonal(n))
          = Total(m, Diagonal(m)) + (IF x \in Diagonal(n) THEN 1 ELSE 0)
    BY <2>1, OneMoreWhere
  <2> QED BY <2>1, <2>2 DEF n
<1>5. Total(n, Aside(n)) = Total(m, Aside(m)) + (IF e = a THEN 0 ELSE 1)
  <2> HIDE DEF x, n
  <2>1. Aside(m) = Aside(n) \cap DOMAIN m /\ (x \in Aside(n) <=> e # a)
    BY <1>1, <1>2 DEF Aside
  <2>2. Total(OneMore(x, m), Aside(n))
          = Total(m, Aside(m)) + (IF x \in Aside(n) THEN 1 ELSE 0)
    BY <2>1, OneMoreWhere
  <2> QED BY <2>1, <2>2 DEF n
<1>6. ASSUME NEW type
      PROVE  Total(n, RowOf(type, n)) = Total(m, RowOf(type, m)) + (IF type = e THEN 1 ELSE 0)
  <2> HIDE DEF x, n
  <2>1. RowOf(type, m) = RowOf(type, n) \cap DOMAIN m /\ (x \in RowOf(type, n) <=> type = e)
    BY <1>1, <1>2 DEF RowOf
  <2>2. Total(OneMore(x, m), RowOf(type, n))
          = Total(m, RowOf(type, m)) + (IF x \in RowOf(type, n) THEN 1 ELSE 0)
    BY <2>1, OneMoreWhere
  <2> QED BY <2>1, <2>2 DEF n
<1>7. {c[1] : c \in DOMAIN n} = {c[1] : c \in DOMAIN m} \cup {e}
  BY <1>1, <1>2
<1> QED BY <1>1, <1>3, <1>4, <1>5, <1>6, <1>7 DEF MatrixGrown

(* A mismatch more. *)
LEMMA MismatchListed ==
  ASSUME NEW s, Listed(s), NEW m
  PROVE  /\ Listed(Append(s, m)) /\ Len(Append(s, m)) = Len(s) + 1 /\ Len(s) \in Nat
         /\ \A i \in 1..Len(s) : Append(s, m)[i] = s[i]
         /\ Append(s, m)[Len(s) + 1] = m
<1> DEFINE S == {s[i] : i \in DOMAIN s} \cup {m}
           new == Append(s, m)
           R == {new[i] : i \in DOMAIN new}
<1>1. s \in Seq(S) /\ m \in S
  <2>1. s \in Seq({s[i] : i \in DOMAIN s})
    BY DEF Listed
  <2> QED BY <2>1
<1> HIDE DEF S
<1>2. /\ new \in Seq(S) /\ Len(new) = Len(s) + 1
      /\ \A i \in 1..Len(s) : new[i] = s[i]
      /\ new[Len(s) + 1] = m
  BY <1>1, AppendProperties
<1> HIDE DEF new
<1>3. new \in [1..Len(new) -> S] /\ Len(new) \in Nat /\ Len(s) \in Nat
  BY <1>1, <1>2, LenProperties
<1>4. new \in [1..Len(new) -> R]
  BY <1>3
<1> HIDE DEF R
<1>5. new \in Seq(R)
  BY <1>3, <1>4, SeqDef
<1> QED BY <1>2, <1>3, <1>5 DEF Listed, R, new

LEMMA MissingFinite ==
  ASSUME NEW s, Listed(s)
  PROVE  IsFiniteSet(Missing(s)) /\ Cardinality(Missing(s)) \in Nat
<1>1. Len(s) \in Nat
  BY MismatchListed
<1>2. IsFiniteSet(1..Len(s))
  BY <1>1, FS_Interval
<1>3. Missing(s) \subseteq 1..Len(s)
  BY DEF Missing
<1> QED BY <1>2, <1>3, FS_Subset, FS_CardinalityType

LEMMA MissingGrows ==
  ASSUME NEW s, Listed(s), NEW m
  PROVE  Cardinality(Missing(Append(s, m))) =
           Cardinality(Missing(s)) + (IF m.expected = "MISSING" THEN 1 ELSE 0)
<1> DEFINE n == Len(s)
           more == Append(s, m)
<1>1. /\ Len(more) = n + 1 /\ n \in Nat
      /\ \A i \in 1..n : more[i] = s[i]
      /\ more[n + 1] = m
  BY MismatchListed
<1>2. IsFiniteSet(Missing(s)) /\ Cardinality(Missing(s)) \in Nat /\ n + 1 \notin Missing(s)
  <2>1. Missing(s) \subseteq 1..n
    BY DEF Missing
  <2> QED BY <1>1, <2>1, MissingFinite
<1> HIDE DEF n, more
<1>3. CASE m.expected = "MISSING"
  <2>1. Missing(more) = Missing(s) \cup {n + 1}
    BY <1>1, <1>3 DEF Missing, n
  <2> QED BY <1>2, <1>3, <2>1, FS_AddElement DEF more
<1>4. CASE m.expected # "MISSING"
  <2>1. Missing(more) = Missing(s)
    BY <1>1, <1>4 DEF Missing, n
  <2> QED BY <1>2, <1>4, <2>1 DEF more
<1> QED BY <1>3, <1>4

(* A device more keeps a tally balanced, whatever was expected of it and     *)
(* whatever type it was given.                                               *)
LEMMA CountedBalanced ==
  ASSUME NEW t, Balanced(t), NEW ip, NEW expected, NEW actual, actual # "MISSING"
  PROVE  Balanced(Counted(t, ip, expected, actual))
<1> DEFINE u == Counted(t, ip, expected, actual)
           m == [ip |-> ip, expected |-> expected, actual |-> actual]
<1>1. /\ u.seen = t.seen + 1
      /\ u.correct = IF expected = actual THEN t.correct + 1 ELSE t.correct
      /\ u.total = IF expected # "MISSING" THEN OneMore(expected, t.total) ELSE t.total
      /\ u.right = IF expected = actual THEN OneMore(expected, t.right) ELSE t.right
      /\ u.wrong = IF expected # "MISSING" /\ expected # actual THEN OneMore(expected, t.wrong)
                   ELSE t.wrong
      /\ u.matrix = IF expected # "MISSING" THEN OneMore(<<expected, actual>>, t.matrix)
                    ELSE t.matrix
      /\ u.misclassified = IF expected = actual THEN t.misclassified
                           ELSE OneMore(<<expected, actual>>, t.misclassified)
      /\ u.mismatches = IF expected = actual THEN t.mismatches ELSE Append(t.mismatches, m)
  BY DEF Counted, Known
<1> HIDE DEF u
<1>2. /\ Counts(t.total) /\ Counts(t.right) /\ Counts(t.wrong)
      /\ Counts(t.matrix) /\ Counts(t.misclassified)
      /\ t.seen \in Nat /\ t.correct \in Nat /\ Listed(t.mismatches)
      /\ Len(t.mismatches) \in Nat
  BY MismatchListed DEF Balanced
<1>3. /\ Counts(u.total) /\ Counts(u.right) /\ Counts(u.wrong)
      /\ Counts(u.matrix) /\ Counts(u.misclassified)
  <2>1. \A x, bag : Counts(bag) => Counts(OneMore(x, bag))
    BY OneMoreShape
  <2> QED BY <1>1, <1>2, <2>1
<1>4. u.seen \in Nat /\ u.correct \in Nat
  BY <1>1, <1>2
<1>14. \A c \in DOMAIN u.matrix : c = <<c[1], c[2]>>
  <2>1. \A c \in DOMAIN t.matrix : c = <<c[1], c[2]>>
    BY DEF Balanced
  <2>2. DOMAIN OneMore(<<expected, actual>>, t.matrix)
          = DOMAIN t.matrix \cup {<<expected, actual>>}
    BY <1>2, OneMoreShape
  <2>3. <<expected, actual>>[1] = expected /\ <<expected, actual>>[2] = actual
    OBVIOUS
  <2> QED BY <1>1, <2>1, <2>2, <2>3
<1>5. /\ Listed(u.mismatches)
      /\ Len(u.mismatches) = Len(t.mismatches) + (IF expected = actual THEN 0 ELSE 1)
  <2>1. \A s, e : Listed(s) => Listed(Append(s, e)) /\ Len(Append(s, e)) = Len(s) + 1
    BY MismatchListed
  <2> HIDE DEF m
  <2>2. CASE expected = actual
    BY <1>1, <1>2, <2>2
  <2>3. CASE expected # actual
    BY <1>1, <1>2, <2>1, <2>3
  <2> QED BY <2>2, <2>3
<1>6. /\ Cardinality(Missing(t.mismatches)) \in Nat
      /\ Cardinality(Missing(u.mismatches)) =
           Cardinality(Missing(t.mismatches)) + (IF expected = "MISSING" THEN 1 ELSE 0)
  <2>1. CASE expected # actual
    <3>1. u.mismatches = Append(t.mismatches, m) /\ m.expected = expected
      BY <1>1, <2>1
    <3> HIDE DEF m
    <3>2. Cardinality(Missing(u.mismatches)) =
            Cardinality(Missing(t.mismatches)) + (IF m.expected = "MISSING" THEN 1 ELSE 0)
      BY <1>2, <3>1, MissingGrows
    <3> QED BY <1>2, <3>1, <3>2, MissingFinite
  <2>2. CASE expected = actual
    <3>1. u.mismatches = t.mismatches
      BY <1>1, <2>2
    <3> QED BY <1>2, <2>2, <3>1, MissingFinite
  <2> QED BY <1>2, <2>1, <2>2, MissingFinite
<1>7. LET one == IF expected # "MISSING" THEN 1 ELSE 0
      IN  /\ Total(u.matrix, DOMAIN u.matrix) = Total(t.matrix, DOMAIN t.matrix) + one
          /\ Total(u.matrix, Diagonal(u.matrix))
               = Total(t.matrix, Diagonal(t.matrix)) + (IF expected = actual THEN 1 ELSE 0)
          /\ Total(u.matrix, Aside(u.matrix))
               = Total(t.matrix, Aside(t.matrix)) + (IF expected = actual THEN 0 ELSE one)
          /\ \A type : Total(u.matrix, RowOf(type, u.matrix))
               = Total(t.matrix, RowOf(type, t.matrix)) + (IF type = expected THEN one ELSE 0)
          /\ Rows(u) = Rows(t) \cup (IF expected # "MISSING" THEN {expected} ELSE {})
  <2>1. CASE expected # "MISSING"
    <3> DEFINE b == t.matrix
    <3>1. u.matrix = OneMore(<<expected, actual>>, b) /\ Counts(b)
      BY <1>1, <1>2, <2>1
    <3>2. Rows(t) = {c[1] : c \in DOMAIN b} /\ Rows(u) = {c[1] : c \in DOMAIN u.matrix}
      BY DEF Rows
    <3> HIDE DEF b
    <3>3. MatrixGrown(b, u.matrix, expected, actual)
      BY <3>1, MatrixGrows
    <3> QED BY <2>1, <3>2, <3>3 DEF b, MatrixGrown
  <2>2. CASE expected = "MISSING"
    <3>1. u.matrix = t.matrix
      BY <1>1, <2>2
    <3>2. /\ Total(t.matrix, DOMAIN t.matrix) \in Nat
          /\ Total(t.matrix, Diagonal(t.matrix)) \in Nat
          /\ Total(t.matrix, Aside(t.matrix)) \in Nat
          /\ \A type : Total(t.matrix, RowOf(type, t.matrix)) \in Nat
      BY <1>2, TotalFacts
    <3> QED BY <2>2, <3>1, <3>2 DEF Rows
  <2> QED BY <2>1, <2>2
<1>8. Total(u.misclassified, DOMAIN u.misclassified) = Len(u.mismatches)
  <2>1. Total(t.misclassified, DOMAIN t.misclassified) = Len(t.mismatches)
    BY DEF Balanced
  <2>2. CASE expected = actual
    BY <1>1, <1>5, <1>2, <2>1, <2>2
  <2>3. CASE expected # actual
    <3> DEFINE x == <<expected, actual>>
               b == t.misclassified
    <3>1. u.misclassified = OneMore(x, b)
      BY <1>1, <2>3
    <3> HIDE DEF x, b
    <3>2. Counts(b)
      BY <1>2 DEF b
    <3>3. DOMAIN OneMore(x, b) = DOMAIN b \cup {x}
      BY <3>2, OneMoreShape
    <3>4. Total(OneMore(x, b), DOMAIN OneMore(x, b)) = Total(b, DOMAIN b) + 1
      BY <3>2, <3>3, OneMoreWhere
    <3> QED BY <1>5, <2>1, <2>3, <3>1, <3>4 DEF b
  <2> QED BY <2>2, <2>3
<1>9. DOMAIN u.total = Rows(u)
  <2>1. DOMAIN t.total = Rows(t)
    BY DEF Balanced
  <2> QED BY <1>1, <1>2, <1>7, <2>1, OneMoreShape
<1>10. ASSUME NEW type
       PROVE  /\ Copies(type, u.right) = Copies(<<type, type>>, u.matrix)
              /\ Copies(type, u.right) + Copies(type, u.wrong) = Copies(type, u.total)
              /\ Total(u.matrix, RowOf(type, u.matrix)) = Copies(type, u.total)
  <2>1. /\ Copies(type, t.right) = Copies(<<type, type>>, t.matrix)
        /\ Copies(type, t.right) + Copies(type, t.wrong) = Copies(type, t.total)
        /\ Total(t.matrix, RowOf(type, t.matrix)) = Copies(type, t.total)
    BY DEF Balanced
  <2>2. /\ Copies(type, t.right) \in Nat /\ Copies(type, t.wrong) \in Nat
        /\ Copies(type, t.total) \in Nat /\ Copies(<<type, type>>, t.matrix) \in Nat
    BY <1>2, OneMoreShape
  <2> DEFINE Steps(x, bag) == Copies(type, OneMore(x, bag)) = Copies(type, bag)
                                                             + (IF type = x THEN 1 ELSE 0)
  <2>9. /\ Steps(expected, t.right) /\ Steps(expected, t.wrong) /\ Steps(expected, t.total)
        /\ Copies(<<type, type>>, OneMore(<<expected, actual>>, t.matrix))
             = Copies(<<type, type>>, t.matrix)
               + (IF <<type, type>> = <<expected, actual>> THEN 1 ELSE 0)
    <3>1. \A bag, x, y : Counts(bag) =>
            Copies(y, OneMore(x, bag)) = Copies(y, bag) + (IF y = x THEN 1 ELSE 0)
      BY OneMoreShape
    <3> QED BY <1>2, <3>1
  <2>3. Copies(type, u.right)
          = Copies(type, t.right) + (IF expected = actual /\ type = expected THEN 1 ELSE 0)
    BY <1>1, <2>2, <2>9
  <2>4. Copies(type, u.wrong)
          = Copies(type, t.wrong)
            + (IF expected # "MISSING" /\ expected # actual /\ type = expected THEN 1 ELSE 0)
    BY <1>1, <2>2, <2>9
  <2>5. Copies(type, u.total)
          = Copies(type, t.total) + (IF expected # "MISSING" /\ type = expected THEN 1 ELSE 0)
    BY <1>1, <2>2, <2>9
  <2>6. Copies(<<type, type>>, u.matrix)
          = Copies(<<type, type>>, t.matrix)
            + (IF expected # "MISSING" /\ <<type, type>> = <<expected, actual>> THEN 1 ELSE 0)
    <3>1. CASE expected # "MISSING"
      BY <1>1, <2>9, <3>1
    <3>2. CASE expected = "MISSING"
      BY <1>1, <2>2, <3>2
    <3> QED BY <3>1, <3>2
  <2>7. Total(u.matrix, RowOf(type, u.matrix))
          = Total(t.matrix, RowOf(type, t.matrix))
            + (IF expected # "MISSING" /\ type = expected THEN 1 ELSE 0)
    BY <1>7
  <2> QED BY <2>1, <2>2, <2>3, <2>4, <2>5, <2>6, <2>7
<1>11. /\ u.correct + Len(u.mismatches) = u.seen
       /\ Total(u.matrix, DOMAIN u.matrix) + Cardinality(Missing(u.mismatches)) = u.seen
       /\ Total(u.matrix, Diagonal(u.matrix)) = u.correct
       /\ Total(u.matrix, Aside(u.matrix)) + Cardinality(Missing(u.mismatches)) = Len(u.mismatches)
  <2>1. /\ t.correct + Len(t.mismatches) = t.seen
        /\ Total(t.matrix, DOMAIN t.matrix) + Cardinality(Missing(t.mismatches)) = t.seen
        /\ Total(t.matrix, Diagonal(t.matrix)) = t.correct
        /\ Total(t.matrix, Aside(t.matrix)) + Cardinality(Missing(t.mismatches)) = Len(t.mismatches)
    BY DEF Balanced
  <2>2. /\ Total(t.matrix, DOMAIN t.matrix) \in Nat
        /\ Total(t.matrix, Aside(t.matrix)) \in Nat
    BY <1>2, TotalFacts
  <2>3. PICK correct \in Nat, wrong \in Nat, seen \in Nat, missing \in Nat, all \in Nat, aside \in Nat :
          /\ correct = t.correct /\ wrong = Len(t.mismatches) /\ seen = t.seen
          /\ missing = Cardinality(Missing(t.mismatches))
          /\ all = Total(t.matrix, DOMAIN t.matrix) /\ aside = Total(t.matrix, Aside(t.matrix))
    BY <1>2, <1>6, <2>2
  <2>4. correct + wrong = seen /\ all + missing = seen /\ aside + missing = wrong
    BY <2>1, <2>3
  <2>5. u.seen = seen + 1
    BY <1>1, <2>3
  <2>6. CASE expected = actual
    <3>1. /\ u.correct = correct + 1 /\ Len(u.mismatches) = wrong
          /\ Cardinality(Missing(u.mismatches)) = missing
          /\ Total(u.matrix, DOMAIN u.matrix) = all + 1
          /\ Total(u.matrix, Diagonal(u.matrix)) = correct + 1
          /\ Total(u.matrix, Aside(u.matrix)) = aside
      BY <1>1, <1>5, <1>6, <1>7, <2>1, <2>3, <2>6
    <3> QED BY <2>4, <2>5, <3>1
  <2>7. CASE expected # actual /\ expected # "MISSING"
    <3>1. /\ u.correct = correct /\ Len(u.mismatches) = wrong + 1
          /\ Cardinality(Missing(u.mismatches)) = missing
          /\ Total(u.matrix, DOMAIN u.matrix) = all + 1
          /\ Total(u.matrix, Diagonal(u.matrix)) = correct
          /\ Total(u.matrix, Aside(u.matrix)) = aside + 1
      <4>1. Total(u.matrix, DOMAIN u.matrix) = all + 1
        BY <1>7, <2>3, <2>7
      <4>2. Total(u.matrix, Diagonal(u.matrix)) = correct
        BY <1>7, <2>1, <2>3, <2>7
      <4>3. Total(u.matrix, Aside(u.matrix)) = aside + 1
        BY <1>7, <2>3, <2>7
      <4> QED BY <1>1, <1>5, <1>6, <2>3, <2>7, <4>1, <4>2, <4>3
    <3> QED BY <2>4, <2>5, <3>1
  <2>8. CASE expected = "MISSING"
    <3>1. /\ u.correct = correct /\ Len(u.mismatches) = wrong + 1
          /\ Cardinality(Missing(u.mismatches)) = missing + 1
          /\ Total(u.matrix, DOMAIN u.matrix) = all
          /\ Total(u.matrix, Diagonal(u.matrix)) = correct
          /\ Total(u.matrix, Aside(u.matrix)) = aside
      BY <1>1, <1>5, <1>6, <1>7, <2>1, <2>3, <2>8
    <3> QED BY <2>4, <2>5, <3>1
  <2> QED BY <2>6, <2>7, <2>8
<1> HIDE DEF m
<1>12. Balanced(u)
  BY <1>3, <1>4, <1>5, <1>8, <1>9, <1>10, <1>11, <1>14 DEF Balanced
<1> QED BY <1>12 DEF u

LEMMA NothingBalanced == Balanced(NoTally)
<1>1. PICK t, none, nobody : t = NoTally /\ none = EmptyBag /\ nobody = <<>>
  OBVIOUS
<1>2. Listed(nobody) /\ Len(nobody) = 0
  BY <1>1 DEF Listed
<1>3. Cardinality(Missing(nobody)) = 0
  <2>1. Missing(nobody) = {}
    BY <1>2 DEF Missing
  <2> QED BY <2>1, FS_EmptySet
<1>4. /\ t.seen = 0 /\ t.correct = 0 /\ t.mismatches = nobody
      /\ t.total = none /\ t.right = none /\ t.wrong = none
      /\ t.matrix = none /\ t.misclassified = none
  BY <1>1 DEF NoTally
<1>5. /\ Counts(none) /\ DOMAIN none = {}
      /\ \A cells : Total(none, cells) = 0
      /\ \A x : Copies(x, none) = 0
  BY <1>1, NothingCounted DEF Copies
<1>6. Rows(t) = {}
  BY <1>4, <1>5 DEF Rows
<1>7. /\ Counts(t.total) /\ Counts(t.right) /\ Counts(t.wrong)
      /\ Counts(t.matrix) /\ Counts(t.misclassified)
      /\ \A c \in DOMAIN t.matrix : c = <<c[1], c[2]>>
      /\ DOMAIN t.total = Rows(t)
  BY <1>4, <1>5, <1>6
<1>8. /\ t.seen \in Nat /\ t.correct \in Nat /\ Listed(t.mismatches)
      /\ t.correct + Len(t.mismatches) = t.seen
  BY <1>2, <1>4
<1>9. /\ Total(t.matrix, DOMAIN t.matrix) + Cardinality(Missing(t.mismatches)) = t.seen
      /\ Total(t.matrix, Diagonal(t.matrix)) = t.correct
      /\ Total(t.matrix, Aside(t.matrix)) + Cardinality(Missing(t.mismatches)) = Len(t.mismatches)
      /\ Total(t.misclassified, DOMAIN t.misclassified) = Len(t.mismatches)
  BY <1>2, <1>3, <1>4, <1>5
<1>10. \A type :
         /\ Copies(type, t.right) = Copies(<<type, type>>, t.matrix)
         /\ Copies(type, t.right) + Copies(type, t.wrong) = Copies(type, t.total)
         /\ Total(t.matrix, RowOf(type, t.matrix)) = Copies(type, t.total)
  BY <1>4, <1>5
<1>11. Balanced(t)
  BY <1>7, <1>8, <1>9, <1>10 DEF Balanced
<1> QED BY <1>1, <1>11

LEMMA VerdictKnown == ASSUME NEW d PROVE Classify(d) # "MISSING"
<1>1. \A n \in 1..14 : Suggests[Rules[n]] # "MISSING"
  BY VerdictTable
<1> QED BY <1>1, VerdictOfFirst

(* What makes the counts inductive: every tally there is, is balanced.       *)
AllBalanced ==
  /\ Balanced(tally)
  /\ \A f \in DOMAIN reports : reports[f].whole => Balanced(reports[f].tally)

LEMMA AllBalancedStep == ASSUME AllBalanced, [Next]_vars PROVE AllBalanced'
<1>1. CASE UNCHANGED <<tally, reports>>
  BY <1>1 DEF AllBalanced
<1>2. CASE tally' = NoTally /\ UNCHANGED reports
  BY <1>2, NothingBalanced DEF AllBalanced
<1>3. ASSUME NEW d, EditDataset(d) PROVE AllBalanced'
  BY <1>1, <1>3 DEF EditDataset
<1>4. ASSUME NEW out, NEW names, NEW tests, Begins(out, names, tests) PROVE AllBalanced'
  BY <1>2, <1>4 DEF Begins
<1>5. CASE Finish \/ Dies
  BY <1>2, <1>5 DEF Finish, Dies, Ends
<1>6. ASSUME NEW d, LoadFails(d) PROVE AllBalanced'
  BY <1>1, <1>2, <1>6 DEF LoadFails, Ends
<1>7. ASSUME NEW d, Load(d) PROVE AllBalanced'
  BY <1>2, <1>7 DEF Load
<1>8. ASSUME NEW d, ClassifyDevice(d) PROVE AllBalanced'
  <2>1. PICK device, expected : /\ tally' = Counted(tally, device.ip, expected, Classify(device.evidence))
                                /\ reports' = reports
    BY <1>8 DEF ClassifyDevice
  <2>2. Balanced(tally')
    BY <2>1, VerdictKnown, CountedBalanced DEF AllBalanced
  <2> QED BY <2>1, <2>2 DEF AllBalanced
<1>9. ASSUME NEW d, OpenReport(d) PROVE AllBalanced'
  <2>1. /\ tally' = tally
        /\ reports' = [f \in DOMAIN reports \cup {<<output, d>>} |->
                         IF f = <<output, d>> THEN Torn ELSE reports[f]]
    BY <1>9 DEF OpenReport
  <2>2. ~Torn.whole
    BY DEF Torn
  <2> QED BY <2>1, <2>2 DEF AllBalanced
<1>10. ASSUME NEW d, WriteReport(d) PROVE AllBalanced'
  <2>1. tally' = tally /\ reports' = [reports EXCEPT ![<<output, d>>] = Report(d, tally)]
    BY <1>10 DEF WriteReport
  <2>2. Report(d, tally).tally = tally
    BY DEF Report
  <2> QED BY <2>1, <2>2 DEF AllBalanced
<1>11. CASE Compare
  BY <1>1, <1>11 DEF Compare
<1>12. CASE UNCHANGED vars
  BY <1>1, <1>12 DEF vars
<1> QED
  BY <1>3, <1>4, <1>5, <1>6, <1>7, <1>8, <1>9, <1>10, <1>11, <1>12
     DEF Next, BeginBenchmark, BeginValidate, Works

LEMMA AllBalancedInit == Init => AllBalanced
BY NothingBalanced DEF Init, AllBalanced

(* The counts of a benchmark account for every device exactly once, at every *)
(* moment and in every report that is whole, whatever the datasets hold,     *)
(* whatever was expected of a device or not, and wherever a command dies     *)
(* (run_benchmark).                                                          *)
THEOREM CountsAlwaysAccount == Spec => []CountsAccountForDevices
<1>1. AllBalanced => CountsAccountForDevices
  BY BalancedAccounts DEF AllBalanced, CountsAccountForDevices
<1> QED BY <1>1, AllBalancedInit, AllBalancedStep, PTL DEF Spec

-----------------------------------------------------------------------------
(* Comparing two reports *)

(* What is counted no more often in one bag than in another adds up to no    *)
(* more.                                                                     *)
LEMMA TotalMonotone ==
  ASSUME NEW few, Counts(few), NEW many, Counts(many), NEW part, NEW whole,
         \A x \in part \cap DOMAIN few : x \in whole \cap DOMAIN many /\ few[x] <= many[x]
  PROVE  Total(few, part) <= Total(many, whole)
<1> DEFINE F == part \cap DOMAIN few
           M == whole \cap DOMAIN many
           A == {n \in Nat : \A s \in SUBSET M : Cardinality(s) = n =>
                    SumFunctionOnSet(few, s \cap F) <= SumFunctionOnSet(many, s)}
<1>1. /\ IsFiniteSet(M) /\ \A x \in M : many[x] \in Nat
      /\ IsFiniteSet(F) /\ \A x \in F : few[x] \in Nat
  BY FS_Subset DEF Counts
<1>2. F \subseteq M /\ \A x \in F : few[x] <= many[x]
  OBVIOUS
<1>3. Total(few, part) = SumFunctionOnSet(few, F) /\ Total(many, whole) = SumFunctionOnSet(many, M)
  BY DEF Total
<1> HIDE DEF F, M
<1>4. \A s \in SUBSET M : /\ IsFiniteSet(s) /\ Cardinality(s) \in Nat
                          /\ IsFiniteSet(s \cap F)
  BY <1>1, FS_Subset, FS_CardinalityType
<1>5. \A f, s : IsFiniteSet(s) /\ (\A x \in s : f[x] \in Nat) =>
        /\ SumFunctionOnSet(f, s) \in Nat
        /\ s = {} => SumFunctionOnSet(f, s) = 0
        /\ \A x \in s : SumFunctionOnSet(f, s) = f[x] + SumFunctionOnSet(f, s \ {x})
  BY SumFacts
<1>6. 0 \in A
  <2> SUFFICES ASSUME NEW s \in SUBSET M, Cardinality(s) = 0
               PROVE  SumFunctionOnSet(few, s \cap F) <= SumFunctionOnSet(many, s)
    OBVIOUS
  <2>1. s = {}
    BY <1>4, FS_EmptySet
  <2>2. IsFiniteSet({})
    BY FS_EmptySet
  <2>3. SumFunctionOnSet(few, {}) = 0 /\ SumFunctionOnSet(many, {}) = 0
    BY <1>5, <2>2
  <2>4. s \cap F = {}
    BY <2>1
  <2> QED BY <2>1, <2>3, <2>4
<1>7. ASSUME NEW n \in Nat, n \in A PROVE n + 1 \in A
  <2> SUFFICES ASSUME NEW s \in SUBSET M, Cardinality(s) = n + 1
               PROVE  SumFunctionOnSet(few, s \cap F) <= SumFunctionOnSet(many, s)
    OBVIOUS
  <2>1. PICK x \in s : TRUE
    BY FS_EmptySet
  <2> DEFINE rest == s \ {x}
  <2>2. Cardinality(rest) = n /\ rest \in SUBSET M
    <3>1. IsFiniteSet(s)
      BY <1>4
    <3>2. Cardinality(rest) = Cardinality(s) - 1
      BY <2>1, <3>1, FS_RemoveElement
    <3> QED BY <3>2
  <2>3. PICK small \in Nat, big \in Nat :
          /\ small = SumFunctionOnSet(few, rest \cap F) /\ big = SumFunctionOnSet(many, rest)
          /\ small <= big
    <3>1. /\ IsFiniteSet(rest) /\ IsFiniteSet(rest \cap F)
          /\ \A y \in rest : many[y] \in Nat
          /\ \A y \in rest \cap F : few[y] \in Nat
      BY <1>1, <1>4, <2>2
    <3>2. SumFunctionOnSet(few, rest \cap F) \in Nat /\ SumFunctionOnSet(many, rest) \in Nat
      BY <1>5, <3>1
    <3>3. SumFunctionOnSet(few, rest \cap F) <= SumFunctionOnSet(many, rest)
      BY <1>7, <2>2
    <3> QED BY <3>2, <3>3
  <2>4. PICK one \in Nat : one = many[x] /\ SumFunctionOnSet(many, s) = one + big
    <3>1. IsFiniteSet(s) /\ \A y \in s : many[y] \in Nat
      BY <1>1, <1>4
    <3>2. SumFunctionOnSet(many, s) = many[x] + SumFunctionOnSet(many, rest)
      BY <1>5, <2>1, <3>1
    <3> QED BY <2>1, <2>3, <3>1, <3>2
  <2> HIDE DEF rest
  <2>5. CASE x \in F
    <3>1. (s \cap F) \ {x} = rest \cap F /\ x \in s \cap F
      BY <2>1, <2>5 DEF rest
    <3>2. IsFiniteSet(s \cap F) /\ \A y \in s \cap F : few[y] \in Nat
      BY <1>1, <1>4
    <3>3. SumFunctionOnSet(few, s \cap F) = few[x] + SumFunctionOnSet(few, (s \cap F) \ {x})
      BY <1>5, <3>1, <3>2
    <3>4. PICK own \in Nat : own = few[x] /\ own <= one
      BY <1>1, <1>2, <2>4, <2>5
    <3>5. SumFunctionOnSet(few, s \cap F) = own + small
      BY <2>3, <3>1, <3>3, <3>4
    <3>6. own + small <= one + big
      BY <2>3, <3>4
    <3> QED BY <2>4, <3>5, <3>6
  <2>6. CASE x \notin F
    <3>1. s \cap F = rest \cap F
      BY <2>6 DEF rest
    <3>2. small <= one + big
      BY <2>3
    <3> QED BY <2>3, <2>4, <3>1, <3>2
  <2> QED BY <2>5, <2>6
<1> HIDE DEF A
<1>8. \A n \in Nat : n \in A
  BY <1>6, <1>7, NaturalsBySteps
<1>9. SumFunctionOnSet(few, M \cap F) <= SumFunctionOnSet(many, M)
  BY <1>4, <1>8 DEF A
<1>10. M \cap F = F
  BY <1>2
<1> QED BY <1>3, <1>9, <1>10

(* When every device was expected, what is off the diagonal is what was not *)
(* correct.                                                                 *)
AllExpected(t) == \A i \in 1..Len(t.mismatches) : t.mismatches[i].expected # "MISSING"

LEMMA OffDiagonalIsWrong ==
  ASSUME NEW t, Balanced(t), AllExpected(t)
  PROVE  /\ OffDiagonal(t) \in Nat /\ t.correct \in Nat /\ t.seen \in Nat
         /\ OffDiagonal(t) + t.correct = t.seen
<1>1. Missing(t.mismatches) = {}
  BY DEF AllExpected, Missing
<1>2. Cardinality(Missing(t.mismatches)) = 0
  BY <1>1, FS_EmptySet
<1>3. OffDiagonal(t) = Total(t.matrix, Aside(t.matrix)) /\ OffDiagonal(t) \in Nat
  BY TotalFacts DEF OffDiagonal, Aside, Balanced
<1>4. /\ Total(t.matrix, Aside(t.matrix)) + Cardinality(Missing(t.mismatches)) = Len(t.mismatches)
      /\ t.correct + Len(t.mismatches) = t.seen /\ t.correct \in Nat /\ t.seen \in Nat
      /\ Listed(t.mismatches)
  BY DEF Balanced
<1>5. Len(t.mismatches) \in Nat
  BY <1>4, MismatchListed
<1> QED BY <1>2, <1>3, <1>4, <1>5

LEMMA Larger ==
  ASSUME NEW x \in Nat, NEW y \in Nat, x > y, NEW n \in Nat, n > 0
  PROVE  x * n - y * n > 0 /\ y * n - x * n < 0
<1>1. PICK d \in Nat : x = y + d /\ d > 0
  <2>1. x - y \in Nat /\ x = y + (x - y) /\ x - y > 0
    OBVIOUS
  <2> QED BY <2>1
<1>2. x * n = y * n + d * n
  BY <1>1
<1>3. d * n > 0 /\ d * n \in Nat /\ y * n \in Nat
  BY <1>1
<1> QED BY <1>2, <1>3

(* Over as many devices the sign of the difference in accuracy is the sign of *)
(* the difference off the diagonal.                                           *)
LEMMA SameDirection ==
  ASSUME NEW b, Balanced(b), AllExpected(b), NEW c, Balanced(c), AllExpected(c),
         b.seen = c.seen
  PROVE  AccuracyStatus(b, c) = Sign(OffDiagonal(b) - OffDiagonal(c))
<1>1. PICK n \in Nat, x \in Nat, y \in Nat, ob \in Nat, oc \in Nat :
        /\ n = b.seen /\ n = c.seen /\ x = c.correct /\ y = b.correct
        /\ ob = OffDiagonal(b) /\ oc = OffDiagonal(c)
        /\ ob + y = n /\ oc + x = n
  BY OffDiagonalIsWrong
<1>2. AccuracyStatus(b, c) = Sign(IF n = 0 THEN x ELSE x * n - y * n)
  BY <1>1 DEF AccuracyStatus
<1>3. ob - oc = x - y
  BY <1>1
<1>4. Sign(x - y) = Sign(IF n = 0 THEN x ELSE x * n - y * n)
  <2>1. CASE n = 0
    BY <1>1, <2>1
  <2>2. CASE n > 0 /\ x > y
    BY <2>2, Larger DEF Sign
  <2>3. CASE n > 0 /\ x < y
    <3>1. x * n - y * n < 0
      BY <2>3, Larger
    <3>2. ~(x * n - y * n > 0) /\ x - y < 0 /\ ~(x - y > 0)
      BY <2>3, <3>1
    <3> QED BY <2>3, <3>1, <3>2 DEF Sign
  <2>4. CASE n > 0 /\ x = y
    <3>1. x * n - y * n = 0 /\ x - y = 0
      BY <2>4
    <3> QED BY <2>4, <3>1
  <2> QED BY <2>1, <2>2, <2>3, <2>4
<1> QED BY <1>1, <1>2, <1>3, <1>4

(* The cells that changed, and those that got better, are as CompareReports  *)
(* counts them.                                                              *)
Changed(b, c) == {x \in Cells(b) \cup Cells(c) : Copies(x, c.matrix) # Copies(x, b.matrix)}
Gained(b, c)  == {x \in Changed(b, c) : Better(x, b, c)}

LEMMA Result ==
  ASSUME NEW b, NEW c
  PROVE  LET r == CompareReports(b, c)
         IN  /\ r.status = AccuracyStatus(b, c)
             /\ r.offDiagonal = Sign(OffDiagonal(b) - OffDiagonal(c))
             /\ r.changed = Cardinality(Changed(b, c))
             /\ r.improved = Cardinality(Gained(b, c))
             /\ r.regressed = Cardinality(Changed(b, c) \ Gained(b, c))
BY DEF CompareReports, Changed, Gained

(* Only cells that one of the reports counts can change: finitely many.      *)
LEMMA FinitelyChanged ==
  ASSUME NEW b, Balanced(b), NEW c, Balanced(c)
  PROVE  IsFiniteSet(Changed(b, c))
<1>1. Changed(b, c) \subseteq DOMAIN b.matrix \cup DOMAIN c.matrix
  BY DEF Changed, Copies
<1>2. IsFiniteSet(DOMAIN b.matrix) /\ IsFiniteSet(DOMAIN c.matrix)
  BY DEF Balanced, Counts
<1>3. IsFiniteSet(DOMAIN b.matrix \cup DOMAIN c.matrix)
  BY <1>2, FS_Union
<1> QED BY <1>1, <1>3, FS_Subset

LEMMA Split ==
  ASSUME NEW whole, IsFiniteSet(whole), NEW part, part \subseteq whole
  PROVE  /\ Cardinality(part) + Cardinality(whole \ part) = Cardinality(whole)
         /\ Cardinality(part) \in Nat /\ Cardinality(whole \ part) \in Nat
         /\ part # {} => Cardinality(part) > 0
         /\ whole \ part # {} => Cardinality(whole \ part) > 0
<1>1. IsFiniteSet(part) /\ IsFiniteSet(whole \ part)
  BY FS_Subset
<1>2. part \cup (whole \ part) = whole /\ part \cap (whole \ part) = {}
  OBVIOUS
<1>3. /\ Cardinality(part) \in Nat /\ Cardinality(whole \ part) \in Nat
      /\ (Cardinality(part) = 0 <=> part = {})
      /\ (Cardinality(whole \ part) = 0 <=> whole \ part = {})
  BY <1>1, FS_CardinalityType, FS_EmptySet
<1>4. Cardinality(whole) = Cardinality(part) + Cardinality(whole \ part)
  <2>1. Cardinality(part \cup (whole \ part))
          = Cardinality(part) + Cardinality(whole \ part) - Cardinality(part \cap (whole \ part))
    BY <1>1, FS_Union
  <2>2. Cardinality(part \cap (whole \ part)) = 0
    BY <1>2, FS_EmptySet
  <2>3. Cardinality(part \cup (whole \ part)) = Cardinality(whole)
    BY <1>2
  <2> QED BY <1>3, <2>1, <2>2, <2>3
<1>5. \A n \in Nat : n # 0 => n > 0
  OBVIOUS
<1> QED BY <1>3, <1>4, <1>5

(* Every cell that is counted off the diagonal is one of the cells.          *)
LEMMA CellCounted ==
  ASSUME NEW t, Balanced(t), NEW x \in Aside(t.matrix)
  PROVE  x \in Cells(t) /\ x \in DOMAIN t.matrix /\ x[1] # x[2] /\ t.matrix[x] \in Nat \ {0}
<1>1. x \in DOMAIN t.matrix /\ x[1] # x[2]
  BY DEF Aside
<1>2. x = <<x[1], x[2]>>
  BY <1>1 DEF Balanced
<1>3. x[1] \in Rows(t) /\ x[2] \in {c[2] : c \in DOMAIN t.matrix}
  BY <1>1 DEF Rows
<1>4. x \in Cells(t)
  BY <1>2, <1>3 DEF Cells
<1>5. t.matrix[x] \in Nat \ {0}
  BY <1>1 DEF Balanced, Counts
<1> QED BY <1>1, <1>4, <1>5

(* Fewer confusions show in a cell that got better.                          *)
LEMMA GainShows ==
  ASSUME NEW b, Balanced(b), NEW c, Balanced(c), OffDiagonal(b) > OffDiagonal(c)
  PROVE  Gained(b, c) # {}
<1> SUFFICES ASSUME Gained(b, c) = {} PROVE FALSE
  OBVIOUS
<1>1. ASSUME NEW x \in Aside(b.matrix) \cap DOMAIN b.matrix
      PROVE  x \in Aside(c.matrix) \cap DOMAIN c.matrix /\ b.matrix[x] <= c.matrix[x]
  <2>1. /\ x \in Cells(b) /\ x \in DOMAIN b.matrix /\ x[1] # x[2]
        /\ b.matrix[x] \in Nat \ {0}
    BY CellCounted
  <2>2. Copies(x, c.matrix) \in Nat
    BY OneMoreShape DEF Balanced
  <2>3. Copies(x, b.matrix) = b.matrix[x]
    BY <2>1 DEF Copies
  <2>4. ~(Copies(x, c.matrix) < Copies(x, b.matrix))
    BY <2>1, <2>2, <2>3 DEF Gained, Changed, Better
  <2>5. x \in DOMAIN c.matrix
    BY <2>1, <2>3, <2>4 DEF Copies
  <2>6. Copies(x, c.matrix) = c.matrix[x]
    BY <2>5 DEF Copies
  <2> QED BY <2>1, <2>2, <2>3, <2>4, <2>5, <2>6 DEF Aside
<1>2. Counts(b.matrix) /\ Counts(c.matrix)
  BY DEF Balanced
<1>3. Total(b.matrix, Aside(b.matrix)) <= Total(c.matrix, Aside(c.matrix))
  BY <1>1, <1>2, TotalMonotone
<1>4. /\ OffDiagonal(b) = Total(b.matrix, Aside(b.matrix)) /\ OffDiagonal(b) \in Nat
      /\ OffDiagonal(c) = Total(c.matrix, Aside(c.matrix)) /\ OffDiagonal(c) \in Nat
  BY <1>2, TotalFacts DEF OffDiagonal, Aside
<1> QED BY <1>3, <1>4

(* More confusions show in a cell that changed and did not get better.       *)
LEMMA LossShows ==
  ASSUME NEW b, Balanced(b), NEW c, Balanced(c), OffDiagonal(b) < OffDiagonal(c)
  PROVE  Changed(b, c) \ Gained(b, c) # {}
<1> SUFFICES ASSUME Changed(b, c) \ Gained(b, c) = {} PROVE FALSE
  OBVIOUS
<1>1. ASSUME NEW x \in Aside(c.matrix) \cap DOMAIN c.matrix
      PROVE  x \in Aside(b.matrix) \cap DOMAIN b.matrix /\ c.matrix[x] <= b.matrix[x]
  <2>1. /\ x \in Cells(c) /\ x \in DOMAIN c.matrix /\ x[1] # x[2]
        /\ c.matrix[x] \in Nat \ {0}
    BY CellCounted
  <2>2. Copies(x, b.matrix) \in Nat
    BY OneMoreShape DEF Balanced
  <2>3. \/ Copies(x, c.matrix) = Copies(x, b.matrix)
        \/ Copies(x, c.matrix) < Copies(x, b.matrix)
    BY <2>1 DEF Gained, Changed, Better
  <2>4. Copies(x, c.matrix) = c.matrix[x]
    BY <2>1 DEF Copies
  <2>5. x \in DOMAIN b.matrix
    BY <2>1, <2>3, <2>4 DEF Copies
  <2>6. Copies(x, b.matrix) = b.matrix[x]
    BY <2>5 DEF Copies
  <2> QED BY <2>1, <2>2, <2>3, <2>4, <2>5, <2>6 DEF Aside
<1>2. Counts(b.matrix) /\ Counts(c.matrix)
  BY DEF Balanced
<1>3. Total(c.matrix, Aside(c.matrix)) <= Total(b.matrix, Aside(b.matrix))
  BY <1>1, <1>2, TotalMonotone
<1>4. /\ OffDiagonal(b) = Total(b.matrix, Aside(b.matrix)) /\ OffDiagonal(b) \in Nat
      /\ OffDiagonal(c) = Total(c.matrix, Aside(c.matrix)) /\ OffDiagonal(c) \in Nat
  BY <1>2, TotalFacts DEF OffDiagonal, Aside
<1> QED BY <1>3, <1>4

(* What a comparison of two tallies says.                                    *)
OneStory(b, c, r) ==
  /\ r.improved + r.regressed = r.changed
  /\ b.seen = c.seen /\ AllExpected(b) /\ AllExpected(c) =>
       /\ r.status = r.offDiagonal
       /\ r.status = "IMPROVED" => r.improved > 0
       /\ r.status = "REGRESSED" => r.regressed > 0

LEMMA BalancedTellOneStory ==
  ASSUME NEW b, Balanced(b), NEW c, Balanced(c)
  PROVE  OneStory(b, c, CompareReports(b, c))
<1> DEFINE r == CompareReports(b, c)
           before == OffDiagonal(b)
           after  == OffDiagonal(c)
<1>1. /\ r.status = AccuracyStatus(b, c)
      /\ r.offDiagonal = Sign(before - after)
      /\ r.changed = Cardinality(Changed(b, c))
      /\ r.improved = Cardinality(Gained(b, c))
      /\ r.regressed = Cardinality(Changed(b, c) \ Gained(b, c))
  BY Result
<1>2. before \in Nat /\ after \in Nat
  BY TotalFacts DEF OffDiagonal, Balanced
<1> HIDE DEF r, before, after
<1>3. Gained(b, c) \subseteq Changed(b, c) /\ IsFiniteSet(Changed(b, c))
  BY FinitelyChanged DEF Gained
<1>4. /\ Cardinality(Gained(b, c)) + Cardinality(Changed(b, c) \ Gained(b, c))
           = Cardinality(Changed(b, c))
      /\ Gained(b, c) # {} => Cardinality(Gained(b, c)) > 0
      /\ Changed(b, c) \ Gained(b, c) # {} => Cardinality(Changed(b, c) \ Gained(b, c)) > 0
  BY <1>3, Split
<1>5. r.improved + r.regressed = r.changed
  BY <1>1, <1>4
<1>6. ASSUME b.seen = c.seen, AllExpected(b), AllExpected(c)
      PROVE  /\ r.status = r.offDiagonal
             /\ r.status = "IMPROVED" => r.improved > 0
             /\ r.status = "REGRESSED" => r.regressed > 0
  <2>1. r.status = Sign(before - after) /\ r.status = r.offDiagonal
    BY <1>1, <1>6, SameDirection DEF before, after
  <2>2. r.status = "IMPROVED" => before > after
    BY <1>2, <2>1 DEF Sign
  <2>3. r.status = "REGRESSED" => before < after
    BY <1>2, <2>1 DEF Sign
  <2>4. before > after => Gained(b, c) # {}
    BY GainShows DEF before, after
  <2>5. before < after => Changed(b, c) \ Gained(b, c) # {}
    BY LossShows DEF before, after
  <2> QED BY <1>1, <1>4, <2>1, <2>2, <2>3, <2>4, <2>5
<1> QED BY <1>5, <1>6 DEF OneStory, r

(* A comparison is kept with the reports it was made from, and those were    *)
(* balanced when it was made.                                                *)
Compared ==
  comparison # None =>
    /\ Balanced(comparison.baseline.tally) /\ Balanced(comparison.candidate.tally)
    /\ comparison.result = CompareReports(comparison.baseline.tally, comparison.candidate.tally)

LEMMA ComparedStep == ASSUME AllBalanced, Compared, [Next]_vars PROVE Compared'
<1>1. CASE comparison' = comparison
  BY <1>1 DEF Compared
<1>2. CASE comparison' = None
  BY <1>2 DEF Compared
<1>3. ASSUME NEW pair, Compares(pair) PROVE Compared'
  <2>1. CASE Readable(pair[1]) /\ Readable(pair[2])
    <3>1. comparison' = [baseline |-> reports[pair[1]], candidate |-> reports[pair[2]],
                         result |-> CompareReports(reports[pair[1]].tally, reports[pair[2]].tally)]
      BY <1>3, <2>1 DEF Compares
    <3>2. Balanced(reports[pair[1]].tally) /\ Balanced(reports[pair[2]].tally)
      BY <2>1 DEF Readable, AllBalanced
    <3>3. /\ comparison'.baseline = reports[pair[1]] /\ comparison'.candidate = reports[pair[2]]
          /\ comparison'.result = CompareReports(reports[pair[1]].tally, reports[pair[2]].tally)
      BY <3>1
    <3> QED BY <3>2, <3>3 DEF Compared
  <2>2. CASE ~(Readable(pair[1]) /\ Readable(pair[2]))
    BY <1>2, <1>3, <2>2 DEF Compares
  <2> QED BY <2>1, <2>2
<1>4. CASE Compare
  BY <1>2, <1>3, <1>4 DEF Compare
<1>5. ASSUME NEW out, NEW names, NEW tests, Begins(out, names, tests) PROVE Compared'
  BY <1>2, <1>5 DEF Begins
<1>6. CASE (\E d \in Names : EditDataset(d)) \/ Works \/ Dies \/ UNCHANGED vars
  BY <1>1, <1>6 DEF EditDataset, Works, Finish, LoadFails, Load, ClassifyDevice, OpenReport,
                    WriteReport, Dies, vars
<1> QED BY <1>4, <1>5, <1>6 DEF Next, BeginBenchmark, BeginValidate

(* A comparison of any two reports on as many devices, all of them expected, *)
(* tells one story, whatever the datasets, their devices and the classifier's *)
(* verdicts (compare_reports).                                               *)
THEOREM ComparisonsTellOneStory == Spec => []ComparisonTellsOneStory
<1>1. Init => AllBalanced /\ Compared
  BY AllBalancedInit DEF Init, Compared
<1>2. AllBalanced /\ Compared /\ [Next]_vars => (AllBalanced /\ Compared)'
  BY AllBalancedStep, ComparedStep
<1>3. AllBalanced /\ Compared => ComparisonTellsOneStory
  <2> SUFFICES ASSUME Compared, comparison # None PROVE ComparisonTellsOneStory
    BY DEF ComparisonTellsOneStory
  <2> DEFINE b == comparison.baseline.tally
             c == comparison.candidate.tally
             r == comparison.result
  <2>1. Balanced(b) /\ Balanced(c) /\ r = CompareReports(b, c)
    BY DEF Compared
  <2>2. OneStory(b, c, r)
    BY <2>1, BalancedTellOneStory
  <2> QED BY <2>2 DEF OneStory, AllExpected, ComparisonTellsOneStory
<1> QED BY <1>1, <1>2, <1>3, PTL DEF Spec
=============================================================================
