# NetworkMapper in TLA+

Formal models of [NetworkMapper](../src/README.md), a command line program that
scans subnets with Nmap, enriches what it found over SNMP, classifies the
devices, resolves the retained observations into canonical identities and
relationships, and writes reports. The models are translated from the code
under `src/`; documents and tests are read as the statement of what the code is
meant to do. TLC checks them on small networks, TLAPS proves theorems for every
network.

## 1. The system

`Application.run()` is one thread. It builds the providers, calls
`DiscoveryEngine.discover()`, prints, resolves identities and relationships,
exports four artifacts into a directory of the run, and saves and reloads the
project file. What makes it hard is not concurrency inside the process but what
the process cannot control: what each host answers and when it stops answering,
where a provider raises, when the process dies, and other runs and people that
share its files.

| Part | State | Operations | What can go wrong |
|---|---|---|---|
| Discovery engine (`discovery_engine.py`) | `devices_by_ip`, `observations`, graph | three phases: discovery providers, enrichment providers in a catch-all, classification | a provider fails half-way; evidence of a failed provider leaks; a device is judged on partial evidence; one defect aborts the run |
| Nmap provider (`nmap_provider.py`) | devices of one subnet, observations, run diagnostics | single-pass (FAST), two-phase (STANDARD, DEEP) scan; SMB/RDP evidence | the same address in two subnets; fields that compete; hosts that vanish between phases |
| SNMP providers (`snmp_`, `arp_neighbor_`, `lldp_neighbor_`, `bridge_fdb_provider.py`) | observations of the pass, snapshot received, diagnostics | one query per host; merge (system group); MAC index lookups (LLDP, bridge table) | evidence that creates its own endpoints; a MAC address that becomes ambiguous after it was used; reports that overwrite each other |
| SNMP client (`snmp_client.py`) | none | GET, column walks with row limits | columns walked one after another over a table that changes; truncation; partial failures |
| Observations and resolvers (`observations/`, `identity/`, `relationships/`) | immutable records | pure resolution: weak, probable, confirmed, conflicting | repeated claims counted as corroboration; conflicts hidden |
| Report run (`reporting/report_run.py`, `application.py`, exporters, `project/serializer.py`) | run directory, four artifacts, one project file | create directory, export, save, load back, compare counts | dying between exporters; two runs in one directory; a torn project file |
| Field knowledge (`knowledge/`) | one JSON file per observation | capture, load, save; review by hand | numbers reused; a file overwritten; a review lost; a file truncated by a process that dies |
| Runtime events (`runtime/`) | subscribers, phase start times, run start and end | publish, telemetry, rendering | a subscriber that raises; passes that share a phase; a start whose completion never comes |
| Classification (`classification/`) | none | first rule that matches, in fourteen | a rule shadowed by an earlier one |
| Startup (`application.py`, `local_subnet.py`) | arguments, environment | profile, networks, detection of the local network, credentials, exit codes | a guess is scanned instead of what was asked; a failing platform tool aborts instead of degrading |
| Replay (`observations/replay_format.py`, `devtools/replay_observations.py`) | the files of a run directory | read the observations back, resolve again, compare with `relationships.csv` | a result that depends on the order of collection; directories of runs that died |
| Benchmarks (`developer/`, `devtools/`) | datasets, report files | `benchmark`, `validate --all`, `compare` | counts that do not add up; one report overwritten by another; a broken dataset |
| Presentation, Markdown and CSV exporters, comparison of projects, workbench, diagnostics report | none | layout of text | |

Interactions: the engine calls providers and hands each enrichment provider the
device list (shared, mutated in place by the system-group provider only) and an
immutable snapshot of the observations; the LLDP and bridge providers resolve
MAC addresses through the index built from that snapshot; providers publish
events to a synchronous bus, so a subscriber's exception is raised inside the
provider; the resolvers read the final observations; the exporters read the
project; the project file is shared by all runs; the knowledge directory is
shared by all processes and the people who review it. Outside the program the
replay command reads run directories at any moment, and the benchmark commands
share datasets and report files with the developers who edit them.

`PROJECT.json` lists every component with what is and is not modelled, every
hazard at its line with the properties that would catch it, and the source
lines of every definition.

## 2. The modules

### Evidence, Resolution, EnrichmentProviders (data)

`Evidence` has the observation records, their provenance and the MAC index
(`MacSubjects`, `Resolves`). An observation's `run` stands for the uuid of the
provider call. `via` is a history field: the MAC address through which a
provider found the related subject. Timestamps are left out: the program only
sorts by them.

`Resolution` is `IdentityResolver.resolve` and `RelationshipResolver.resolve`
as set operators. The list of retained observations is a set here: both
resolvers use an observation's values and `(provider, collection_method)` only,
so neither order nor repetition can be seen in a state they compute.

`EnrichmentProviders` says what one host's answer adds: the fallback-only merge,
the endpoint-bootstrapping gates of ARP and LLDP, the priority order of LLDP
resolution, the qualifying rows of the bridge table. A host that does not
answer and a client that raises are the same case, as in `_query_host`. A system
group that came back empty counts as no answer.

### DiscoveryEngine (the core)

The state is the engine's (`stage`, `turn`, `devices`, `observations`, `graph`,
`diagnostics`) and that of the running enrichment provider (`received`,
`pending`, `todo`, `responded`, `silent`). The actions:

| Action | Code |
|---|---|
| `Discover` | one turn of the loop over discovery providers: `provider.discover()`, `collect_observations()`, `setdefault` |
| `DiscoverRaises`, `ClassifyRaises` | nothing catches these: the run aborts |
| `BeginEnrich` | `receive_observations(snapshot)` and the start of `enrich()`: the MAC index, the set of discovered addresses |
| `HostAnswers(ip)`, `HostSilent(ip)` | one turn of a provider's loop over devices |
| `EnrichCompletes` | end of `enrich()` (diagnostics) and collection of its observations |
| `EnrichRaises` | an exception at any point of the pass, swallowed by the engine: merged facts stay on the devices, observations are lost |
| `Classify(ip)`, `ClassifyEnds` | `_classify_devices` |

A pass has one step per host so that it can fail between any two of them. The
code visits hosts in the order they were found; the model visits them in any
order. A verdict is a function of the facts on a device, so `graph` keeps the
facts the verdict was drawn from. Ctrl-C and process death are not exceptions
the engine catches; they end the run and are not modelled here (nothing is on
disk yet; `ReportRun` models them where they matter).

### NmapProvider, HostScan and ScanContract (one discovery call)

`NmapProvider` is one call of `discover()` under a profile. Its steps are the
two scans, because the network can change between them: `HostDiscovery` builds
the devices and their observations and ends the call for FAST or an empty
subnet; `ServiceEnrichment` is the second scan with the loop over the devices
(a host the scan does not mention is read as an empty result), the merge of SMB
and RDP per field, the observations retained of each source, and the
diagnostics of every host; `ScanRaises` is a scan that fails or a subscriber
that raises. `result` keeps what the second scan said, for the properties.
A port keeps what `diagnose_host` looks at: number, state, service name,
scripts with output. Versions, titles and certificates are data nobody decides
on.

`HostScan` is what host discovery says of a live host and what is retained of
it, shared with the engine. `ScanContract` is the abstract call: devices of the
subnet with exactly their host-discovery observations, all at once, or nothing.
The engine's `Discover` is this step over the fields the engine looks at (it
never looks at `computer_name` and `domain`, the `details` of the contract).

### SnmpWalk (one table query)

One call of `get_arp_table`, `get_lldp_neighbors` or `get_bridge_fdb`. A column
is walked row after row (`NextRow` is one GETNEXT response), column after column
(`ColumnEnds`), and the columns are joined by row when the last one is done.
Between any two responses the device may change its table (`TableChanges`);
`past` remembers every content it has had. A required column that fails ends the
query, a best-effort one is empty (`WalkFails`); whatever is raised is caught
around the query (`Raises`). `Unparsed` and `Blank` are the indices and values
that parsing and conversion turn to nothing; `LldpDetails` is the list of
best-effort LLDP columns, seven in the code and one in the checked instance.
The engine takes what a query returns as one answer, torn rows included.

### EvidenceLog and DiscoveryLog (what discovery promises)

`EvidenceLog` is the abstract specification: addresses and evidence are learnt
while the log is open; once it is closed the set of addresses is final, each
contributor adds its evidence in one batch or not at all, at most once, and no
batch identifies an unknown address. `DiscoveryLog` is the refinement mapping
from the engine; `ImplementsEvidenceLog` is checked by TLC.

### ReportRun

Several runs on one output directory: `BeginReport` names and creates the run
directory (`exist_ok=True`) by second and profile, `OpenArtifact` and
`WriteArtifact` are the two halves of an exporter's `open`/`write`,
`OpenProject`, `DumpProject` and `Load` those of the project file with the
comparison of device counts, `Dies` ends a run anywhere (a kill, or an
exporter that raises: nothing catches that). Files opened by two
writers may end up mixed. `serial`, chosen at the start, says whether runs take
turns, and `DistinctSeconds` whether the clock keeps them apart: the
circumstances under which a property is promised.

### ObservationReplay and ReplayedRuns

`ObservationReplay` is pure: what a sort returns (`Arranged`, a finite set in an
order that is a set of pairs; `Sorted`, Python's stable `sorted()`), the keys by
which observations, edges and the evidence of an edge are sorted, the rows the exporter writes (through the
grouping of `CanonicalPresentation`), the rows the replay computes, what a
table that was cut off may still be read as, and the verdict of
`run_replay_command`. Here observations are sequences, with their duplicates and
in the order of collection, because order is what the replay must not depend on;
the set operators of `Resolution` are reused for the states. `ReplayedRuns`
composes it with `ReportRun`: `Replayed(r)` is what a replay of the directory of
`r` may come to in a state, whatever `r` observed. The replay changes nothing, so
it is an operator on states and not an action. A JSON text without its end does
not parse; a table cut off may parse as a shorter one.

### ApplicationRun

`Application.run()` from the command line to the exit code. `ReadValue` and
`ValuesRead` are `_parse_subnets`; `Detect` is `detect_local_subnet`, where
`Machine` says what the platform answered, chosen when it is asked;
`MakeScanners` and `ResolveCredentials` come next, in the order of the code. The
passes of the run follow as one queue of owners, each with the phase it
publishes: `Begin` and `Complete` are the two events of a pass, `RecordStart` and
`RecordCompletion` what the telemetry does with them. The console is subscribed
first and `publish` calls subscribers in turn, so an event it cannot print never
reaches the telemetry: that, and anything else that raises, is `Fails`, which the
engine survives only inside an enrichment provider. `Tick` lets time pass between
any two events. `passes` is a history of what really began and ended, against
which the telemetry is judged. What happens inside a pass is `DiscoveryEngine`,
`NmapProvider`, `SnmpWalk` and `ReportRun`.

### DeviceClassifier and Benchmark

`DeviceClassifier` has the fourteen rules and the first match over classes of
keywords: a rule looks for lists of keywords in free text, so a text is the set
of the lists it has a keyword of. `KeepsPrecedence` collects what the comments of
the classifier promise of the order. `Benchmark` is the three commands that judge
the classifier. `Load`, `ClassifyDevice`, `OpenReport`, `WriteReport` are one
dataset; `LoadFails` its failures; `BeginValidate` queues all datasets there
are; `Compare` reads two reports, by name or by default; between commands a
developer edits a dataset; a command may die at any step and leave a torn
report. The report is its counts.

### ObservationRepository

Processes that capture (choose a number from a directory listing, then save)
and people who review (load, edit, save) or delete files. Saving is
`path.write_text`, two steps: `Open` creates the file or empties it, `Write`
completes it. A process may die before, between and after them (`Dies`), and then
the file stays empty or holds a part of the text; `load` of such a file raises
(`LoadRaises`), yet its number is listed like any other. A file deleted while it is
open takes the text with it (`WriteRemoved`). Two writers of one file may leave a
mixture (`Written`). `recorded` is history: what finished saves put on record.
`MaxNumber` is the largest number the file name pattern `\d{6}` reads: 999999 in
the code, small in the model.

## 3. The runs

| Run | What it shows |
|---|---|
| `overlap` | Two overlapping scans that may disagree about one address, then system group and ARP, with a single-valued relationship policy: facts on a device are never overwritten or forgotten, rescanning never looks like corroboration, a conflict is never hidden by later evidence, classification sees the final facts. |
| `neighbours` | The table walkers in the shipped order over shared, moved and unknown MAC addresses and rows that name an address nobody scanned, with faults anywhere: no evidence manufactures an endpoint, resolved edges stay right, a failed pass leaves nothing, diagnostics account for every host, enrichment cannot keep the run from classification, and the engine implements `EvidenceLog`. |
| `nmap_scan` | Every profile over two hosts, each of which may be gone at the second scan, answer with another name, or give SMB and RDP evidence that agrees, disagrees or is partial: no host is lost or renamed, every fact has its evidence and every conflict its mark, the diagnostics account for every host, and the call implements `ScanContract`. |
| `snmp_walk` | The three table queries over tables that change between any two requests: an entry only has values its own row had during the query, a row that stays is reported exactly, a failed best-effort column is missing for every row or for none, row limits hold, and a query ends even if the device never rests. |
| `reports` | Three runs in distinct seconds, in turns or all at once, each of which may die anywhere: observations are whole before any other artifact exists, no artifact of another run is touched, a finished run leaves all its artifacts, reporting ends; in turns, validation reads the run's own project. At every moment a replay of any directory is judged too: it matches from the moment the relationships are on disk, for observations in any order, and a mismatch only ever means a table that was cut off. |
| `repository` | Captures, reviews and deletions of older files by one process at a time, each of which may die at any step: numbers are not reused, not even that of a file a capture left unreadable; a file that can be read has its own device's evidence and every review a finished save recorded. It does not say that a file can be read: one whose writer died cannot (section 5). |
| `application` | Command lines with and without networks, repeated, malformed and in two notations, with and without credentials, every answer of the platform, and failures anywhere: only what was asked for is scanned, once, or the detected network and never a guess; each record of the telemetry is one pass although passes share phases and some never complete; the records fit the total. |
| `benchmark` | Two datasets that developers edit or break, benchmarks into two directories, validation of all, comparisons, deaths anywhere: counts account for every device in every report that is whole, verdicts keep the promised precedence, accuracy and confusion matrix tell one story. |

The remaining runs each show one disagreement between a statement of the
repository and its code:

| Run | Disagreement |
|---|---|
| `swapped_order` | The contract of enrichment providers says order may reduce coverage, never correctness. With the bridge table walked before ARP, an edge stays that later evidence makes ambiguous. The application's own order is safe (`neighbours`). |
| `reports_same_second` | Run directories are documented as unique; two runs in one second share one and the second truncates the first's files. |
| `repository_removal` | "Never reused even after a file is removed": removing the newest file frees its number. |
| `replay_raises` | The replay command documents that it never raises. A `relationships.csv` cut off inside a character of a hostname raises `UnicodeDecodeError` past its handlers. |

**Bounds.** Three addresses, one of them never scanned, are enough for a
subject, a related subject and a stranger; two MAC addresses and two names give
every pattern of agreement, conflict and ambiguity the definitions tell apart
(they compare for equality only). The answer sets of `MCDiscoveryEngine` were
chosen so that each gate and each priority of a provider has a row that takes it
and one that does not. Three runs and three seconds (`MaxClock = 2`) allow a run
before, during and after another; two hosts with six possible answers of the
second scan cover every branch of the merge and every reason of the diagnostics;
three or four contents of a table, any of which may turn into any other at any
time, have rows that stay, move, come before the cursor and come after it, and
are longer than the limit (two or three rows); three numbers suffice for a gap and a number above it; four instants
(`MaxClock = 3`) let a pass start, fail and be followed by another of its phase in
later ones, and three networks leave one that nobody asked for; a replayed run
has three addresses and up to three claims in any order, from two sources, so
that edges share a subject, compete for a single-valued category, or are one edge
with several pieces of evidence; two datasets and three commands suffice for a
report to be written, overwritten or torn and compared. Every property has a
mutant: a plausible bug, kept beside the definition it alters, under which the
property fails in the same run.

**Fairness.** `DiscoveryEngine!FairSpec` is weak fairness of `Next`: the program
is one thread and every network call has a timeout and a bounded number of
retries, so a step that can be taken is taken. Nothing says which step: a
provider may always raise, a host may never answer. `ReportRun!FairSpec` is weak
fairness of each run's own steps, not of the clock. No property depends on
strong fairness. `SnmpWalk!FairSpec` is weak fairness of the walk, not of the
device: a request is answered or times out. `ApplicationRun`, `Benchmark` and
`ObservationRepository` state no liveness and no fairness: the first two end
whenever their parts do, and people decide when to go on with the third.

## 4. What is proved

All theorems hold for every set of addresses, every list of subnets, every
answer a host may give and every configuration of providers. Their assumptions
are those on the constants in the modules (`NoneIsNoValue`, `PolicyAssumption`,
`HostReportsAssumption`, `AnswersAssumption`, `EngineAssumption`,
`NoneIsNoDiagnostics`, `ProviderAssumption`, `ReportAssumption`, `RunAssumption`,
`BenchmarkAssumption`, `WalkAssumption`, `RepositoryAssumption`, `RankAssumption`,
`ObservedAssumption`): None is no address, name or diagnostics, tables are tables, a
subnet is finite, providers are configured at most once, distinct texts have
distinct places in their order, a run observes observations. TLC evaluates them
in every run of their modules.

| Theorem | Statement | Strengthening it rests on |
|---|---|---|
| `TypeCorrect` | `Spec => []TypeOK` | inductive as it stands, because `TypeOK` says that only a running pass holds partial results and that a pass is over discovered devices |
| `EndpointsAlwaysDiscovered` | `Spec => []EndpointsDiscovered` | `Gated`: the property speaks of collected observations, but what a provider is still gathering is collected later, so the subjects of identity observations must be discovered in `pending` too. `ContributionType` shows that one contribution is gated, `EdgeEndpoints` that the resolver then yields discovered endpoints only |
| `FaultsContributeNothing` | `Spec => []FaultContributesNothing` | `Attributed`: every observation names the provider of the pass that made it, and a provider whose pass is not over owns nothing yet |
| `DiagnosticsAlwaysAccount` | `Spec => []DiagnosticsAccountForPass` | `Accounted`: at every step of a pass the hosts to visit, those that answered and those that did not partition the devices, and what is pending comes from those that answered |
| `AlwaysClassifiedOnFinalEvidence` | `Spec => []ClassifiedOnFinalEvidence` | `Judged`: a verdict equals the facts on the device while classification runs, and no verdict exists before |
| `FirstReportAlwaysWins` | `Spec => FirstReportWins` | `TypeOK` |
| `OverlapDoesNotConfirm` | `Spec => []OverlapNeverConfirms` | `Provenance`: an observation is from the one Nmap source or from the pass of an enrichment provider, so a property with two sources has an enrichment provider's among them, however many subnets overlap |
| `ConflictStaysVisible` | `Spec => ConflictNeverHidden` | `TypeOK` and that observations only grow: the values of a property, and the competitors of an edge in a single-valued category, only grow with them, so a conflict is not resolved away by a later source that agrees with one side |
| `MacResolutionAlwaysStable` | if ARP precedes the providers that use the index, `Spec => []MacResolutionStable` | `MacStable` and `MacsFinal`: an observation resolved through a MAC address is still resolved the same way by all evidence collected, because once such a provider has run nobody adds a MAC address. `ArpFirst` is the hypothesis; `swapped_order` shows that it is needed |
| `EngineImplementsLog` | `Spec => ImplementsEvidenceLog` | the invariants above; one step of the engine is one step of `EvidenceLog` or a stutter |

They are in `DiscoveryEngineProofs`. `NmapProviderProofs` proves of one discovery
call, for every subnet and every answer:

| Theorem | Statement | Strengthening it rests on |
|---|---|---|
| `TypeCorrect` | `Spec => []TypeOK` | inductive as it stands |
| `FactsAlwaysEvidence` | `Spec => []FactsAreEvidence` | `OneAccount`: before the second scan no device has a computer name or a domain and no observation speaks of one, so the second scan's evidence is all there is of them |
| `EnrichmentAlwaysOnlyAdds` | `Spec => EnrichmentOnlyAdds` | `TypeOK` |
| `DiagnosticsAlwaysMatch` | `Spec => []DiagnosticsMatchDevices` | `Diagnosed`: there is a second scan only under a profile that has one and for devices that were found; `DiagnoseMatches` compares the reasons of the diagnostics with the fields of the device |
| `MergeNeverHidesConflict` | `Spec => []MergeHidesNoConflict` | `OneAccount`: the second scan's evidence is all there is of a computer name or a domain, so what SMB and RDP said decides the state of the property, whatever the resolver sees besides |
| `ProviderImplementsContract` | `Spec => ImplementsScanContract` | `ScanKept`: what is retained of host discovery is still exactly what the devices say of it, so the step that returns is the contract's step, whichever scan it is |

`SnmpWalkProofs` proves of one table query, for every set of tables and limits:

| Theorem | Statement | Strengthening it rests on |
|---|---|---|
| `TypeCorrect` | `Spec => []TypeOK` | `Typed`: the rows gathered are finitely many, and each response adds at most one |
| `EntriesAlwaysWereHeld` | `Spec => []EntriesWereHeld` | `Honest`: every value read so far, in this column or an earlier one, was held by the row it is filed under; `JoinHeld` shows that the join keeps that |
| `SteadyRowsAlwaysReported` | `Spec => []SteadyRowsReported` | `Tracked`: while a column is walked, every steady row before the cursor is among the rows gathered (`SteadyGathered`), no more rows are counted than instances the table ever had up to the cursor (`RowsCounted`), and every finished column holds the steady rows within the limit with the table's values or has failed as a whole (`SteadyCollected`). A steady row not yet gathered lies ahead of the cursor, so a walk ends without it only at the row limit, and then the instances before it alone reach the limit |

Its assumption `WalkAssumption` says what the indices of a table look like, and
that a table is finite.

`ObservationRepositoryProofs` proves of any number of processes and reviewers
over one knowledge directory:

| Theorem | Statement | Strengthening it rests on |
|---|---|---|
| `TypeCorrect` | `Spec => []TypeOK` | inductive as it stands, because `TypeOK` says that an open file exists and that what can be read was recorded |
| `EvidenceIsNeverReplaced`, `ReadableAlwaysKeepsReviews` | under `Sequential`, `Spec => []EvidenceNeverReplaced` and `Spec => []ReadableKeepsReviews` | `InOrder`: both at once, with `HeldInOrder`. While a file is open its text is gone, so what ties its next text to the old one is what the process holds: `HeldInOrder` says that one process at most is at work, and that if its number is on record it holds the device on record and every review |
| `IdsAreNeverReused` | under `Sequential`, and unless the newest file may be removed, `Spec => []IdsNeverReused` | `BelowNewest`: every number issued is at most the newest file's, readable or not, and a number that is about to be used for the first time was not issued before |

`Sequential` says that one process is over (done or dead) before the next begins and that every
number is one the file name pattern reads; without the first, two captures can be
given one number (section 5), without the second the repository does not see its
own newest files. That the newest file stays is needed: see `repository_removal`.

`ReportRunProofs` proves of any number of runs on one output directory, each of
which may die anywhere:

| Theorem | Statement | Strengthening it rests on |
|---|---|---|
| `TypeCorrect` | `Spec => []TypeOK` | inductive as it stands |
| `ValidationReadsOwnProject` | `Spec => []ValidatedOwnProject` | `Turns`: among runs that take turns one at most is between its directory and its end, so the project file is as that run left it |
| `ObservationsComeFirst`, `DoneLeavesAll` | if no two runs report in one second, `Spec => []ObservationsFirst` and `Spec => []DoneLeavesEverything` | `Apart`: directories are named after the profile and are not shared; `Mine`: a file belongs to the run whose directory it is in, and is the next artifact at most; `Kept`: what a run has finished is whole, and the file it writes nobody else has opened |
| `NothingOverwritten` | if no two runs report in one second, `Spec => ArtifactsNeverOverwritten` | the same; `reports_same_second` shows that the hypothesis is needed |

`ReplayedRunsProofs` proves of the replay, for any number of runs and for all
observations a run may retain, in any order and with any repetitions:

| Theorem | Statement | Argument |
|---|---|---|
| `ReplaysVouch` | if no two runs report in one second, `Spec => []ReplayVouches` | `FilesAsFound`, from `Mine` and `Kept` of `ReportRunProofs`: once a run has finished its third artifact a replay finds the first and the third whole, and a table that is there but not whole is its own, cut off while it wrote it. `IfWholeMatches`: whole files match, by the next theorem |
| `ReplayIsExact` | the replay of the artifact of `obs` matches a table if and only if it is `CsvRows(obs)` | `SerializeKeeps`, `ResolutionIgnoresOrder` and `GroupingMovesNothing`: the edges are sorted by (subject, category, related subject), which puts the edges of a group side by side (`GroupsContiguous`), so the grouping of the presentation moves no row |
| `ResolutionIgnoresOrder` | the same set of observations gives the same table (`resolver.py:84`) | `EdgesFollow`: the edges are a function of the set. `ProvenanceIs`: sorted evidence runs through the sources of an edge without going back, so the sources where they are first seen are the set of sources in order |
| `ArtifactIsLossless`, `ArtifactIsDeterministic` | `observations.json` has every observation as often as it was observed; the same observations in another order give the same artifact (`replay_format.py:18`, `:21`) | `RecordKeyTells`: the key covers every field. `NoneAhead`: of two sequences with the same members in order neither is ahead of the other at any place, or its first members would have to fit into fewer places |

They rest on three facts: tuples of texts of one length are totally ordered
(`LessOrders`), the arrangement of a finite set lists it in order
(`ArrangedLists`), and no other sequence does (`ListIsArranged`). That is why the
model has a sort with a definition of its own: to the proof system `SortSeq` of
the module TLC is an operator without one, and facts about an operator that
takes a comparison as a parameter cannot be instantiated.

`ApplicationRunProofs` proves of one run, for every command line and platform:

| Theorem | Statement | Strengthening it rests on |
|---|---|---|
| `TypesHold` | `Spec => []TypeOK` | inductive as it stands, because `TypeOK` ties the open pass to the end of the history |
| `RecordsAreSpans` | `Spec => []RecordsSpanOnePass` | `Watched`: while a pass is at work the recorder holds its start and no other of that phase, whoever raised before |
| `RecordsFit` | `Spec => []RecordsFitRuntime` | `Watched`: no record reaches into the pass at work |
| `OnlyAskedIsScanned` | `Spec => []ScansWhatWasAsked` | `ParseInv`: the networks are those of the values read so far, each once; `TurnsInv` and `WorkInv`: the owners of the passes and those still to come are the schedule, so a network is discovered once |

`BenchmarkProofs` proves of the classifier for every device, and of the commands that
judge it for every dataset:

| Theorem | Statement | Strengthening it rests on |
|---|---|---|
| `PrecedenceKept` | `KeepsPrecedence(d, Classify(d))` for every `d` | the rule table, one case per promise |
| `SnmpNeverLosesVerdict` | whatever SNMP adds, the verdict comes from the same rule or an earlier one, and a classified device stays classified | rules are monotone in the description |
| `TypeCorrect` | `Spec => []TypeOK` of `Benchmark` | inductive as it stands, with what `Begins` and `Ends` reset |
| `CountsAlwaysAccount` | `Spec => []CountsAccountForDevices` | `Balanced`: the counts are bags of finitely many kinds, a type that nobody expected has no count, and every sum of the property holds; `CountedBalanced` shows that one device more changes both sides of each sum alike, and `AllBalanced` that whole reports hold only tallies that were reached so |
| `ComparisonsTellOneStory` | `Spec => []ComparisonTellsOneStory` | `Compared`: a comparison is kept with two balanced tallies and is the result of comparing them. Where every device was expected, what is off the diagonal is what was not correct (`OffDiagonalIsWrong`), so accuracy and matrix have one direction (`SameDirection`); and were no cell better, the sum off the diagonal could not have fallen (`TotalMonotone`, `GainShows`, `LossShows`) |
| `VerdictsAlwaysKeepPrecedence` | `Spec => []VerdictsKeepPrecedence` | `Judged`: the devices loaded are those of a dataset, and those seen so far have the type the classifier gives them |

The sums of a tally are folds over finite sets. The library's
induction theorems take an operator as a parameter, which the provers cannot
instantiate, so `BenchmarkProofs` does induction with a *set* of naturals in place
of the operator (`NaturalsBySteps`, from the well-foundedness of strict inclusion
among finite sets), and derives from it what is needed of a sum: it exists, does
not depend on the order, and grows by what is added (`SumFacts`).

Model-checked only:

- the liveness properties `EnrichmentNeverAborts`, `ReportsEnd` and `QueryEnds`:
  fairness and `ENABLED` are out of TLAPS's reach;
- the properties of the runs that expect a violation, which are false.

## 5. What else reading and modelling showed

Behaviour a maintainer may want to know of, without a run of its own.

- Detection of the local network is documented to end in a network or none
  (`local_subnet.py:102`, `:146`). Output of the shell that cannot be decoded
  raises `UnicodeDecodeError`, which is caught nowhere: the run ends with a
  traceback (`DetectionRaises`).
- Durations are differences of wall-clock times (`telemetry.py:58`): a clock set
  back during a pass makes them negative. The model's clock only moves forward.
- Two values from one provider and method (two overlapping subnets) make a
  property CONFLICTING, although the state is defined by independent sources.
- Two processes that capture at once can be given the same observation number
  (`capture.py:116`); `ObservationRepository` has that behaviour with
  `OneAtATime = FALSE`, and its properties are promised without it.
- Saving an observation truncates its file in place (`knowledge/repository.py:61`).
  A review that dies before it has written leaves a file without the evidence that
  `models.py:122` says is "preserved for future human review"; `load` raises on it
  and the program keeps no copy. `ObservationRepository` has that behaviour (`Open`,
  `Dies`, `LoadRaises`), so its properties speak of files that can be read.
- A benchmark record that lacks a key raises `KeyError` (`devtools/benchmark.py:110`)
  and ends `validate --all` there; `compare` on a missing or torn report raises
  too; without arguments it compares the first two reports by name
  (`compare.py:75`), which need not be of one dataset.
- A report is named by its dataset only, so benchmarking again replaces it. A
  benchmark "passes" whatever its accuracy. A device with no expected type
  counts against the accuracy but appears nowhere in the matrix.
- The benchmark loader does not read the SNMP description of a device, so rules
  that use it are judged without it (`Loaded`).
- Project files are compared by a class that no command uses
  (`project_comparator.py`); two devices with one MAC address shadow each other
  in it.

## 6. The plan, and what is left

1. Done: `Evidence`, `Resolution`, `EnrichmentProviders`, `DiscoveryEngine`,
   `EvidenceLog`, `DiscoveryLog`, `ReportRun`, `ObservationRepository`.
2. Done: `NmapProvider`, `HostScan`, `ScanContract`, `SnmpWalk`.
3. Done: `ApplicationRun` (startup, events and telemetry).
4. Done: `DeviceClassifier`, `Benchmark`, `ObservationReplay`, `ReplayedRuns`.
5. Proofs. Done: the theorems of section 4, one for every safety invariant and
   action property of the passing runs. What is left of the proofs is liveness,
   which stays with TLC.

**Not modelled.** The wire formats of pysnmp and python-nmap; the layout of the
Markdown report, the device CSV, the summaries, the diagnostics report and the
classification workbench (pure text, nothing is decided by it); the comparison of
projects (no command of the program reaches it, it keeps no state); the JSON
schema checks of the replay parser beyond "does not parse", because the program
writes nothing they would refuse; benchmark data, tests and documents.
