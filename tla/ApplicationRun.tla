--------------------------- MODULE ApplicationRun ---------------------------
(***************************************************************************)
(* Application.run(): the arguments are checked, the networks to scan are  *)
(* chosen, and the passes of the run follow, each a runtime phase whose    *)
(* start and completion are published to two subscribers, the console and  *)
(* the telemetry.  Several passes share a phase: one host discovery per    *)
(* network, one SNMP enrichment per provider.  Anything may raise: inside  *)
(* an enrichment provider the engine swallows it, elsewhere the run ends.  *)
(***************************************************************************)
EXTENDS Integers, Sequences

CONSTANTS Requests,      \* the command lines
          Machines,      \* what the platform answers when the local network is sought
          Networks,      \* canonical IPv4 networks
          LocalNetwork,  \* the network of the active interface
          Canonical,     \* a --subnet value as a network, or None: malformed, or not IPv4
          MaxClock,      \* bound: the clock
          None

Enrichers == {"snmp", "arp", "lldp", "fdb"}
Tasks     == {"startup", "classification", "report generation", "completion"}
Owners    == Networks \cup Enrichers \cup Tasks
Phases    == Tasks \cup {"host discovery", "service enrichment", "snmp enrichment"}
Times     == 0..MaxClock

Request == [profile : {"fast", "standard", "unknown"}, values : Seq(DOMAIN Canonical),
            flags : SUBSET Enrichers, community : BOOLEAN]
Machine == [route : {None, "loopback", "link local", "private"},
            shell : {"fails", "undecodable", "no number", "no prefix", "prefix"}]

ASSUME RunAssumption ==
  /\ Requests \subseteq Request /\ Machines \subseteq Machine
  /\ LocalNetwork \in Networks /\ Canonical \in [DOMAIN Canonical -> Networks \cup {None}]
  /\ None \notin Networks \cup Machines \cup Nat /\ MaxClock \in Nat
  /\ Networks \cap (Enrichers \cup Tasks) = {}

VARIABLES request,
          machine,    \* what the platform answered the detection, or None
          stage,      \* where run() is, or how the process ended
          unread,     \* the --subnet values _parse_subnets has not looked at
          networks,   \* subnets
          todo,       \* whose passes remain; the first is the one whose turn it is
          phase,      \* the phase of its current or next pass
          open,       \* TRUE: the start of that pass is published
          clock,
          telemetry,  \* RuntimeTelemetryRecorder
          passes      \* history: the passes that began, and when they completed

input == <<request, machine>>
parse == <<unread, networks>>
work  == <<todo, phase, open>>
watch == <<telemetry, passes>>
vars  == <<input, stage, parse, work, clock, watch>>

Ended  == {"exit 0", "exit 2", "traceback"}
Stages == {"startup", "subnets", "detection", "providers", "credentials", "engine"} \cup Ended

FirstPhase(owner) ==
  IF owner \in Networks THEN "host discovery"
  ELSE IF owner \in Enrichers THEN "snmp enrichment" ELSE owner

Init ==
  /\ request \in Requests /\ machine = None
  /\ stage = "startup" /\ unread = request.values /\ networks = <<>>
  /\ todo = <<"startup">> /\ phase = "startup" /\ open = FALSE
  /\ clock = 0
  /\ telemetry = [started |-> [p \in Phases |-> None], records |-> <<>>,
                  runStarted |-> None, runCompleted |-> None]
  /\ passes = <<>>

Tick ==
  /\ clock < MaxClock /\ clock' = clock + 1
  /\ UNCHANGED <<input, stage, parse, work, watch>>

-----------------------------------------------------------------------------
(* The passes.  A pass is at work between the events of its start and its    *)
(* completion; publish() hands both to the telemetry after the console.      *)

(* Mutations: the first start of a phase is kept; every start is a new run. *)
RecordStart_KeepsFirst ==
  telemetry' = [telemetry EXCEPT !.started[phase] = IF @ = None THEN clock ELSE @,
                                 !.runStarted = IF @ = None THEN clock ELSE @]
RecordStart_Restarts ==
  telemetry' = [telemetry EXCEPT !.started[phase] = clock, !.runStarted = clock]

RecordStart ==
  telemetry' = [telemetry EXCEPT !.started[phase] = clock,
                                 !.runStarted = IF @ = None THEN clock ELSE @]

(* A completion without a start counts from itself. *)
RecordCompletion ==
  LET start == telemetry.started[phase]
  IN telemetry' = [telemetry EXCEPT
       !.records = Append(@, [phase |-> phase, completed |-> clock,
                              started |-> IF start = None THEN clock ELSE start]),
       !.runCompleted = clock]

Working == stage \in {"startup", "engine"} /\ todo # <<>>

Begin ==
  /\ Working /\ ~open
  /\ RecordStart /\ open' = TRUE
  /\ passes' = Append(passes, [owner |-> Head(todo), phase |-> phase,
                               from |-> clock, to |-> None])
  /\ UNCHANGED <<input, stage, parse, todo, phase, clock>>

NextTurn ==
  /\ todo' = Tail(todo) /\ open' = FALSE
  /\ phase' = IF Tail(todo) = <<>> THEN phase ELSE FirstPhase(Head(Tail(todo)))

(* A scan deeper than "fast" that found hosts goes on to enrich them. *)
Complete ==
  /\ Working /\ open
  /\ stage = "startup" => request.profile # "unknown"
  /\ RecordCompletion
  /\ passes' = [passes EXCEPT ![Len(passes)].to = clock]
  /\ \/ NextTurn
     \/ /\ phase = "host discovery" /\ request.profile # "fast"
        /\ phase' = "service enrichment" /\ open' = FALSE /\ UNCHANGED todo
  /\ stage' = IF stage = "startup" THEN "subnets" ELSE stage
  /\ UNCHANGED <<input, parse, clock>>

(* Mutation: the next provider takes the place of the one that raised. *)
Fails_StaysOpen ==
  /\ Working
  /\ IF Head(todo) \in Enrichers
     THEN /\ todo' = Tail(todo) /\ phase' = FirstPhase(Head(Tail(todo)))
          /\ UNCHANGED <<stage, open>>
     ELSE stage' = "traceback" /\ UNCHANGED work
  /\ UNCHANGED <<input, parse, clock, watch>>

(* A provider, the scanner, a resolver or an exporter raises, or the console *)
(* cannot print: an event it was to print does not reach the telemetry.  The *)
(* engine gives up the enrichment provider whose turn it is, and nothing     *)
(* else; without one, the run is over.                                       *)
Fails ==
  /\ Working
  /\ IF Head(todo) \in Enrichers THEN NextTurn /\ UNCHANGED stage
     ELSE stage' = "traceback" /\ UNCHANGED work
  /\ UNCHANGED <<input, parse, clock, watch>>

Finish ==
  /\ stage = "engine" /\ todo = <<>>
  /\ stage' \in {"exit 0", "traceback"}    \* the summary is printed
  /\ UNCHANGED <<input, parse, work, clock, watch>>

-----------------------------------------------------------------------------
(* The arguments *)

RejectProfile ==
  /\ stage = "startup" /\ open /\ request.profile = "unknown"
  /\ stage' = "exit 2"
  /\ UNCHANGED <<input, parse, work, clock, watch>>

(* Mutation: a value that cannot be read is passed over. *)
ReadValue_Skips ==
  /\ stage = "subnets" /\ unread # <<>>
  /\ LET network == Canonical[Head(unread)]
     IN networks' = IF network = None \/ \E i \in DOMAIN networks : networks[i] = network
                    THEN networks ELSE Append(networks, network)
  /\ unread' = Tail(unread)
  /\ UNCHANGED <<input, stage, work, clock, watch>>

(* _parse_subnets: the canonical networks, each once, in the order given. *)
ReadValue ==
  /\ stage = "subnets" /\ unread # <<>>
  /\ LET network == Canonical[Head(unread)]
     IN IF network = None THEN stage' = "exit 2" /\ UNCHANGED networks
        ELSE /\ UNCHANGED stage
             /\ networks' = IF \E i \in DOMAIN networks : networks[i] = network
                            THEN networks ELSE Append(networks, network)
  /\ unread' = Tail(unread)
  /\ UNCHANGED <<input, work, clock, watch>>

ValuesRead ==
  /\ stage = "subnets" /\ unread = <<>>
  /\ stage' = IF networks = <<>> THEN "detection" ELSE "providers"
  /\ UNCHANGED <<input, parse, work, clock, watch>>

(* detect_local_subnet: an address that is routed and not this host's alone, *)
(* and then its prefix from the shell.  Output that text=True cannot decode  *)
(* is neither a SubprocessError nor an OSError.                              *)
Rejected(address) == address \in {None, "loopback", "link local"}
DetectedPrefix(m) == IF m.shell \in {"fails", "no number"} THEN None ELSE m.shell
DetectLocalSubnet(m) ==
  IF Rejected(m.route) \/ DetectedPrefix(m) # "prefix" THEN None ELSE LocalNetwork
DetectionRaises(m) == ~Rejected(m.route) /\ m.shell = "undecodable"

Detect ==
  /\ stage = "detection"
  /\ machine' \in Machines
  /\ IF DetectionRaises(machine') THEN stage' = "traceback" /\ UNCHANGED networks
     ELSE IF DetectLocalSubnet(machine') = None THEN stage' = "exit 2" /\ UNCHANGED networks
     ELSE stage' = "providers" /\ networks' = <<LocalNetwork>>
  /\ UNCHANGED <<request, unread, work, clock, watch>>

(* Each NmapProvider looks for nmap when it is made. *)
MakeScanners ==
  /\ stage = "providers" /\ stage' \in {"credentials", "traceback"}
  /\ UNCHANGED <<input, parse, work, clock, watch>>

Chosen(provider) == IF provider \in request.flags THEN <<provider>> ELSE <<>>
EnrichmentProviders == Chosen("snmp") \o Chosen("arp") \o Chosen("lldp") \o Chosen("fdb")
Schedule ==
  networks \o (EnrichmentProviders \o <<"classification", "report generation", "completion">>)

ResolveCredentials ==
  /\ stage = "credentials"
  /\ IF request.flags # {} /\ ~request.community
     THEN stage' = "exit 2" /\ UNCHANGED work
     ELSE /\ stage' = "engine"
          /\ todo' = Schedule /\ phase' = "host discovery" /\ open' = FALSE
  /\ UNCHANGED <<input, parse, clock, watch>>

CheckArguments == RejectProfile \/ ReadValue \/ ValuesRead \/ Detect \/ MakeScanners
                    \/ ResolveCredentials

Over == stage \in Ended /\ UNCHANGED vars

Next == Tick \/ CheckArguments \/ Begin \/ Complete \/ Fails \/ Finish \/ Over

Spec == Init /\ [][Next]_vars

-----------------------------------------------------------------------------
(* Properties *)

TimeOrNone == Times \cup {None}
Record == [phase : Phases, started : Times, completed : Times]
Telemetry == [started : [Phases -> TimeOrNone], records : Seq(Record),
              runStarted : TimeOrNone, runCompleted : TimeOrNone]
PassRecord == [owner : Owners, phase : Phases, from : Times, to : TimeOrNone]

AtWork(pass) == pass.owner = Head(todo) /\ pass.phase = phase /\ pass.to = None

(* The types; the pass at work is the last that began, and is not complete;  *)
(* a run whose arguments are checked has a network to scan.                  *)
TypeOK ==
  /\ request \in Requests /\ machine \in Machines \cup {None}
  /\ stage \in Stages
  /\ unread \in Seq(DOMAIN Canonical) /\ networks \in Seq(Networks)
  /\ todo \in Seq(Owners) /\ phase \in Phases /\ open \in BOOLEAN
  /\ clock \in Times
  /\ telemetry \in Telemetry
  /\ passes \in Seq(PassRecord)
  /\ open => todo # <<>> /\ passes # <<>> /\ AtWork(passes[Len(passes)])
  /\ stage \in {"providers", "credentials", "engine"} => networks # <<>>

(* A record of the telemetry is the span of one pass, from the start that    *)
(* pass published to its own completion, although passes share phases and    *)
(* some of them raise before they complete (telemetry.py:18).                *)
RecordsSpanOnePass ==
  \A i \in DOMAIN telemetry.records : \E j \in DOMAIN passes :
    LET record == telemetry.records[i]
    IN /\ passes[j].phase = record.phase
       /\ passes[j].from = record.started /\ passes[j].to = record.completed

(* The records do not overlap and lie within the total runtime: the times of *)
(* the summary add up to no more than its total (telemetry.py:76).           *)
RecordsFitRuntime ==
  LET records == telemetry.records
  IN /\ \A i, j \in DOMAIN records : i < j => records[i].completed <= records[j].started
     /\ \A i \in DOMAIN records :
          /\ telemetry.runStarted <= records[i].started
          /\ records[i].started <= records[i].completed
          /\ records[i].completed <= telemetry.runCompleted

(* Nothing is scanned but what was asked for: every value given, if any was, *)
(* and then all of them were networks; otherwise the one network detected,   *)
(* never a guess (application.py:505, local_subnet.py:146).  No network is    *)
(* scanned twice, and none at all for a request with an error in it          *)
(* (application.py:378).                                                      *)
Asked       == {Canonical[request.values[i]] : i \in DOMAIN request.values}
Scanned     == {passes[i].owner : i \in DOMAIN passes} \cap Networks
HasError    == None \in Asked \/ request.profile = "unknown"
                 \/ (request.flags # {} /\ ~request.community)

ScansWhatWasAsked ==
  /\ Scanned # {} => IF Asked # {} THEN Scanned \subseteq Asked
                     ELSE machine \in Machines /\ Scanned = {DetectLocalSubnet(machine)}
  /\ stage = "exit 0" => Scanned # {} /\ Asked \subseteq Scanned
  /\ HasError \/ stage = "exit 2" => Scanned = {}
  /\ \A i, j \in DOMAIN passes :
       passes[i].phase = "host discovery" /\ passes[j].phase = "host discovery"
         /\ passes[i].owner = passes[j].owner => i = j
=============================================================================
