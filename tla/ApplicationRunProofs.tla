------------------------ MODULE ApplicationRunProofs ------------------------
(***************************************************************************)
(* What holds of every run, whatever is asked, whatever the platform       *)
(* answers and wherever it fails: the types, that the telemetry times      *)
(* single passes, and that only what was asked for is scanned.             *)
(***************************************************************************)
EXTENDS ApplicationRun, SequenceTheorems, TLAPS

(* The passes in turn have a phase each. *)
LEMMA FirstPhaseType == \A owner \in Owners : FirstPhase(owner) \in Phases
  BY DEF FirstPhase, Owners, Phases, Tasks

(* The networks come first, and nothing after them is a network. *)
LEMMA ScheduleScans ==
  ASSUME networks \in Seq(Networks)
  PROVE  /\ Schedule \in Seq(Owners) /\ Len(Schedule) > Len(networks)
         /\ \A i \in 1..Len(networks) : Schedule[i] = networks[i]
         /\ \A i \in (Len(networks) + 1)..Len(Schedule) : Schedule[i] \in Enrichers \cup Tasks
PROOF
<1> DEFINE Last == <<"classification", "report generation", "completion">>
           Rest == EnrichmentProviders \o Last
           Others == Enrichers \cup Tasks
<1>1. networks \in Seq(Owners)
  BY SeqMonotonic DEF Owners
<1>2. EnrichmentProviders \in Seq(Others)
  <2>1. ASSUME NEW p \in Enrichers
        PROVE  Chosen(p) \in Seq(Others)
    <3>1. p \in Others
      OBVIOUS
    <3> HIDE DEF Others
    <3>2. <<p>> \in Seq(Others) /\ <<>> \in Seq(Others)
      BY <3>1
    <3> QED
      BY <3>2 DEF Chosen
  <2> DEFINE A == Chosen("snmp") B == Chosen("arp") C == Chosen("lldp") D == Chosen("fdb")
  <2>2. A \in Seq(Others) /\ B \in Seq(Others) /\ C \in Seq(Others) /\ D \in Seq(Others)
    BY <2>1 DEF Enrichers
  <2>3. EnrichmentProviders = ((A \o B) \o C) \o D
    BY DEF EnrichmentProviders
  <2> HIDE DEF A, B, C, D
  <2>4. A \o B \in Seq(Others)
    BY <2>2, ConcatProperties
  <2>5. (A \o B) \o C \in Seq(Others)
    BY <2>2, <2>4, ConcatProperties
  <2> QED
    BY <2>2, <2>3, <2>5, ConcatProperties
<1>3. Last \in Seq(Others) /\ Len(Last) = 3
  BY DEF Tasks
<1> HIDE DEF Last
<1>4. Rest \in Seq(Others) /\ Len(Rest) > 0
  BY <1>2, <1>3, ConcatProperties, LenProperties
<1>5. Rest \in Seq(Owners)
  BY <1>4, SeqMonotonic DEF Owners
<1>6. Schedule = networks \o Rest
  BY DEF Schedule, Last
<1> HIDE DEF Rest
<1>7. /\ Schedule \in Seq(Owners) /\ Len(Schedule) = Len(networks) + Len(Rest)
      /\ \A i \in 1..Len(Schedule) :
           Schedule[i] = IF i <= Len(networks) THEN networks[i] ELSE Rest[i - Len(networks)]
  BY <1>1, <1>5, <1>6, ConcatProperties
<1>8. Len(networks) \in Nat /\ Len(Rest) \in Nat
  BY <1>1, <1>5, LenProperties
<1>9. \A j \in 1..Len(Rest) : Rest[j] \in Others
  BY <1>4, ElementOfSeq
<1>10. ASSUME NEW i \in (Len(networks) + 1)..Len(Schedule)
       PROVE  Schedule[i] \in Others
  <2>1. i - Len(networks) \in 1..Len(Rest)
    BY <1>7, <1>8
  <2> QED
    BY <2>1, <1>7, <1>8, <1>9
<1> QED
  BY <1>4, <1>7, <1>8, <1>10

(* What taking the next turn leaves. *)
LEMMA NextTurnType ==
  ASSUME NextTurn, todo \in Seq(Owners), todo # <<>>, phase \in Phases
  PROVE  todo' \in Seq(Owners) /\ phase' \in Phases /\ open' = FALSE
PROOF
<1>1. Tail(todo) \in Seq(Owners)
  BY HeadTailProperties
<1>2. Tail(todo) # <<>> => Head(Tail(todo)) \in Owners
  BY <1>1, HeadTailProperties
<1> QED
  BY <1>1, <1>2, FirstPhaseType DEF NextTurn

(* What an event leaves in the recorder. *)
LEMMA StartRecorded ==
  ASSUME RecordStart, telemetry \in Telemetry, phase \in Phases, clock \in Times
  PROVE  /\ telemetry' \in Telemetry
         /\ telemetry'.started[phase] = clock
         /\ telemetry'.records = telemetry.records
         /\ telemetry'.runCompleted = telemetry.runCompleted
         /\ telemetry'.runStarted = IF telemetry.runStarted = None THEN clock ELSE telemetry.runStarted
PROOF
<1>1. clock \in TimeOrNone
  BY DEF TimeOrNone
<1> QED
  BY <1>1 DEF RecordStart, Telemetry

LEMMA CompletionRecorded ==
  ASSUME RecordCompletion, telemetry \in Telemetry, phase \in Phases, clock \in Times
  PROVE  LET start == telemetry.started[phase]
             record == [phase |-> phase, completed |-> clock,
                        started |-> IF start = None THEN clock ELSE start]
         IN /\ telemetry' \in Telemetry
            /\ record \in Record
            /\ telemetry'.records = Append(telemetry.records, record)
            /\ telemetry'.started = telemetry.started
            /\ telemetry'.runStarted = telemetry.runStarted
            /\ telemetry'.runCompleted = clock
PROOF
<1> DEFINE start == telemetry.started[phase]
           record == [phase |-> phase, completed |-> clock,
                      started |-> IF start = None THEN clock ELSE start]
<1>1. clock \in TimeOrNone /\ start \in TimeOrNone
  BY DEF TimeOrNone, Telemetry
<1>2. record \in Record
  BY <1>1 DEF Record, TimeOrNone
<1>3. telemetry.records \in Seq(Record)
  BY DEF Telemetry
<1>4. Append(telemetry.records, record) \in Seq(Record)
  BY <1>2, <1>3
<1>5. telemetry' = [telemetry EXCEPT !.records = Append(telemetry.records, record),
                                     !.runCompleted = clock]
  BY DEF RecordCompletion
<1> HIDE DEF record
<1> QED
  BY <1>1, <1>2, <1>4, <1>5 DEF Telemetry, record

-----------------------------------------------------------------------------
(* The types *)

(* The state a run starts from is of its types. *)
LEMMA TypeInit ==
  ASSUME Init, RunAssumption
  PROVE  TypeOK
PROOF
<1>1. request \in Request
  BY DEF Init, RunAssumption
<1>2. unread \in Seq(DOMAIN Canonical)
  BY <1>1 DEF Init, Request
<1>3. "startup" \in Owners /\ "startup" \in Phases
  BY DEF Owners, Tasks, Phases
<1>4. 0 \in Times
  BY DEF Times, RunAssumption
<1>5. todo \in Seq(Owners)
  BY <1>3 DEF Init
<1>6. telemetry \in Telemetry
  BY DEF Init, Telemetry, TimeOrNone
<1>7. networks \in Seq(Networks) /\ passes \in Seq(PassRecord)
  BY EmptySeq DEF Init
<1>8. open \in BOOLEAN /\ ~open /\ stage = "startup" /\ stage \in Stages
  BY DEF Init, Stages
<1>9. request \in Requests /\ machine = None /\ clock \in Times /\ phase \in Phases
  BY <1>3, <1>4 DEF Init
<1> QED
  BY <1>2, <1>5, <1>6, <1>7, <1>8, <1>9 DEF TypeOK

(* Nothing but the work, the clock and the watch over them is disturbed by   *)
(* the passes: what each step of them does to the types.                     *)
LEMMA BeginKeepsTypes ==
  ASSUME TypeOK, Begin
  PROVE  TypeOK'
PROOF
<1> DEFINE pass == [owner |-> Head(todo), phase |-> phase, from |-> clock, to |-> None]
<1>1. telemetry' \in Telemetry
  BY StartRecorded DEF TypeOK, Begin
<1>2. Head(todo) \in Owners
  BY HeadTailProperties DEF TypeOK, Begin, Working
<1>3. pass \in PassRecord
  BY <1>2 DEF TypeOK, PassRecord, TimeOrNone
<1>4. pass.owner = Head(todo) /\ pass.phase = phase /\ pass.to = None
  OBVIOUS
<1>5. passes' = Append(passes, pass)
  BY DEF Begin
<1> HIDE DEF pass
<1>6. passes' \in Seq(PassRecord) /\ passes' # <<>> /\ passes'[Len(passes')] = pass
  BY <1>3, <1>5 DEF TypeOK
<1> QED
  BY <1>1, <1>4, <1>6 DEF TypeOK, Begin, Working, AtWork, input, parse

LEMMA CompleteKeepsTypes ==
  ASSUME TypeOK, Complete
  PROVE  TypeOK'
PROOF
<1> DEFINE n == Len(passes)
           last == [passes[n] EXCEPT !.to = clock]
<1>1. telemetry' \in Telemetry
  BY CompletionRecorded DEF TypeOK, Complete
<1>2. n \in 1..Len(passes)
  <2>1. passes \in Seq(PassRecord) /\ passes # <<>>
    BY DEF TypeOK, Complete
  <2> QED
    BY <2>1, EmptySeq
<1>3. passes[n] \in PassRecord
  BY <1>2, ElementOfSeq DEF TypeOK
<1>4. last \in PassRecord
  BY <1>3 DEF TypeOK, PassRecord, TimeOrNone
<1>5. passes' = [passes EXCEPT ![n] = last]
  BY DEF Complete
<1> HIDE DEF last
<1>6. passes' \in Seq(PassRecord)
  BY <1>2, <1>4, <1>5, ExceptSeq DEF TypeOK
<1>7. todo' \in Seq(Owners) /\ phase' \in Phases /\ open' = FALSE
  BY NextTurnType DEF TypeOK, Complete, Working, Phases
<1>8. stage' \in Stages /\ (stage' \in {"providers", "credentials", "engine"} => networks' # <<>>)
  BY DEF TypeOK, Complete, Stages, Ended, parse
<1> QED
  BY <1>1, <1>6, <1>7, <1>8 DEF TypeOK, Complete, input, parse

LEMMA FailsKeepsTypes ==
  ASSUME TypeOK, Fails
  PROVE  TypeOK'
PROOF
<1>1. CASE Head(todo) \in Enrichers
  <2>1. todo' \in Seq(Owners) /\ phase' \in Phases /\ open' = FALSE
    BY <1>1, NextTurnType DEF TypeOK, Fails, Working
  <2> QED
    BY <1>1, <2>1 DEF TypeOK, Fails, input, parse, watch
<1>2. CASE Head(todo) \notin Enrichers
  BY <1>2 DEF TypeOK, Fails, Stages, Ended, AtWork, input, parse, watch, work
<1> QED
  BY <1>1, <1>2

(* The arguments: the networks are networks, and there is one to scan. *)
LEMMA ArgumentsKeepTypes ==
  ASSUME TypeOK, CheckArguments, RunAssumption
  PROVE  TypeOK'
PROOF
<1>1. CASE RejectProfile
  BY <1>1 DEF TypeOK, RejectProfile, Stages, Ended, AtWork, input, parse, watch, work
<1>2. CASE ReadValue
  <2>1. Head(unread) \in DOMAIN Canonical /\ Tail(unread) \in Seq(DOMAIN Canonical)
    BY <1>2, HeadTailProperties DEF TypeOK, ReadValue
  <2>2. Canonical[Head(unread)] # None => Canonical[Head(unread)] \in Networks
    BY <2>1 DEF RunAssumption
  <2>3. networks' \in Seq(Networks)
    <3> DEFINE network == Canonical[Head(unread)]
    <3>1. network # None => Append(networks, network) \in Seq(Networks)
      BY <2>2 DEF TypeOK
    <3>2. \/ networks' = networks
          \/ network # None /\ networks' = Append(networks, network)
      BY <1>2 DEF ReadValue
    <3> QED
      BY <3>1, <3>2 DEF TypeOK
  <2> QED
    BY <1>2, <2>1, <2>3 DEF TypeOK, ReadValue, Stages, Ended, AtWork, input, watch, work
<1>3. CASE ValuesRead
  BY <1>3 DEF TypeOK, ValuesRead, Stages, Ended, AtWork, input, parse, watch, work
<1>4. CASE Detect
  <2>1. <<LocalNetwork>> \in Seq(Networks) /\ <<LocalNetwork>> # <<>>
    BY DEF RunAssumption
  <2> QED
    BY <1>4, <2>1 DEF TypeOK, Detect, Stages, Ended, AtWork, watch, work
<1>5. CASE MakeScanners
  BY <1>5 DEF TypeOK, MakeScanners, Stages, Ended, AtWork, input, parse, watch, work
<1>6. CASE ResolveCredentials
  <2>1. Schedule \in Seq(Owners) /\ "host discovery" \in Phases
    BY ScheduleScans DEF TypeOK, Phases
  <2> QED
    BY <1>6, <2>1 DEF TypeOK, ResolveCredentials, Stages, Ended, AtWork, input, parse, watch, work
<1> QED
  BY <1>1, <1>2, <1>3, <1>4, <1>5, <1>6 DEF CheckArguments

(* Every variable keeps its type, the pass at work is the last that began,   *)
(* and whoever gets past the arguments has a network (TypeOK).                *)
THEOREM TypesHold == RunAssumption => (Spec => []TypeOK)
PROOF
<1> SUFFICES ASSUME RunAssumption PROVE Spec => []TypeOK
  OBVIOUS
<1>1. Init => TypeOK
  BY TypeInit
<1>2. TypeOK /\ [Next]_vars => TypeOK'
  <2> SUFFICES ASSUME TypeOK, [Next]_vars PROVE TypeOK'
    OBVIOUS
  <2>1. CASE Tick
    BY <2>1 DEF TypeOK, Tick, Times, RunAssumption, AtWork, input, parse, watch, work
  <2>2. CASE Finish
    BY <2>2 DEF TypeOK, Finish, Stages, Ended, AtWork, input, parse, watch, work
  <2>3. CASE UNCHANGED vars
    BY <2>3 DEF TypeOK, AtWork, vars, input, parse, watch, work
  <2> QED
    BY <2>1, <2>2, <2>3, BeginKeepsTypes, CompleteKeepsTypes, FailsKeepsTypes,
       ArgumentsKeepTypes DEF Next, Over
<1> QED
  BY <1>1, <1>2, PTL DEF Spec

-----------------------------------------------------------------------------
(* The telemetry *)

(* What makes the records inductive: the recorder holds the start of the     *)
(* pass at work, everything recorded is past, and no record reaches into     *)
(* the pass at work.                                                         *)
Current == passes[Len(passes)]
Watched ==
  /\ open => /\ telemetry.started[phase] = Current.from
             /\ telemetry.runStarted # None /\ telemetry.runStarted <= Current.from
             /\ \A i \in DOMAIN telemetry.records : telemetry.records[i].completed <= Current.from
  /\ \A i \in DOMAIN passes : passes[i].from <= clock
  /\ telemetry.runStarted # None => telemetry.runStarted <= clock
  /\ telemetry.runCompleted # None => telemetry.runCompleted <= clock
  /\ telemetry.records # <<>> => telemetry.runStarted # None /\ telemetry.runCompleted # None

TelemetryInv == TypeOK /\ Watched /\ RecordsSpanOnePass /\ RecordsFitRuntime

(* The parts of the state that the telemetry is about, in their types. *)
LEMMA TelemetryTypes ==
  ASSUME TypeOK, RunAssumption
  PROVE  /\ clock \in Nat /\ None \notin Nat /\ MaxClock \in Nat
         /\ telemetry.records \in Seq(Record) /\ telemetry.started \in [Phases -> TimeOrNone]
         /\ telemetry.runStarted \in Nat \cup {None} /\ telemetry.runCompleted \in Nat \cup {None}
         /\ \A i \in DOMAIN telemetry.records :
              telemetry.records[i] \in Record
                /\ telemetry.records[i].started \in Nat /\ telemetry.records[i].completed \in Nat
         /\ \A i \in DOMAIN passes : passes[i].from \in Nat /\ passes[i].to \in Nat \cup {None}
PROOF
<1>1. Times \subseteq Nat /\ MaxClock \in Nat /\ None \notin Nat
  BY DEF Times, RunAssumption
<1>2. telemetry.records \in Seq(Record) /\ telemetry \in Telemetry
  BY DEF TypeOK, Telemetry
<1>3. \A i \in DOMAIN telemetry.records : telemetry.records[i] \in Record
  BY <1>2, LenProperties, ElementOfSeq
<1>4. \A i \in DOMAIN passes : passes[i] \in PassRecord
  BY LenProperties, ElementOfSeq DEF TypeOK
<1>5. \A i \in DOMAIN telemetry.records :
        telemetry.records[i].started \in Nat /\ telemetry.records[i].completed \in Nat
  BY <1>1, <1>3 DEF Record
<1>6. \A i \in DOMAIN passes : passes[i].from \in Nat /\ passes[i].to \in Nat \cup {None}
  BY <1>1, <1>4 DEF PassRecord, TimeOrNone
<1> QED
  BY <1>1, <1>2, <1>3, <1>5, <1>6 DEF TypeOK, Telemetry, TimeOrNone

(* A pass that begins: everything recorded is over. *)
LEMMA BeginKeepsTelemetry ==
  ASSUME TelemetryInv, Begin, RunAssumption
  PROVE  (Watched /\ RecordsSpanOnePass /\ RecordsFitRuntime)'
PROOF
<1> DEFINE n == Len(passes)
           records == telemetry.records
           pass == [owner |-> Head(todo), phase |-> phase, from |-> clock, to |-> None]
<1> USE TelemetryTypes DEF TelemetryInv
<1>1. /\ telemetry'.started[phase] = clock /\ telemetry'.records = records
      /\ telemetry'.runCompleted = telemetry.runCompleted
      /\ telemetry'.runStarted =
           IF telemetry.runStarted = None THEN clock ELSE telemetry.runStarted
  BY StartRecorded DEF TypeOK, Begin
<1>2. passes \in Seq(PassRecord) /\ passes' = Append(passes, pass)
  BY DEF Begin, TypeOK
<1>3. n \in Nat /\ DOMAIN passes = 1..n
  BY <1>2, LenProperties
<1>4. /\ DOMAIN passes' = 1..(n + 1) /\ Len(passes') = n + 1 /\ passes'[n + 1] = pass
      /\ \A i \in 1..n : passes'[i] = passes[i]
  BY <1>2, <1>3
<1>5. pass.from = clock
  OBVIOUS
<1> HIDE DEF pass
<1>6. Current'.from = clock
  BY <1>4, <1>5 DEF Current
<1>7. \A i \in DOMAIN passes' : passes'[i].from <= clock
  BY <1>3, <1>4, <1>5 DEF Watched
<1>8. \A i \in DOMAIN records : records[i].completed <= clock
  BY DEF Watched, RecordsFitRuntime
<1>9. Watched'
  BY <1>1, <1>6, <1>7, <1>8 DEF Watched, Begin
<1>10. RecordsSpanOnePass'
  <2> SUFFICES ASSUME NEW i \in DOMAIN records
               PROVE  \E j \in DOMAIN passes' :
                        LET r == records[i]
                        IN passes'[j].phase = r.phase /\ passes'[j].from = r.started
                           /\ passes'[j].to = r.completed
    BY <1>1 DEF RecordsSpanOnePass
  <2>1. PICK j \in DOMAIN passes :
          passes[j].phase = records[i].phase /\ passes[j].from = records[i].started
            /\ passes[j].to = records[i].completed
    BY DEF RecordsSpanOnePass
  <2> QED
    BY <1>3, <1>4, <2>1
<1>11. RecordsFitRuntime'
  <2>1. records # <<>> => telemetry'.runStarted = telemetry.runStarted
    BY <1>1 DEF Watched
  <2>2. \A i \in DOMAIN records : telemetry'.runStarted = telemetry.runStarted
    BY <2>1
  <2> QED
    BY <1>1, <2>2 DEF RecordsFitRuntime
<1> QED
  BY <1>9, <1>10, <1>11

(* A pass that completes: its record is its own span, after all the others. *)
LEMMA CompleteKeepsTelemetry ==
  ASSUME TelemetryInv, Complete, RunAssumption
  PROVE  (Watched /\ RecordsSpanOnePass /\ RecordsFitRuntime)'
PROOF
<1> DEFINE n == Len(passes)
           k == Len(telemetry.records)
           records == telemetry.records
           record == [phase |-> phase, completed |-> clock, started |-> Current.from]
<1> USE TelemetryTypes DEF TelemetryInv
<1>1. n \in Nat \ {0} /\ DOMAIN passes = 1..n
  <2>1. passes \in Seq(PassRecord) /\ passes # <<>>
    BY DEF TypeOK, Complete
  <2> QED
    BY <2>1, EmptySeq, LenProperties
<1>2. n \in DOMAIN passes /\ Current = passes[n] /\ Current \in PassRecord
  BY <1>1, ElementOfSeq DEF Current, TypeOK
<1>3. Current.from \in Nat /\ Current.phase = phase /\ Current.to = None
      /\ telemetry.started[phase] = Current.from
  BY <1>2 DEF TypeOK, AtWork, Current, Complete, Watched
<1>4. /\ telemetry'.records = Append(records, record)
      /\ telemetry'.runStarted = telemetry.runStarted
      /\ telemetry'.runCompleted = clock
  BY <1>3, CompletionRecorded DEF TypeOK, Complete
<1>5. record.phase = phase /\ record.completed = clock /\ record.started = Current.from
      /\ record \in Record
  BY <1>2 DEF Record, PassRecord, TypeOK
<1> HIDE DEF record
<1>6. k \in Nat /\ DOMAIN records = 1..k
  BY LenProperties
<1>7. /\ DOMAIN telemetry'.records = 1..(k + 1) /\ telemetry'.records[k + 1] = record
      /\ \A i \in 1..k : telemetry'.records[i] = records[i]
  BY <1>4, <1>5, <1>6
<1>8. passes' = [passes EXCEPT ![n] = [Current EXCEPT !.to = clock]]
  BY <1>2 DEF Complete
<1>9. /\ DOMAIN passes' = 1..n /\ \A i \in 1..n : i # n => passes'[i] = passes[i]
      /\ passes'[n].phase = phase /\ passes'[n].from = Current.from /\ passes'[n].to = clock
  <2>1. [Current EXCEPT !.to = clock].phase = Current.phase
        /\ [Current EXCEPT !.to = clock].from = Current.from
        /\ [Current EXCEPT !.to = clock].to = clock
    BY <1>2 DEF PassRecord
  <2> QED
    BY <1>1, <1>2, <1>3, <1>8, <2>1
<1>10. open' = FALSE /\ clock' = clock
  BY DEF Complete, NextTurn
<1>11. telemetry.runStarted \in Nat /\ telemetry.runStarted <= Current.from /\ Current.from <= clock
  BY <1>2 DEF Watched, Complete
<1>12. Watched'
  <2>1. \A i \in 1..n : passes'[i].from = passes[i].from
    BY <1>2, <1>9
  <2>2. \A i \in DOMAIN passes' : passes'[i].from <= clock'
    BY <1>1, <1>9, <1>10, <2>1 DEF Watched
  <2> QED
    BY <1>4, <1>10, <1>11, <2>2 DEF Watched
<1>13. RecordsSpanOnePass'
  <2> SUFFICES ASSUME NEW i \in 1..(k + 1)
               PROVE  \E j \in DOMAIN passes' :
                        LET r == telemetry'.records[i]
                        IN passes'[j].phase = r.phase /\ passes'[j].from = r.started
                           /\ passes'[j].to = r.completed
    BY <1>7 DEF RecordsSpanOnePass
  <2>1. CASE i = k + 1
    BY <1>1, <1>5, <1>7, <1>9, <2>1
  <2>2. CASE i \in 1..k
    <3>1. PICK j \in DOMAIN passes :
            passes[j].phase = records[i].phase /\ passes[j].from = records[i].started
              /\ passes[j].to = records[i].completed
      BY <1>6, <2>2 DEF RecordsSpanOnePass
    <3>2. passes[j].to # None
      BY <1>6, <2>2, <3>1
    <3>3. j # n
      BY <1>2, <1>3, <3>2
    <3> QED
      BY <1>1, <1>7, <1>9, <2>2, <3>1, <3>3
  <2> QED
    BY <1>6, <2>1, <2>2
<1>14. RecordsFitRuntime'
  <2>1. \A i \in 1..k : records[i].completed <= Current.from
    BY <1>6 DEF Watched, Complete
  <2>2. ASSUME NEW i \in 1..(k + 1), NEW j \in 1..(k + 1), i < j
        PROVE  telemetry'.records[i].completed <= telemetry'.records[j].started
    <3>1. i \in 1..k
      BY <1>6, <2>2
    <3>2. CASE j = k + 1
      BY <1>5, <1>7, <2>1, <3>1, <3>2
    <3>3. CASE j \in 1..k
      BY <1>6, <1>7, <2>2, <3>1, <3>3 DEF RecordsFitRuntime
    <3> QED
      BY <1>6, <3>2, <3>3
  <2>3. ASSUME NEW i \in 1..(k + 1)
        PROVE  /\ telemetry'.runStarted <= telemetry'.records[i].started
               /\ telemetry'.records[i].started <= telemetry'.records[i].completed
               /\ telemetry'.records[i].completed <= telemetry'.runCompleted
    <3>1. CASE i = k + 1
      BY <1>4, <1>5, <1>7, <1>11, <3>1
    <3>2. CASE i \in 1..k
      <4>1. telemetry.runStarted <= records[i].started /\ records[i].started <= records[i].completed
        BY <1>6, <3>2 DEF RecordsFitRuntime
      <4>2. records[i].completed <= clock
        BY <1>3, <1>6, <1>11, <2>1, <3>2
      <4> QED
        BY <1>4, <1>7, <3>2, <4>1, <4>2
    <3> QED
      BY <1>6, <3>1, <3>2
  <2> QED
    BY <1>7, <2>2, <2>3 DEF RecordsFitRuntime
<1> QED
  BY <1>12, <1>13, <1>14

(* A step that publishes nothing leaves the pass at work as it is, or ends it. *)
LEMMA SilenceKeepsTelemetry ==
  ASSUME TelemetryInv, UNCHANGED watch, clock' \in Nat, clock' >= clock, RunAssumption,
         open' = FALSE \/ UNCHANGED <<phase, open>>
  PROVE  (Watched /\ RecordsSpanOnePass /\ RecordsFitRuntime)'
PROOF
<1> USE TelemetryTypes DEF TelemetryInv
<1>1. telemetry' = telemetry /\ passes' = passes /\ Current' = Current
  BY DEF watch, Current
<1>2. RecordsSpanOnePass' /\ RecordsFitRuntime'
  BY <1>1 DEF RecordsSpanOnePass, RecordsFitRuntime
<1>3. Watched'
  BY <1>1 DEF Watched
<1> QED
  BY <1>2, <1>3

(* The telemetry holds spans of single passes, in their order, within the    *)
(* total runtime.                                                             *)
LEMMA TelemetryIsTrue == RunAssumption => (Spec => [](RecordsSpanOnePass /\ RecordsFitRuntime))
PROOF
<1> SUFFICES ASSUME RunAssumption PROVE Spec => [](RecordsSpanOnePass /\ RecordsFitRuntime)
  OBVIOUS
<1>1. Init => Watched /\ RecordsSpanOnePass /\ RecordsFitRuntime
  BY DEF Init, Watched, RecordsSpanOnePass, RecordsFitRuntime
<1>2. TypeOK /\ TypeOK' /\ Watched /\ RecordsSpanOnePass /\ RecordsFitRuntime /\ [Next]_vars
        => (Watched /\ RecordsSpanOnePass /\ RecordsFitRuntime)'
  <2> SUFFICES ASSUME TelemetryInv, [Next]_vars
               PROVE  (Watched /\ RecordsSpanOnePass /\ RecordsFitRuntime)'
    BY DEF TelemetryInv
  <2>1. clock \in Nat
    BY TelemetryTypes DEF TelemetryInv
  <2>2. CASE Tick
    <3>1. UNCHANGED watch /\ clock' = clock + 1 /\ UNCHANGED <<phase, open>>
      BY <2>2 DEF Tick, work
    <3> QED
      BY <2>1, <3>1, SilenceKeepsTelemetry
  <2>3. CASE Fails \/ CheckArguments \/ Finish \/ UNCHANGED vars
    <3>1. UNCHANGED watch /\ clock' = clock
      BY <2>3 DEF Fails, CheckArguments, RejectProfile, ReadValue, ValuesRead, Detect,
                  MakeScanners, ResolveCredentials, Finish, vars
    <3>2. open' = FALSE \/ UNCHANGED <<phase, open>>
      BY <2>3 DEF Fails, NextTurn, CheckArguments, RejectProfile, ReadValue, ValuesRead, Detect,
                  MakeScanners, ResolveCredentials, Finish, vars, work
    <3>3. clock' \in Nat /\ clock' >= clock
      BY <2>1, <3>1
    <3> QED
      BY <3>1, <3>2, <3>3, SilenceKeepsTelemetry
  <2> QED
    BY <2>2, <2>3, BeginKeepsTelemetry, CompleteKeepsTelemetry DEF Next, Over
<1> QED
  BY <1>1, <1>2, TypesHold, PTL DEF Spec

(* No record of the telemetry mixes two passes that share a phase, wherever  *)
(* one of them raised (RecordsSpanOnePass).                                   *)
THEOREM RecordsAreSpans == RunAssumption => (Spec => []RecordsSpanOnePass)
  BY TelemetryIsTrue, PTL

(* The records follow each other and fit the total runtime                   *)
(* (RecordsFitRuntime).                                                       *)
THEOREM RecordsFit == RunAssumption => (Spec => []RecordsFitRuntime)
  BY TelemetryIsTrue, PTL

-----------------------------------------------------------------------------
(* What is scanned *)

LEMMA LastOrEarlier == \A n \in Nat : \A i \in 1..(n + 1) : i = n + 1 \/ i \in 1..n
  OBVIOUS

Elements(s) == {s[i] : i \in DOMAIN s}

LEMMA ElementsOfTail ==
  ASSUME NEW S, NEW s \in Seq(S), s # <<>>
  PROVE  /\ Elements(s) = {Head(s)} \cup Elements(Tail(s))
         /\ Head(s) \in S /\ Tail(s) \in Seq(S)
PROOF
<1>1. Len(s) \in Nat \ {0} /\ DOMAIN s = 1..Len(s)
  BY EmptySeq, LenProperties
<1>2. /\ Tail(s) \in Seq(S) /\ Len(Tail(s)) = Len(s) - 1 /\ Head(s) \in S
      /\ \A i \in 1..Len(Tail(s)) : Tail(s)[i] = s[i + 1]
  BY HeadTailProperties
<1>3. DOMAIN Tail(s) = 1..(Len(s) - 1)
  BY <1>2, LenProperties
<1>4. Head(s) = s[1]
  OBVIOUS
<1>5. ASSUME NEW i \in DOMAIN s PROVE s[i] \in {Head(s)} \cup Elements(Tail(s))
  <2>1. i = 1 \/ (i - 1 \in DOMAIN Tail(s) /\ s[i] = Tail(s)[i - 1])
    BY <1>1, <1>2, <1>3
  <2> QED
    BY <1>4, <2>1 DEF Elements
<1>6. ASSUME NEW i \in DOMAIN Tail(s) PROVE Tail(s)[i] \in Elements(s)
  <2>1. i + 1 \in DOMAIN s /\ Tail(s)[i] = s[i + 1]
    BY <1>1, <1>2, <1>3
  <2> QED
    BY <2>1 DEF Elements
<1>7. Head(s) \in Elements(s)
  BY <1>1, <1>4 DEF Elements
<1> QED
  BY <1>2, <1>5, <1>6, <1>7 DEF Elements

LEMMA ElementsOfAppend ==
  ASSUME NEW S, NEW s \in Seq(S), NEW e
  PROVE  Elements(Append(s, e)) = Elements(s) \cup {e}
PROOF
<1>1. Len(s) \in Nat /\ DOMAIN s = 1..Len(s)
  BY LenProperties
<1>2. /\ DOMAIN Append(s, e) = 1..(Len(s) + 1) /\ Append(s, e)[Len(s) + 1] = e
      /\ \A i \in 1..Len(s) : Append(s, e)[i] = s[i]
  OBVIOUS
<1> QED
  BY <1>1, <1>2 DEF Elements

LEMMA ElementsOfNothing == Elements(<<>>) = {}
  BY DEF Elements

(* The arguments: what is still to be read, and what has become of the rest. *)
PastValues == {"detection", "providers", "credentials", "engine", "exit 0"}
Targets == Elements(networks)

ParseInv ==
  /\ stage \in {"startup", "subnets"} =>
       \A value \in Elements(request.values) :
         Canonical[value] \in Targets \/ value \in Elements(unread)
  /\ Elements(unread) \subseteq Elements(request.values)
  /\ stage = "detection" => networks = <<>>
  /\ stage \in PastValues => Asked \subseteq Targets
  /\ Targets \subseteq IF Asked # {} THEN Asked ELSE {LocalNetwork}
  /\ Asked = {} /\ Targets # {} => machine \in Machines /\ DetectLocalSubnet(machine) = LocalNetwork
  /\ \A i, j \in DOMAIN networks : networks[i] = networks[j] => i = j
  /\ stage \in {"subnets"} \cup PastValues => request.profile # "unknown"
  /\ stage \in {"engine", "exit 0"} => request.flags = {} \/ request.community

(* The passes: a network whose turn is still to come has not been scanned,   *)
(* and one that has neither been scanned nor has a turn is no target.        *)
NotYetScanned(network) == \A i \in DOMAIN passes : passes[i].owner # network

TurnsInv ==
  /\ Elements(todo) \cap Networks \subseteq Targets
  /\ Targets \subseteq Scanned \cup Elements(todo)
  /\ \A i, j \in DOMAIN todo : todo[i] \in Networks /\ todo[i] = todo[j] => i = j
  /\ \A i \in DOMAIN todo : i > 1 /\ todo[i] \in Networks => NotYetScanned(todo[i])
  /\ todo # <<>> /\ phase = "host discovery" =>
       Head(todo) \in Networks /\ (~open => NotYetScanned(Head(todo)))
  /\ todo # <<>> /\ Head(todo) \in Networks /\ phase # "host discovery" =>
       Head(todo) \in Scanned

DiscoveredOnce ==
  /\ \A i \in DOMAIN passes : passes[i].phase = "host discovery" => passes[i].owner \in Networks
  /\ \A i, j \in DOMAIN passes :
       passes[i].phase = "host discovery" /\ passes[j].phase = "host discovery"
         /\ passes[i].owner = passes[j].owner => i = j

WorkInv ==
  /\ stage = "startup" => todo = <<"startup">> /\ phase = "startup"
  /\ stage \notin {"engine", "exit 0", "traceback"} => Scanned = {}
  /\ Scanned \subseteq Targets
  /\ Scanned # {} => ~HasError
  /\ stage = "engine" => TurnsInv
  /\ stage = "exit 0" => Targets \subseteq Scanned /\ Targets # {}
  /\ DiscoveredOnce

(* Together they say what ScansWhatWasAsked says. *)
LEMMA AskedFollows ==
  ASSUME ParseInv, WorkInv
  PROVE  ScansWhatWasAsked
PROOF
<1>1. Scanned # {} => IF Asked # {} THEN Scanned \subseteq Asked
                      ELSE machine \in Machines /\ Scanned = {DetectLocalSubnet(machine)}
  <2>1. CASE Asked # {}
    BY <2>1 DEF ParseInv, WorkInv
  <2>2. CASE Asked = {}
    BY <2>2 DEF ParseInv, WorkInv
  <2> QED
    BY <2>1, <2>2
<1>2. stage = "exit 0" => Scanned # {} /\ Asked \subseteq Scanned
  BY DEF ParseInv, WorkInv, PastValues
<1>3. HasError \/ stage = "exit 2" => Scanned = {}
  BY DEF WorkInv
<1> QED
  BY <1>1, <1>2, <1>3 DEF WorkInv, DiscoveredOnce, ScansWhatWasAsked

LEMMA AskedInit ==
  ASSUME Init
  PROVE  ParseInv /\ WorkInv
PROOF
<1>1. Targets = {} /\ Scanned = {} /\ DOMAIN passes = {} /\ DOMAIN networks = {}
  BY ElementsOfNothing DEF Init, Targets, Scanned
<1>2. ParseInv
  BY <1>1 DEF Init, ParseInv, PastValues
<1>3. WorkInv
  BY <1>1 DEF Init, WorkInv, DiscoveredOnce
<1> QED
  BY <1>2, <1>3

(* A run that reaches the engine has no error in its request. *)
LEMMA NoErrorScanning ==
  ASSUME TypeOK, RunAssumption, ParseInv, stage = "engine"
  PROVE  ~HasError
PROOF
<1>1. Targets \subseteq Networks
  BY LenProperties, ElementOfSeq DEF Targets, Elements, TypeOK
<1>2. None \notin Networks
  BY DEF RunAssumption
<1> QED
  BY <1>1, <1>2 DEF ParseInv, PastValues, HasError

(* The next turn, when the one that ends needs no scan any more. *)
SameOwners ==
  /\ DOMAIN passes' = DOMAIN passes
  /\ \A i \in DOMAIN passes : passes'[i].owner = passes[i].owner /\ passes'[i].phase = passes[i].phase

LEMMA TurnTaken ==
  ASSUME TypeOK, RunAssumption, TurnsInv, NextTurn, todo # <<>>, SameOwners, networks' = networks,
         Head(todo) \in Networks => Head(todo) \in Scanned
  PROVE  TurnsInv'
PROOF
<1>1. /\ Elements(todo) = {Head(todo)} \cup Elements(todo') /\ todo' = Tail(todo)
      /\ todo' \in Seq(Owners)
  BY ElementsOfTail DEF TypeOK, NextTurn
<1>2. Scanned' = Scanned /\ Targets' = Targets
  BY DEF SameOwners, Scanned, Targets, Elements
<1>3. \A x : NotYetScanned(x) => \A i \in DOMAIN passes' : passes'[i].owner # x
  BY DEF NotYetScanned, SameOwners
<1>4. ASSUME NEW i \in DOMAIN todo'
      PROVE  i + 1 \in DOMAIN todo /\ todo'[i] = todo[i + 1] /\ i \in Nat /\ i > 0
  <2>1. Len(todo) \in Nat /\ Len(todo') = Len(todo) - 1 /\ DOMAIN todo = 1..Len(todo)
        /\ DOMAIN todo' = 1..Len(todo') /\ \A j \in 1..Len(todo') : todo'[j] = todo[j + 1]
    BY <1>1, HeadTailProperties, LenProperties DEF TypeOK
  <2> QED
    BY <2>1
<1>5. Elements(todo') \cap Networks \subseteq Targets'
  BY <1>1, <1>2 DEF TurnsInv
<1>6. Targets' \subseteq Scanned' \cup Elements(todo')
  <2>1. \A x \in Targets : x \in Networks
    BY LenProperties, ElementOfSeq DEF Targets, Elements, TypeOK
  <2> QED
    BY <1>1, <1>2, <2>1 DEF TurnsInv
<1>7. \A i, j \in DOMAIN todo' : todo'[i] \in Networks /\ todo'[i] = todo'[j] => i = j
  <2> SUFFICES ASSUME NEW i \in DOMAIN todo', NEW j \in DOMAIN todo',
                      todo'[i] \in Networks, todo'[i] = todo'[j]
               PROVE  i = j
    OBVIOUS
  <2>0. \A a, b \in DOMAIN todo : todo[a] \in Networks /\ todo[a] = todo[b] => a = b
    BY DEF TurnsInv
  <2>1. i + 1 = j + 1
    <3>1. i + 1 \in DOMAIN todo /\ j + 1 \in DOMAIN todo
      BY <1>4
    <3>2. todo[i + 1] \in Networks /\ todo[i + 1] = todo[j + 1]
      BY <1>4
    <3> QED
      BY <2>0, <3>1, <3>2
  <2> QED
    BY <1>4, <2>1
<1>8. \A i \in DOMAIN todo' : todo'[i] \in Networks =>
        \A k \in DOMAIN passes' : passes'[k].owner # todo'[i]
  <2> SUFFICES ASSUME NEW i \in DOMAIN todo', todo'[i] \in Networks
               PROVE  NotYetScanned(todo[i + 1])
    BY <1>3, <1>4
  <2>1. \A k \in DOMAIN todo : k > 1 /\ todo[k] \in Networks => NotYetScanned(todo[k])
    BY DEF TurnsInv
  <2>2. i + 1 \in DOMAIN todo /\ i + 1 > 1 /\ todo[i + 1] \in Networks
    BY <1>4
  <2> QED
    BY <2>1, <2>2
<1>9. todo' # <<>> => 1 \in DOMAIN todo' /\ Head(todo') = todo'[1] /\ Head(todo') \in Owners
                        /\ phase' = FirstPhase(Head(todo'))
  BY <1>1, EmptySeq, LenProperties, HeadTailProperties DEF NextTurn
<1>10. \A owner \in Owners : (FirstPhase(owner) = "host discovery" <=> owner \in Networks)
  BY DEF FirstPhase, Owners, Tasks
<1>11. todo' # <<>> /\ phase' = "host discovery" =>
         Head(todo') \in Networks /\ \A k \in DOMAIN passes' : passes'[k].owner # Head(todo')
  BY <1>8, <1>9, <1>10
<1>12. todo' # <<>> /\ Head(todo') \in Networks => phase' = "host discovery"
  BY <1>9, <1>10
<1> QED
  BY <1>5, <1>6, <1>7, <1>8, <1>11, <1>12 DEF TurnsInv, NotYetScanned

(* A pass that begins is a target's, or no scan; a host discovery is the     *)
(* first of its network.                                                     *)
LEMMA BeginKeepsAsked ==
  ASSUME TypeOK, RunAssumption, ParseInv, WorkInv, Begin
  PROVE  WorkInv'
PROOF
<1> DEFINE n == Len(passes)
           pass == [owner |-> Head(todo), phase |-> phase, from |-> clock, to |-> None]
<1>1. passes \in Seq(PassRecord) /\ passes' = Append(passes, pass)
  BY DEF Begin, TypeOK
<1>2. n \in Nat /\ DOMAIN passes = 1..n
  BY <1>1, LenProperties
<1>3. /\ DOMAIN passes' = 1..(n + 1) /\ passes'[n + 1] = pass
      /\ \A i \in 1..n : passes'[i] = passes[i]
  BY <1>1, <1>2
<1>4. pass.owner = Head(todo) /\ pass.phase = phase
  OBVIOUS
<1> HIDE DEF pass
<1>5. Scanned' = Scanned \cup ({Head(todo)} \cap Networks)
  BY <1>2, <1>3, <1>4 DEF Scanned
<1>6. /\ todo # <<>> /\ stage' = stage /\ todo' = todo /\ phase' = phase /\ ~open /\ open' = TRUE
      /\ Targets' = Targets /\ request' = request /\ machine' = machine
      /\ stage \in {"startup", "engine"}
  BY DEF Begin, Working, input, parse, Targets
<1>7. HasError' = HasError
  BY <1>6 DEF HasError, Asked
<1>8. CASE stage = "startup"
  <2>0. todo = <<"startup">> /\ phase = "startup"
    BY <1>8 DEF WorkInv
  <2>1. Head(todo) = "startup" /\ phase = "startup"
    BY <2>0
  <2>2. "startup" \notin Networks
    BY DEF RunAssumption, Tasks
  <2>3. Scanned' = {}
    BY <1>5, <1>8, <2>1, <2>2 DEF WorkInv
  <2>4. \A i \in DOMAIN passes' : passes'[i].phase = "host discovery" => i \in DOMAIN passes
    <3> SUFFICES ASSUME NEW i \in 1..(n + 1), passes'[i].phase = "host discovery"
                 PROVE  i \in 1..n
      BY <1>2, <1>3
    <3>1. i # n + 1
      BY <1>3, <1>4, <2>1
    <3> QED
      BY <1>2, <3>1, LastOrEarlier
  <2> QED
    BY <1>2, <1>3, <1>6, <1>8, <2>3, <2>4 DEF WorkInv, DiscoveredOnce
<1>9. CASE stage = "engine"
  <2>1. TurnsInv
    BY <1>9 DEF WorkInv
  <2>2. Head(todo) \in Elements(todo)
    BY <1>6, ElementsOfTail DEF TypeOK
  <2>3. Scanned' \subseteq Targets
    BY <1>5, <2>1, <2>2 DEF WorkInv, TurnsInv
  <2>4. 1 \in DOMAIN todo /\ Head(todo) = todo[1] /\ DOMAIN todo = 1..Len(todo) /\ Len(todo) \in Nat
    BY <1>6, EmptySeq, LenProperties DEF TypeOK
  <2>5. ASSUME NEW i \in DOMAIN todo, i > 1, todo[i] \in Networks
        PROVE  \A k \in DOMAIN passes' : passes'[k].owner # todo[i]
    <3>1. NotYetScanned(todo[i])
      BY <2>1, <2>5 DEF TurnsInv
    <3>2. todo[i] # Head(todo)
      <4>1. \A a, b \in DOMAIN todo : todo[a] \in Networks /\ todo[a] = todo[b] => a = b
        BY <2>1 DEF TurnsInv
      <4> QED
        BY <2>4, <2>5, <4>1
    <3> QED
      BY <1>2, <1>3, <1>4, <3>1, <3>2 DEF NotYetScanned
  <2>6. Targets \subseteq Scanned' \cup Elements(todo)
    BY <1>5, <2>1 DEF TurnsInv
  <2>7. Head(todo) \in Networks => Head(todo) \in Scanned'
    BY <1>5
  <2>8. TurnsInv'
    BY <1>6, <2>1, <2>5, <2>6, <2>7 DEF TurnsInv, NotYetScanned
  <2>9. ASSUME phase = "host discovery"
        PROVE  Head(todo) \in Networks /\ \A k \in 1..n : passes[k].owner # Head(todo)
    BY <1>2, <1>6, <2>1, <2>9 DEF TurnsInv, NotYetScanned
  <2>10. \A i \in DOMAIN passes' : passes'[i].phase = "host discovery" => passes'[i].owner \in Networks
    <3> SUFFICES ASSUME NEW i \in 1..(n + 1), passes'[i].phase = "host discovery"
                 PROVE  passes'[i].owner \in Networks
      BY <1>3
    <3>1. CASE i = n + 1
      BY <1>3, <1>4, <2>9, <3>1
    <3>2. CASE i \in 1..n
      BY <1>2, <1>3, <3>2 DEF WorkInv, DiscoveredOnce
    <3> QED
      BY <1>2, <3>1, <3>2, LastOrEarlier
  <2>11. ASSUME NEW i \in DOMAIN passes', NEW j \in DOMAIN passes',
                passes'[i].phase = "host discovery", passes'[j].phase = "host discovery",
                passes'[i].owner = passes'[j].owner
         PROVE  i = j
    <3>1. CASE i \in 1..n /\ j \in 1..n
      BY <1>2, <1>3, <2>11, <3>1 DEF WorkInv, DiscoveredOnce
    <3>2. CASE i = n + 1 /\ j \in 1..n
      BY <1>3, <1>4, <2>9, <2>11, <3>2
    <3>3. CASE j = n + 1 /\ i \in 1..n
      BY <1>3, <1>4, <2>9, <2>11, <3>3
    <3>4. CASE i = n + 1 /\ j = n + 1
      BY <3>4
    <3> QED
      BY <1>2, <1>3, <3>1, <3>2, <3>3, <3>4
  <2>12. ~HasError'
    BY <1>7, <1>9, NoErrorScanning
  <2> QED
    BY <1>6, <1>9, <2>3, <2>8, <2>10, <2>11, <2>12 DEF WorkInv, DiscoveredOnce
<1> QED
  BY <1>6, <1>8, <1>9

(* What a step that starts no pass leaves of the passes. *)
LEMMA OwnersStay ==
  ASSUME SameOwners, request' = request
  PROVE  /\ Scanned' = Scanned /\ HasError' = HasError
         /\ \A x : NotYetScanned(x)' <=> NotYetScanned(x)
         /\ DiscoveredOnce => DiscoveredOnce'
PROOF
<1>1. Scanned' = Scanned
  BY DEF SameOwners, Scanned
<1>2. HasError' = HasError
  BY DEF HasError, Asked
<1>3. \A x : NotYetScanned(x)' <=> NotYetScanned(x)
  BY DEF SameOwners, NotYetScanned
<1>4. DiscoveredOnce => DiscoveredOnce'
  BY DEF SameOwners, DiscoveredOnce
<1> QED
  BY <1>1, <1>2, <1>3, <1>4

LEMMA CompleteKeepsAsked ==
  ASSUME TypeOK, RunAssumption, ParseInv, WorkInv, Complete
  PROVE  ParseInv' /\ WorkInv'
PROOF
<1> DEFINE n == Len(passes)
<1>1. /\ stage \in {"startup", "engine"} /\ todo # <<>> /\ open /\ open' = FALSE
      /\ request' = request /\ machine' = machine /\ unread' = unread /\ networks' = networks
      /\ Targets' = Targets /\ Asked' = Asked
  BY DEF Complete, NextTurn, Working, input, parse, Targets, Asked
<1>2. n \in DOMAIN passes
  <2>1. passes \in Seq(PassRecord) /\ passes # <<>>
    BY <1>1 DEF TypeOK
  <2> QED
    BY <2>1, EmptySeq, LenProperties
<1>3. passes[n] \in PassRecord /\ passes[n].owner = Head(todo)
  BY <1>1, <1>2, LenProperties, ElementOfSeq DEF TypeOK, AtWork
<1>4. SameOwners
  <2>1. passes' = [passes EXCEPT ![n] = [passes[n] EXCEPT !.to = clock]]
    BY DEF Complete
  <2>2. /\ [passes[n] EXCEPT !.to = clock].owner = passes[n].owner
        /\ [passes[n] EXCEPT !.to = clock].phase = passes[n].phase
    BY <1>3 DEF PassRecord
  <2> QED
    BY <1>2, <2>1, <2>2 DEF SameOwners
<1>5. Head(todo) \in Networks => Head(todo) \in Scanned
  BY <1>2, <1>3 DEF Scanned
<1>6. CASE stage = "startup"
  <2>1. stage' = "subnets" /\ request.profile # "unknown"
    BY <1>6 DEF Complete
  <2>2. ParseInv'
    BY <1>1, <1>6, <2>1 DEF ParseInv, PastValues
  <2>3. Scanned' = {}
    BY <1>1, <1>4, <1>6, OwnersStay DEF WorkInv
  <2> QED
    BY <1>1, <1>4, <2>1, <2>2, <2>3, OwnersStay DEF WorkInv
<1>7. CASE stage = "engine"
  <2>1. stage' = "engine"
    BY <1>7 DEF Complete
  <2>2. ParseInv'
    BY <1>1, <1>7, <2>1 DEF ParseInv, PastValues
  <2>3. TurnsInv
    BY <1>7 DEF WorkInv
  <2>4. NextTurn \/ (phase = "host discovery" /\ phase' = "service enrichment" /\ todo' = todo)
    BY DEF Complete
  <2>5. ASSUME phase' = "service enrichment", todo' = todo
        PROVE  TurnsInv'
    <3>1. Scanned' = Scanned /\ \A x : NotYetScanned(x)' <=> NotYetScanned(x)
      BY <1>1, <1>4, OwnersStay
    <3> DEFINE Later == \A i \in DOMAIN todo : i > 1 /\ todo[i] \in Networks => NotYetScanned(todo[i])
    <3>2. Later'
      BY <2>3, <2>5, <3>1 DEF TurnsInv
    <3> QED
      BY <1>1, <1>5, <2>3, <2>5, <3>1, <3>2 DEF TurnsInv
  <2>6. TurnsInv'
    BY <1>1, <1>4, <1>5, <2>3, <2>4, <2>5, TurnTaken
  <2> QED
    BY <1>1, <1>4, <1>7, <2>1, <2>2, <2>6, OwnersStay DEF WorkInv
<1> QED
  BY <1>1, <1>6, <1>7

LEMMA FailsKeepsAsked ==
  ASSUME TypeOK, RunAssumption, ParseInv, WorkInv, Fails
  PROVE  ParseInv' /\ WorkInv'
PROOF
<1>1. /\ request' = request /\ machine' = machine /\ unread' = unread /\ networks' = networks
      /\ Targets' = Targets /\ Asked' = Asked /\ SameOwners /\ todo # <<>>
      /\ stage \in {"startup", "engine"}
  BY DEF Fails, Working, input, parse, watch, Targets, Asked, SameOwners
<1>2. CASE Head(todo) \in Enrichers
  <2>1. Head(todo) \notin Networks /\ "startup" \notin Enrichers
    BY <1>2 DEF RunAssumption, Enrichers
  <2>2. stage = "engine" /\ stage' = "engine" /\ NextTurn
    <3>1. todo = <<"startup">> => Head(todo) \notin Enrichers
      BY <2>1
    <3> QED
      BY <1>1, <1>2, <3>1 DEF Fails, WorkInv
  <2>3. TurnsInv'
    BY <1>1, <2>1, <2>2, TurnTaken DEF WorkInv
  <2>4. ParseInv'
    BY <1>1, <2>2 DEF ParseInv, PastValues
  <2> QED
    BY <1>1, <2>2, <2>3, <2>4, OwnersStay DEF WorkInv
<1>3. CASE Head(todo) \notin Enrichers
  <2>1. stage' = "traceback"
    BY <1>3 DEF Fails
  <2>2. ParseInv'
    BY <1>1, <2>1 DEF ParseInv, PastValues
  <2>3. Scanned' = Scanned /\ HasError' = HasError /\ (DiscoveredOnce => DiscoveredOnce')
    BY <1>1, OwnersStay
  <2> QED
    BY <1>1, <2>1, <2>2, <2>3 DEF WorkInv
<1> QED
  BY <1>2, <1>3

LEMMA FinishKeepsAsked ==
  ASSUME TypeOK, RunAssumption, ParseInv, WorkInv, Finish
  PROVE  ParseInv' /\ WorkInv'
PROOF
<1>1. /\ request' = request /\ machine' = machine /\ unread' = unread /\ networks' = networks
      /\ Targets' = Targets /\ Asked' = Asked /\ SameOwners /\ todo = <<>>
      /\ stage = "engine" /\ stage' \in {"exit 0", "traceback"}
  BY DEF Finish, input, parse, watch, Targets, Asked, SameOwners
<1>2. ParseInv'
  BY <1>1 DEF ParseInv, PastValues
<1>3. Targets \subseteq Scanned
  BY <1>1, ElementsOfNothing DEF WorkInv, TurnsInv
<1>4. Targets # {}
  <2>1. networks \in Seq(Networks) /\ networks # <<>>
    BY <1>1 DEF TypeOK
  <2>2. networks[1] \in Targets
    BY <2>1, EmptySeq, LenProperties DEF Targets, Elements
  <2> QED
    BY <2>2
<1> QED
  <2>1. Scanned' = Scanned /\ HasError' = HasError /\ (DiscoveredOnce => DiscoveredOnce')
    BY <1>1, OwnersStay
  <2> QED
    BY <1>1, <1>2, <1>3, <1>4, <2>1 DEF WorkInv

(* One value of --subnet: it becomes a target, or the run ends. *)
LEMMA ReadValueKeepsParsed ==
  ASSUME TypeOK, RunAssumption, ParseInv, ReadValue
  PROVE  ParseInv'
PROOF
<1> DEFINE network == Canonical[Head(unread)]
<1>1. /\ stage = "subnets" /\ unread # <<>> /\ unread' = Tail(unread)
      /\ request' = request /\ machine' = machine /\ Asked' = Asked
  BY DEF ReadValue, input, Asked
<1>2. Elements(unread) = {Head(unread)} \cup Elements(unread')
  BY <1>1, ElementsOfTail DEF TypeOK
<1>3. PICK v \in DOMAIN request.values : request.values[v] = Head(unread)
  <2>1. Head(unread) \in Elements(request.values)
    BY <1>2 DEF ParseInv
  <2> QED
    BY <2>1 DEF Elements
<1>4. network \in Asked
  BY <1>3 DEF Asked
<1>5. networks \in Seq(Networks)
  BY DEF TypeOK
<1>6. CASE network = None
  <2>1. stage' = "exit 2" /\ networks' = networks
    BY <1>6 DEF ReadValue
  <2> QED
    BY <1>1, <1>2, <2>1 DEF ParseInv, PastValues, Targets
<1>7. CASE network # None
  <2>1. stage' = "subnets"
    BY <1>1, <1>7 DEF ReadValue
  <2>2. Targets' = Targets \cup {network}
        /\ \A i, j \in DOMAIN networks' : networks'[i] = networks'[j] => i = j
    <3>1. CASE \E i \in DOMAIN networks : networks[i] = network
      <4>1. networks' = networks
        BY <1>7, <3>1 DEF ReadValue
      <4>2. network \in Targets
        BY <3>1 DEF Targets, Elements
      <4> QED
        BY <4>1, <4>2 DEF ParseInv, Targets
    <3>2. CASE ~ \E i \in DOMAIN networks : networks[i] = network
      <4>1. networks' = Append(networks, network)
        BY <1>7, <3>2 DEF ReadValue
      <4> HIDE DEF network
      <4>2. Targets' = Targets \cup {network}
        BY <1>5, <4>1, ElementsOfAppend DEF Targets
      <4>3. Len(networks) \in Nat /\ DOMAIN networks = 1..Len(networks)
        BY <1>5, LenProperties
      <4>4. /\ DOMAIN networks' = 1..(Len(networks) + 1) /\ networks'[Len(networks) + 1] = network
            /\ \A i \in 1..Len(networks) : networks'[i] = networks[i]
        BY <1>5, <4>1, <4>3
      <4>5. \A i, j \in 1..Len(networks) : networks'[i] = networks'[j] => i = j
        BY <4>3, <4>4 DEF ParseInv
      <4>6. \A i \in 1..Len(networks) : networks'[i] # network
        BY <3>2, <4>3, <4>4
      <4> QED
        BY <4>2, <4>3, <4>4, <4>5, <4>6, LastOrEarlier
    <3> QED
      BY <3>1, <3>2
  <2>3. \A value \in Elements(request.values) :
          Canonical[value] \in Targets' \/ value \in Elements(unread')
    BY <1>1, <1>2, <2>2 DEF ParseInv
  <2>4. Targets' \subseteq IF Asked # {} THEN Asked ELSE {LocalNetwork}
    BY <1>4, <2>2 DEF ParseInv
  <2> HIDE DEF network
  <2> QED
    BY <1>1, <1>2, <1>4, <2>1, <2>2, <2>3, <2>4 DEF ParseInv, PastValues
<1> QED
  BY <1>6, <1>7

(* Where nothing more is parsed, all stays as it is. *)
LEMMA ParseStays ==
  ASSUME ParseInv, request' = request, machine' = machine, unread' = unread, networks' = networks,
         \/ stage' = stage \/ stage' \in {"exit 2", "traceback"}
         \/ stage = "providers" /\ stage' = "credentials"
         \/ /\ stage = "credentials" /\ stage' = "engine"
            /\ request.flags = {} \/ request.community
  PROVE  ParseInv'
PROOF
<1>1. Targets' = Targets /\ Asked' = Asked
  BY DEF Targets, Asked
<1> QED
  BY <1>1 DEF ParseInv, PastValues

(* Every way past the arguments, or out of them. *)
LEMMA ArgumentsKeepParsed ==
  ASSUME TypeOK, RunAssumption, ParseInv, WorkInv, CheckArguments
  PROVE  ParseInv'
PROOF
<1>1. CASE RejectProfile
  BY <1>1, ParseStays DEF RejectProfile, input, parse
<1>2. CASE ReadValue
  BY <1>2, ReadValueKeepsParsed
<1>3. CASE ValuesRead
  <2>1. /\ stage = "subnets" /\ unread = <<>> /\ request' = request /\ machine' = machine
        /\ unread' = unread /\ networks' = networks /\ Targets' = Targets /\ Asked' = Asked
        /\ stage' = IF networks = <<>> THEN "detection" ELSE "providers"
    BY <1>3 DEF ValuesRead, input, parse, Targets, Asked
  <2>2. \A value \in Elements(request.values) : Canonical[value] \in Targets
    BY <2>1, ElementsOfNothing DEF ParseInv
  <2>3. Asked \subseteq Targets
    BY <2>2 DEF Asked, Elements
  <2> QED
    BY <2>1, <2>3 DEF ParseInv, PastValues
<1>4. CASE Detect
  <2>1. /\ stage = "detection" /\ networks = <<>> /\ Targets = {} /\ Asked = {}
        /\ request' = request /\ unread' = unread /\ Asked' = Asked
    BY <1>4, ElementsOfNothing DEF Detect, ParseInv, PastValues, Targets, Asked
  <2>2. CASE networks' = networks /\ stage' \in {"exit 2", "traceback"}
    <3>1. Targets' = {}
      BY <2>1, <2>2 DEF Targets
    <3> QED
      BY <2>1, <2>2, <3>1 DEF ParseInv, PastValues
  <2>3. CASE /\ networks' = <<LocalNetwork>> /\ stage' = "providers"
             /\ DetectLocalSubnet(machine') # None
    <3>1. Targets' = {LocalNetwork}
      BY <2>3 DEF Targets, Elements
    <3>2. machine' \in Machines /\ DetectLocalSubnet(machine') = LocalNetwork
      BY <1>4, <2>3 DEF Detect, DetectLocalSubnet
    <3>3. (DetectLocalSubnet(machine) = LocalNetwork)'
      BY <3>2 DEF DetectLocalSubnet, Rejected, DetectedPrefix
    <3>4. \A i, j \in DOMAIN networks' : networks'[i] = networks'[j] => i = j
      BY <2>3
    <3> QED
      BY <2>1, <2>3, <3>1, <3>2, <3>3, <3>4 DEF ParseInv, PastValues
  <2> QED
    BY <1>4, <2>2, <2>3 DEF Detect
<1>5. CASE MakeScanners
  BY <1>5, ParseStays DEF MakeScanners, input, parse
<1>6. CASE ResolveCredentials
  BY <1>6, ParseStays DEF ResolveCredentials, input, parse
<1> QED
  BY <1>1, <1>2, <1>3, <1>4, <1>5, <1>6 DEF CheckArguments

(* The engine starts with one turn for each target. *)
LEMMA ScheduleIsTurns ==
  ASSUME TypeOK, RunAssumption, ParseInv, networks # <<>>, Scanned = {}
  PROVE  /\ Elements(Schedule) \cap Networks \subseteq Targets
         /\ Targets \subseteq Elements(Schedule)
         /\ \A i, j \in DOMAIN Schedule :
              Schedule[i] \in Networks /\ Schedule[i] = Schedule[j] => i = j
         /\ \A x \in Networks : NotYetScanned(x)
         /\ Head(Schedule) \in Networks
PROOF
<1> DEFINE n == Len(networks)
<1>1. networks \in Seq(Networks)
  BY DEF TypeOK
<1>2. n \in Nat \ {0} /\ DOMAIN networks = 1..n
  BY <1>1, EmptySeq, LenProperties
<1>3. /\ Schedule \in Seq(Owners) /\ Len(Schedule) > n
      /\ \A i \in 1..n : Schedule[i] = networks[i]
      /\ \A i \in (n + 1)..Len(Schedule) : Schedule[i] \in Enrichers \cup Tasks
  BY <1>1, ScheduleScans
<1>4. Len(Schedule) \in Nat /\ DOMAIN Schedule = 1..Len(Schedule)
  BY <1>3, LenProperties
<1>5. Head(Schedule) = Schedule[1]
  OBVIOUS
<1> HIDE DEF n
<1>6. \A i \in DOMAIN Schedule : Schedule[i] \in Networks => i \in 1..n
  <2>1. \A i \in DOMAIN Schedule : i \in 1..n \/ i \in (n + 1)..Len(Schedule)
    BY <1>2, <1>4
  <2> QED
    BY <1>3, <2>1 DEF RunAssumption
<1>7. \A i \in 1..n : i \in DOMAIN Schedule /\ networks[i] \in Networks
  BY <1>1, <1>2, <1>3, <1>4, ElementOfSeq DEF n
<1>8. Elements(Schedule) \cap Networks \subseteq Targets
  BY <1>2, <1>3, <1>6 DEF Elements, Targets
<1>9. Targets \subseteq Elements(Schedule)
  BY <1>2, <1>3, <1>7 DEF Elements, Targets
<1>10. \A i, j \in DOMAIN Schedule :
         Schedule[i] \in Networks /\ Schedule[i] = Schedule[j] => i = j
  <2> SUFFICES ASSUME NEW i \in DOMAIN Schedule, NEW j \in DOMAIN Schedule,
                      Schedule[i] \in Networks, Schedule[i] = Schedule[j]
               PROVE  i = j
    OBVIOUS
  <2>1. i \in 1..n /\ j \in 1..n
    BY <1>6
  <2>2. networks[i] = networks[j]
    BY <1>3, <2>1
  <2> QED
    BY <1>2, <2>1, <2>2 DEF ParseInv
<1>11. \A x \in Networks : NotYetScanned(x)
  BY DEF NotYetScanned, Scanned
<1>12. Head(Schedule) \in Networks
  BY <1>2, <1>3, <1>5, <1>7
<1> QED
  BY <1>8, <1>9, <1>10, <1>11, <1>12

LEMMA ArgumentsKeepWork ==
  ASSUME TypeOK, RunAssumption, ParseInv, WorkInv, CheckArguments
  PROVE  WorkInv'
PROOF
<1>1. SameOwners /\ request' = request
  BY DEF CheckArguments, RejectProfile, ReadValue, ValuesRead, Detect, MakeScanners,
         ResolveCredentials, SameOwners, watch, input
<1>2. /\ Scanned' = Scanned /\ HasError' = HasError /\ (DiscoveredOnce => DiscoveredOnce')
      /\ \A x : NotYetScanned(x)' <=> NotYetScanned(x)
  BY <1>1, OwnersStay
<1>3. /\ stage \in {"startup", "subnets", "detection", "providers", "credentials"}
      /\ stage' \in {"subnets", "detection", "providers", "credentials", "engine",
                     "exit 2", "traceback"}
  BY DEF CheckArguments, RejectProfile, ReadValue, ValuesRead, Detect, MakeScanners,
         ResolveCredentials
<1>4. Scanned = {}
  BY <1>3 DEF WorkInv
<1>5. CASE stage' # "engine"
  BY <1>2, <1>3, <1>4, <1>5 DEF WorkInv
<1>6. CASE stage' = "engine"
  <2>1. ResolveCredentials
    BY <1>3, <1>6 DEF CheckArguments, RejectProfile, ReadValue, ValuesRead, Detect, MakeScanners
  <2>2. /\ todo' = Schedule /\ phase' = "host discovery" /\ open' = FALSE /\ networks' = networks
        /\ networks # <<>> /\ Targets' = Targets
    BY <1>6, <2>1 DEF ResolveCredentials, parse, TypeOK, Targets
  <2>3. TurnsInv'
    <3> DEFINE turns == Schedule
    <3>1. /\ Elements(turns) \cap Networks \subseteq Targets /\ Targets \subseteq Elements(turns)
          /\ \A i, j \in DOMAIN turns : turns[i] \in Networks /\ turns[i] = turns[j] => i = j
          /\ \A x \in Networks : NotYetScanned(x)
          /\ Head(turns) \in Networks
      BY <1>4, <2>2, ScheduleIsTurns
    <3>2. todo' = turns
      BY <2>2
    <3> HIDE DEF turns
    <3>3. /\ Elements(todo') \cap Networks \subseteq Targets' /\ Targets' \subseteq Elements(todo')
          /\ \A i, j \in DOMAIN todo' : todo'[i] \in Networks /\ todo'[i] = todo'[j] => i = j
          /\ Head(todo') \in Networks
      BY <2>2, <3>1, <3>2
    <3>4. \A x \in Networks : NotYetScanned(x)'
      BY <1>2, <3>1
    <3> QED
      BY <1>2, <2>2, <3>3, <3>4 DEF TurnsInv
  <2> QED
    BY <1>2, <1>4, <1>6, <2>3 DEF WorkInv
<1> QED
  BY <1>5, <1>6

(* Whatever the values, the platform and the failures: nothing but what was  *)
(* asked for is scanned, every network once, none for a request with an      *)
(* error (ScansWhatWasAsked).                                                 *)
THEOREM OnlyAskedIsScanned == RunAssumption => (Spec => []ScansWhatWasAsked)
PROOF
<1> SUFFICES ASSUME RunAssumption PROVE Spec => []ScansWhatWasAsked
  OBVIOUS
<1>1. Init => ParseInv /\ WorkInv
  BY AskedInit
<1>2. TypeOK /\ ParseInv /\ WorkInv /\ [Next]_vars => (ParseInv /\ WorkInv)'
  <2> SUFFICES ASSUME TypeOK, ParseInv, WorkInv, [Next]_vars PROVE ParseInv' /\ WorkInv'
    OBVIOUS
  <2>1. CASE Begin
    <3>1. ParseInv'
      BY <2>1, ParseStays DEF Begin, input, parse
    <3> QED
      BY <2>1, <3>1, BeginKeepsAsked
  <2>2. CASE Tick \/ UNCHANGED vars
    <3>1. UNCHANGED <<request, machine, stage, unread, networks, todo, phase, open, passes>>
      BY <2>2 DEF Tick, vars, input, parse, work, watch
    <3>2. ParseInv'
      BY <3>1, ParseStays
    <3>3. TurnsInv' <=> TurnsInv
      BY <3>1 DEF TurnsInv, NotYetScanned, Targets, Scanned
    <3>4. WorkInv'
      <4>1. Targets' = Targets /\ Scanned' = Scanned /\ HasError' = HasError
            /\ (DiscoveredOnce' <=> DiscoveredOnce)
        BY <3>1 DEF DiscoveredOnce, Targets, Scanned, HasError, Asked
      <4> QED
        BY <3>1, <3>3, <4>1 DEF WorkInv
    <3> QED
      BY <3>2, <3>4
  <2> QED
    BY <2>1, <2>2, CompleteKeepsAsked, FailsKeepsAsked, FinishKeepsAsked, ArgumentsKeepParsed,
       ArgumentsKeepWork DEF Next, Over
<1>3. ParseInv /\ WorkInv => ScansWhatWasAsked
  BY AskedFollows
<1> QED
  BY <1>1, <1>2, <1>3, TypesHold, PTL DEF Spec
=============================================================================
