----------------------------- MODULE Benchmark -----------------------------
(***************************************************************************)
(* The developer tools that judge the classifier: `benchmark` classifies   *)
(* the recorded devices of a dataset, counts verdicts against expected     *)
(* results and writes a report; `validate --all` does so for every dataset;*)
(* `compare` reads two reports.  Each command is a process of its own: the *)
(* datasets, which developers edit between commands, and the report files  *)
(* are all that lasts.  A command may die at any step.                     *)
(***************************************************************************)
EXTENDS DeviceClassifier, FiniteSets, Functions, Bags

CONSTANTS Datasets,      \* names of the datasets, in sorted order
          Contents,      \* Contents[d]: what the directory of d may hold
          Outputs,       \* --output directories; the first is the default one
          MaxCommands,   \* bound: commands given
          None

(***************************************************************************)
(* A dataset directory: "absent", a file that does not parse ("invalid"),  *)
(* a record that lacks a key ("incomplete"), or "good"; its devices in     *)
(* order, each [ip, evidence]; the expected type of some IP addresses.     *)
(***************************************************************************)
Names == {Datasets[i] : i \in 1..Len(Datasets)}

ASSUME BenchmarkAssumption ==
  /\ Datasets \in Seq(STRING) /\ Len(Outputs) > 0 /\ MaxCommands \in Nat
  /\ \A d \in Names : \A c \in Contents[d] :
       /\ Len(c.cases) \in Nat
       /\ \A i \in 1..Len(c.cases) : c.cases[i].evidence \in Evidence

VARIABLES dataset,     \* the dataset directories
          reports,     \* <<output, dataset>> -> a report, or Torn
          commands,    \* how many commands were given
          phase,       \* what the running command does next
          output,      \* its output directory
          queue,       \* datasets it still has to benchmark
          devices,     \* devices loaded: [ip, evidence, type]
          tally,       \* the counts so far
          passed,      \* whether everything passed so far
          exit,        \* how the last command ended
          comparison   \* what the last command compared, or None

vars == <<dataset, reports, commands, phase, output, queue, devices, tally,
          passed, exit, comparison>>

Torn == [whole |-> FALSE]

(* The datasets are taken in order. *)
IsNext(d) == \E i \in 1..Len(Datasets) :
  Datasets[i] = d /\ \A j \in 1..(i - 1) : Datasets[j] \notin queue

-----------------------------------------------------------------------------
(* Counting (BenchmarkRunner.run_benchmark) *)

NoTally == [seen |-> 0, correct |-> 0, total |-> EmptyBag, right |-> EmptyBag,
            wrong |-> EmptyBag, matrix |-> EmptyBag, misclassified |-> EmptyBag,
            mismatches |-> <<>>]

OneMore(x, bag) == bag (+) SetToBag({x})

ExpectedOf(d, ip) == IF ip \in DOMAIN dataset[d].expected
                     THEN dataset[d].expected[ip] ELSE "MISSING"

(* Mutation: a device nobody expected is counted under a type of its own. *)
Known_Always(expected) == TRUE

Known(expected) == expected # "MISSING"

(* One device more. *)
Counted(t, ip, expected, actual) ==
  LET known == Known(expected)
      hit   == expected = actual
  IN [seen    |-> t.seen + 1,
      correct |-> IF hit THEN t.correct + 1 ELSE t.correct,
      total   |-> IF known THEN OneMore(expected, t.total) ELSE t.total,
      right   |-> IF hit THEN OneMore(expected, t.right) ELSE t.right,
      wrong   |-> IF known /\ ~hit THEN OneMore(expected, t.wrong) ELSE t.wrong,
      matrix  |-> IF known THEN OneMore(<<expected, actual>>, t.matrix) ELSE t.matrix,
      misclassified |-> IF hit THEN t.misclassified
                        ELSE OneMore(<<expected, actual>>, t.misclassified),
      mismatches    |-> IF hit THEN t.mismatches
                        ELSE Append(t.mismatches, [ip |-> ip, expected |-> expected,
                                                   actual |-> actual])]

Report(d, t) == [whole |-> TRUE, dataset |-> d, tally |-> t]

-----------------------------------------------------------------------------
(* Comparing (compare_reports); a report is judged by its tally *)

(* The cells of the matrix: every expected type by every type that was      *)
(* expected or found.                                                       *)
Rows(t)  == {c[1] : c \in DOMAIN t.matrix}
Cells(t) == Rows(t) \X (Rows(t) \cup {c[2] : c \in DOMAIN t.matrix})

Copies(c, bag) == IF c \in DOMAIN bag THEN bag[c] ELSE 0

Total(bag, cells) == SumFunctionOnSet(bag, cells \cap DOMAIN bag)

OffDiagonal(t) == Total(t.matrix, {c \in DOMAIN t.matrix : c[1] # c[2]})

Better(c, baseline, candidate) ==
  IF c[1] = c[2] THEN Copies(c, candidate.matrix) > Copies(c, baseline.matrix)
                 ELSE Copies(c, candidate.matrix) < Copies(c, baseline.matrix)

(* The sign of a difference of accuracies; an empty dataset has accuracy 0. *)
Sign(n) == IF n > 0 THEN "IMPROVED" ELSE IF n < 0 THEN "REGRESSED" ELSE "UNCHANGED"

(* Mutation: the difference is taken the wrong way round. *)
AccuracyStatus_Swapped(baseline, candidate) ==
  Sign(baseline.correct * candidate.seen - candidate.correct * baseline.seen)

AccuracyStatus(baseline, candidate) ==
  Sign(IF baseline.seen = 0 THEN candidate.correct
       ELSE IF candidate.seen = 0 THEN 0 - baseline.correct
       ELSE candidate.correct * baseline.seen - baseline.correct * candidate.seen)

CompareReports(baseline, candidate) ==
  LET cells   == Cells(baseline) \cup Cells(candidate)
      changed == {c \in cells : Copies(c, candidate.matrix) # Copies(c, baseline.matrix)}
      better  == {c \in changed : Better(c, baseline, candidate)}
  IN [status      |-> AccuracyStatus(baseline, candidate),
      offDiagonal |-> Sign(OffDiagonal(baseline) - OffDiagonal(candidate)),
      changed     |-> Cardinality(changed),
      improved    |-> Cardinality(better),
      regressed   |-> Cardinality(changed \ better),
      unchanged   |-> Cardinality(cells \ changed)]

-----------------------------------------------------------------------------
(* The commands *)

Idle == phase = "idle"

(* The process is over; its exit status is all that is left of it. *)
Ends(code) ==
  /\ phase' = "idle" /\ exit' = code
  /\ output' = None /\ queue' = {} /\ devices' = <<>> /\ tally' = NoTally
  /\ passed' = TRUE

Init ==
  /\ dataset \in {f \in [Names -> UNION {Contents[d] : d \in Names}] :
                    \A d \in Names : f[d] \in Contents[d]}
  /\ reports = [f \in {} |-> Torn] /\ commands = 0
  /\ phase = "idle" /\ output = None /\ queue = {} /\ devices = <<>>
  /\ tally = NoTally /\ passed = TRUE /\ exit = None /\ comparison = None

(* Between commands developers edit a dataset. *)
EditDataset(d) ==
  /\ Idle
  /\ \E c \in Contents[d] : dataset' = [dataset EXCEPT ![d] = c]
  /\ UNCHANGED <<reports, commands, phase, output, queue, devices, tally, passed,
                 exit, comparison>>

Begins(out, names, unitTests) ==
  /\ Idle /\ commands < MaxCommands /\ commands' = commands + 1
  /\ phase' = "next" /\ output' = out /\ queue' = names /\ passed' = unitTests
  /\ devices' = <<>> /\ tally' = NoTally /\ exit' = None /\ comparison' = None
  /\ UNCHANGED <<dataset, reports>>

(* run_benchmark_command: one dataset, whether or not its directory exists. *)
BeginBenchmark(d, out) == Begins(out, {d}, TRUE)

(* run_full_validation: the unit tests, then every dataset directory that   *)
(* discover_benchmark_datasets finds.                                       *)
BeginValidate ==
  \E unitTests \in BOOLEAN :
    Begins(Outputs[1], {d \in Names : dataset[d].state # "absent"}, unitTests)

(* No dataset is left. *)
Finish ==
  /\ phase = "next" /\ queue = {}
  /\ Ends(IF passed THEN "0" ELSE "1")
  /\ UNCHANGED <<dataset, reports, commands, comparison>>

(* A missing directory and a file that does not parse are reported, a       *)
(* record without its key (KeyError) is not caught.                         *)
LoadFails(d) ==
  /\ phase = "next"
  /\ \/ /\ dataset[d].state \in {"absent", "invalid"}
        /\ queue' = queue \ {d} /\ passed' = FALSE
        /\ UNCHANGED <<phase, output, devices, tally, exit>>
     \/ dataset[d].state = "incomplete" /\ Ends("raised")
  /\ UNCHANGED <<dataset, reports, commands, comparison>>

(* load_inventory reads every field of a device but its SNMP description. *)
Loaded(evidence) == [evidence EXCEPT !.descr = {}]

(* Mutation: the counts of the last dataset are kept. *)
Load_KeepsTally(d) ==
  /\ phase = "next" /\ dataset[d].state = "good"
  /\ devices' = [i \in 1..Len(dataset[d].cases) |->
                   [ip       |-> dataset[d].cases[i].ip,
                    evidence |-> Loaded(dataset[d].cases[i].evidence),
                    type     |-> "UNKNOWN"]]
  /\ phase' = "classify"
  /\ UNCHANGED <<dataset, reports, commands, output, queue, tally, passed, exit, comparison>>

(* load_inventory and load_expected_results; a run counts from nothing. *)
Load(d) ==
  /\ phase = "next" /\ dataset[d].state = "good"
  /\ devices' = [i \in 1..Len(dataset[d].cases) |->
                   [ip       |-> dataset[d].cases[i].ip,
                    evidence |-> Loaded(dataset[d].cases[i].evidence),
                    type     |-> "UNKNOWN"]]
  /\ tally' = NoTally /\ phase' = "classify"
  /\ UNCHANGED <<dataset, reports, commands, output, queue, passed, exit, comparison>>

(* One iteration of run_benchmark: classify the device, count the verdict. *)
ClassifyDevice(d) ==
  /\ phase = "classify" /\ tally.seen < Len(devices)
  /\ LET device  == devices[tally.seen + 1]
         verdict == Classify(device.evidence)
     IN /\ devices' = [devices EXCEPT ![tally.seen + 1].type = verdict]
        /\ tally' = Counted(tally, device.ip, ExpectedOf(d, device.ip), verdict)
  /\ UNCHANGED <<dataset, reports, commands, phase, output, queue, passed, exit, comparison>>

(* write_json_report opens <dataset>.json, which empties it, and writes it; *)
(* the Markdown report beside it says the same and is left out.             *)
OpenReport(d) ==
  /\ phase = "classify" /\ tally.seen = Len(devices)
  /\ reports' = [f \in DOMAIN reports \cup {<<output, d>>} |->
                   IF f = <<output, d>> THEN Torn ELSE reports[f]]
  /\ phase' = "write"
  /\ UNCHANGED <<dataset, commands, output, queue, devices, tally, passed, exit, comparison>>

WriteReport(d) ==
  /\ phase = "write"
  /\ reports' = [reports EXCEPT ![<<output, d>>] = Report(d, tally)]
  /\ queue' = queue \ {d} /\ phase' = "next"
  /\ UNCHANGED <<dataset, commands, output, devices, tally, passed, exit, comparison>>

Dies ==
  /\ ~Idle /\ Ends("died")
  /\ UNCHANGED <<dataset, reports, commands, comparison>>

-----------------------------------------------------------------------------
(* _default_reports: the first two files of the default directory, by name. *)
DefaultReports ==
  LET written == SelectSeq(Datasets, LAMBDA d : <<Outputs[1], d>> \in DOMAIN reports)
  IN IF Len(written) < 2 THEN {} ELSE {<<<<Outputs[1], written[1]>>, <<Outputs[1], written[2]>>>>}

Readable(file) == file \in DOMAIN reports /\ reports[file].whole

Compares(pair) ==
  IF Readable(pair[1]) /\ Readable(pair[2])
  THEN /\ exit' = "0"
       /\ comparison' = [baseline |-> reports[pair[1]], candidate |-> reports[pair[2]],
                         result |-> CompareReports(reports[pair[1]].tally, reports[pair[2]].tally)]
  ELSE exit' = "raised" /\ comparison' = None

(* compare: two files by name, or the default ones.  A file that is missing *)
(* or torn raises out of compare_reports.                                   *)
Compare ==
  /\ Idle /\ commands < MaxCommands /\ commands' = commands + 1
  /\ \/ \E pair \in ({Outputs[i] : i \in 1..Len(Outputs)} \X Names)
                    \X ({Outputs[i] : i \in 1..Len(Outputs)} \X Names) : Compares(pair)
     \/ \E pair \in DefaultReports : Compares(pair)
     \/ DefaultReports = {} /\ exit' = "1" /\ comparison' = None
  /\ UNCHANGED <<dataset, reports, phase, output, queue, devices, tally, passed>>

Works ==
  \/ Finish
  \/ \E d \in queue :
       /\ IsNext(d)
       /\ LoadFails(d) \/ Load(d) \/ ClassifyDevice(d) \/ OpenReport(d) \/ WriteReport(d)

Next ==
  \/ \E d \in Names : EditDataset(d)
  \/ \E d \in Names, i \in 1..Len(Outputs) : BeginBenchmark(d, Outputs[i])
  \/ BeginValidate \/ Works \/ Dies \/ Compare

Spec == Init /\ [][Next]_vars

-----------------------------------------------------------------------------
(* Properties *)

(* The types; a command has classified no device it did not load, and has a *)
(* dataset at hand while it classifies and writes.                          *)
TypeOK ==
  /\ \A d \in Names : dataset[d] \in Contents[d]
  /\ commands \in 0..MaxCommands
  /\ phase \in {"idle", "next", "classify", "write"}
  /\ queue \subseteq Names
  /\ tally.seen \in 0..Len(devices)
  /\ \A i \in 1..Len(devices) : devices[i].type \in DeviceTypes
  /\ passed \in BOOLEAN
  /\ exit \in {None, "0", "1", "raised", "died"}
  /\ phase \in {"classify", "write"} => queue # {}

(* A tally accounts for every device seen exactly once: it is correct or a  *)
(* mismatch; the diagonal of the matrix is what was correct, the rest of it *)
(* and the devices nobody expected are the mismatches; each row of the      *)
(* matrix is the total of its type, split into right and wrong.             *)
Accounts(t) ==
  LET missing == {i \in 1..Len(t.mismatches) : t.mismatches[i].expected = "MISSING"}
  IN /\ t.correct + Len(t.mismatches) = t.seen
     /\ Total(t.matrix, DOMAIN t.matrix) + Cardinality(missing) = t.seen
     /\ Total(t.matrix, {c \in DOMAIN t.matrix : c[1] = c[2]}) = t.correct
     /\ OffDiagonal(t) + Cardinality(missing) = Len(t.mismatches)
     /\ Total(t.misclassified, DOMAIN t.misclassified) = Len(t.mismatches)
     /\ DOMAIN t.total = Rows(t)
     /\ \A type \in Rows(t) :
          /\ Copies(type, t.right) = Copies(<<type, type>>, t.matrix)
          /\ Copies(type, t.right) + Copies(type, t.wrong) = Copies(type, t.total)
          /\ Total(t.matrix, {c \in DOMAIN t.matrix : c[1] = type}) = Copies(type, t.total)

(* The counts hold at every moment, and in every report that is on disk     *)
(* whole (benchmark_runner.py:129-208).                                     *)
CountsAccountForDevices ==
  /\ Accounts(tally)
  /\ \A f \in DOMAIN reports : reports[f].whole => Accounts(reports[f].tally)

(* Every verdict keeps the precedence that the comments of the classifier   *)
(* promise (device_classifier.py:28-99).                                    *)
VerdictsKeepPrecedence ==
  \A i \in 1..tally.seen : KeepsPrecedence(devices[i].evidence, devices[i].type)

(* A comparison of two reports on as many devices, all of them expected,    *)
(* tells one story: accuracy and confusion matrix agree on the direction,   *)
(* what changed is improved or regressed, and an improvement shows in some  *)
(* cell (compare.py:237-279).                                               *)
ComparisonTellsOneStory ==
  comparison # None =>
    LET b == comparison.baseline.tally
        c == comparison.candidate.tally
        r == comparison.result
        AllExpected(t) == \A i \in 1..Len(t.mismatches) : t.mismatches[i].expected # "MISSING"
    IN /\ r.improved + r.regressed = r.changed
       /\ b.seen = c.seen /\ AllExpected(b) /\ AllExpected(c) =>
            /\ r.status = r.offDiagonal
            /\ r.status = "IMPROVED" => r.improved > 0
            /\ r.status = "REGRESSED" => r.regressed > 0
=============================================================================
