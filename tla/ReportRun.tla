----------------------------- MODULE ReportRun -----------------------------
(***************************************************************************)
(* What a run of the program leaves on disk: the end of Application.run(), *)
(* from build_report_run_paths() to the validation of the saved project.   *)
(* Several runs share the output directory; a run may die at any step, and *)
(* a file it was writing then stays torn.  The clock has the precision of  *)
(* the directory name: one tick is one second.                             *)
(***************************************************************************)
EXTENDS Integers, Sequences

CONSTANTS Runs,            \* the executions of the program
          ScanProfile,     \* the scan profile of each run
          DeviceCount,     \* how many devices each run found
          MaxClock,        \* bound: seconds modelled
          Schedules,       \* whether runs take turns: TRUE, FALSE or either
          DistinctSeconds, \* TRUE: no two runs report in the same second
          None

ASSUME ReportAssumption ==
  /\ DeviceCount \in [Runs -> Nat] /\ DOMAIN ScanProfile = Runs
  /\ MaxClock \in Nat
  /\ Schedules \subseteq BOOLEAN /\ DistinctSeconds \in BOOLEAN
  /\ None \notin Runs /\ \A c \in 0..MaxClock, r \in Runs : None # <<c, ScanProfile[r]>>

VARIABLES serial,     \* TRUE: no two runs write at the same time
          clock,      \* seconds
          step,       \* what each run does next
          directory,  \* run_directory of each run, <<generated_at, profile>>, or None
          exported,   \* how many artifacts each run has finished
          files,      \* <<directory, artifact>> -> who wrote it, and whether it is whole
          project,    \* output/Test Network.nmproj, one file for all runs
          loaded      \* the run whose project each run loaded back, or None

vars == <<serial, clock, step, directory, exported, files, project, loaded>>

(* Mutation: the report is written before the observations. *)
Artifacts_ReportFirst == <<"report", "observations", "devices", "relationships">>

(* The exporters, in the order Application.run() calls them. *)
Artifacts == <<"observations", "devices", "relationships", "report">>

Steps   == {"scan", "open", "write", "save", "dump", "load", "done", "dead"}
Over    == {"done", "dead"}
Content == [by : Runs \cup {None}, whole : BOOLEAN]
NoFile  == [by |-> None, whole |-> FALSE]   \* absent, or mixed by two writers
Torn(r)  == [by |-> r, whole |-> FALSE]
Whole(r) == [by |-> r, whole |-> TRUE]

(* Writing a file that another run has opened or written since leaves       *)
(* either the whole text of the last writer or a mixture.                    *)
Written(r, content) == IF content.by = r THEN {Whole(r)} ELSE {Whole(r), NoFile}

File(r) == <<directory[r], Artifacts[exported[r] + 1]>>

(* What a file name holds; a name nobody wrote holds nothing. *)
At(file) == IF file \in DOMAIN files THEN files[file] ELSE NoFile

Write(file, content) ==
  files' = [f \in DOMAIN files \cup {file} |-> IF f = file THEN content ELSE files[f]]

Goto(r, s) == step' = [step EXCEPT ![r] = s]

Init ==
  /\ serial \in Schedules /\ clock = 0
  /\ step = [r \in Runs |-> "scan"] /\ directory = [r \in Runs |-> None]
  /\ exported = [r \in Runs |-> 0]
  /\ files = [f \in {} |-> NoFile] /\ project = NoFile
  /\ loaded = [r \in Runs |-> None]

Tick ==
  /\ clock < MaxClock /\ clock' = clock + 1
  /\ UNCHANGED <<serial, step, directory, exported, files, project, loaded>>

-----------------------------------------------------------------------------
(* Mutation: the directory is named by the even second. *)
RunDirectory_Coarse(r) == <<clock - (clock % 2), ScanProfile[r]>>

RunDirectory(r) == <<clock, ScanProfile[r]>>

(* Discovery is over: build_report_run_paths names the run's directory and  *)
(* creates it, or finds it there (exist_ok).                                *)
BeginReport(r) ==
  /\ step[r] = "scan"
  /\ serial => \A q \in Runs \ {r} : step[q] \in {"scan"} \cup Over
  /\ DistinctSeconds => \A q \in Runs : directory[q] # <<clock, ScanProfile[q]>>
  /\ directory' = [directory EXCEPT ![r] = RunDirectory(r)]
  /\ Goto(r, "open")
  /\ UNCHANGED <<serial, clock, exported, files, project, loaded>>

(* An exporter opens its file, which empties it, and then writes it. *)
OpenArtifact(r) ==
  /\ step[r] = "open" /\ Goto(r, "write")
  /\ Write(File(r), Torn(r))
  /\ UNCHANGED <<serial, clock, directory, exported, project, loaded>>

(* Mutation: one exporter too many. *)
WriteArtifact_OffByOne(r) ==
  /\ step[r] = "write"
  /\ \E content \in Written(r, At(File(r))) : Write(File(r), content)
  /\ exported' = [exported EXCEPT ![r] = @ + 1]
  /\ Goto(r, IF exported[r] = Len(Artifacts) THEN "save" ELSE "open")
  /\ UNCHANGED <<serial, clock, directory, project, loaded>>

WriteArtifact(r) ==
  /\ step[r] = "write"
  /\ \E content \in Written(r, At(File(r))) : Write(File(r), content)
  /\ exported' = [exported EXCEPT ![r] = @ + 1]
  /\ Goto(r, IF exported[r] + 1 = Len(Artifacts) THEN "save" ELSE "open")
  /\ UNCHANGED <<serial, clock, directory, project, loaded>>

-----------------------------------------------------------------------------
(* Mutations: a project that is on disk already is kept; the file must not  *)
(* be one that another run has left unfinished.                             *)
OpenProject_KeepsOld(r) ==
  /\ step[r] = "save" /\ Goto(r, IF project.whole THEN "load" ELSE "dump")
  /\ project' = IF project.whole THEN project ELSE Torn(r)
  /\ UNCHANGED <<serial, clock, directory, exported, files, loaded>>

OpenProject_Exclusive(r) ==
  /\ step[r] = "save" /\ Goto(r, "dump")
  /\ project.by = None \/ project.whole
  /\ project' = Torn(r)
  /\ UNCHANGED <<serial, clock, directory, exported, files, loaded>>

(* ProjectSerializer.save: open and truncate, then dump. *)
OpenProject(r) ==
  /\ step[r] = "save" /\ Goto(r, "dump")
  /\ project' = Torn(r)
  /\ UNCHANGED <<serial, clock, directory, exported, files, loaded>>

DumpProject(r) ==
  /\ step[r] = "dump" /\ Goto(r, "load")
  /\ project' \in Written(r, project)
  /\ UNCHANGED <<serial, clock, directory, exported, files, loaded>>

(* ProjectSerializer.load and the check of the device count: a torn file    *)
(* does not parse, and another count is a RuntimeError.                      *)
Load(r) ==
  /\ step[r] = "load"
  /\ IF project.whole /\ DeviceCount[project.by] = DeviceCount[r]
     THEN Goto(r, "done") /\ loaded' = [loaded EXCEPT ![r] = project.by]
     ELSE Goto(r, "dead") /\ UNCHANGED loaded
  /\ UNCHANGED <<serial, clock, directory, exported, files, project>>

(* Mutation: an exporter that fails is skipped. *)
Dies_SkipsArtifact(r) ==
  /\ step[r] = "write"
  /\ exported' = [exported EXCEPT ![r] = @ + 1]
  /\ Goto(r, IF exported[r] + 1 = Len(Artifacts) THEN "save" ELSE "open")
  /\ UNCHANGED <<serial, clock, directory, files, project, loaded>>

(* The process is killed, or a step of it raises: nothing catches that. *)
Dies(r) ==
  /\ step[r] \notin Over /\ Goto(r, "dead")
  /\ UNCHANGED <<serial, clock, directory, exported, files, project, loaded>>

Works(r) == OpenArtifact(r) \/ WriteArtifact(r) \/ OpenProject(r) \/ DumpProject(r) \/ Load(r)

Finished == (\A r \in Runs : step[r] \in Over) /\ UNCHANGED vars

Next == Tick \/ (\E r \in Runs : BeginReport(r) \/ Works(r) \/ Dies(r)) \/ Finished

Spec == Init /\ [][Next]_vars

(* A run that has begun its report does not wait for anything. *)
FairSpec == Spec /\ \A r \in Runs : WF_vars(Works(r))

-----------------------------------------------------------------------------
(* Properties *)

(* The types; a run has a directory from its report on, and the number of   *)
(* finished artifacts agrees with the step it is at.                        *)
TypeOK ==
  /\ serial \in BOOLEAN /\ clock \in 0..MaxClock
  /\ step \in [Runs -> Steps]
  /\ directory \in [Runs -> {None} \cup ((0..MaxClock) \X {ScanProfile[r] : r \in Runs})]
  /\ exported \in [Runs -> 0..Len(Artifacts)]
  /\ \A f \in DOMAIN files : files[f] \in Content
  /\ project \in Content
  /\ loaded \in [Runs -> Runs \cup {None}]
  /\ \A r \in Runs :
       /\ step[r] = "scan" => exported[r] = 0 /\ directory[r] = None
       /\ step[r] \in Steps \ {"scan", "dead"} => directory[r] # None
       /\ step[r] \in {"open", "write"} => exported[r] < Len(Artifacts)
       /\ step[r] \in {"save", "dump", "load", "done"} => exported[r] = Len(Artifacts)

(* A run that has begun any other export has its observations whole on disk, *)
(* and they stay there if it dies (PLAN-029 D8, application.py:229).         *)
ObservationsFirst ==
  \A r \in Runs : \A a \in {"devices", "relationships", "report"} :
    At(<<directory[r], a>>).by = r =>
      At(<<directory[r], "observations">>) = Whole(r)

(* A run that ends well leaves all four artifacts whole, and its own.        *)
DoneLeavesEverything ==
  \A r \in Runs : step[r] = "done" =>
    \A i \in 1..Len(Artifacts) :
      At(<<directory[r], Artifacts[i]>>) = Whole(r)

(* Consecutive runs never overwrite a previous run's artifacts               *)
(* (report_run.py:46).                                                       *)
ArtifactsNeverOverwritten ==
  [][\A f \in DOMAIN files : files'[f].by = files[f].by]_vars

(* Where runs take turns, a run that reports that persistence was validated  *)
(* has loaded the project it saved itself (application.py:280).              *)
ValidatedOwnProject ==
  serial => \A r \in Runs : step[r] = "done" => loaded[r] = r

(* A run that has begun its report ends, whatever earlier runs left behind.  *)
ReportsEnd == \A r \in Runs : step[r] = "open" ~> step[r] \in Over
=============================================================================
