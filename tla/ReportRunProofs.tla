-------------------------- MODULE ReportRunProofs --------------------------
(***************************************************************************)
(* What holds of the output directory however many runs share it and       *)
(* wherever they die: the types, that runs which take turns validate the   *)
(* project they saved, and, for runs kept apart by the clock, that the     *)
(* observations come first, that a finished run leaves everything it wrote *)
(* and that nobody touches the artifacts of another run.                   *)
(***************************************************************************)
EXTENDS ReportRun, TLAPS

Active == {"open", "write", "save", "dump", "load"}

(* The four artifacts have four names. *)
LEMMA ArtifactNames ==
  /\ Len(Artifacts) = 4
  /\ \A i, j \in 1..4 : Artifacts[i] = Artifacts[j] => i = j
  /\ Artifacts[1] = "observations"
  BY DEF Artifacts

LEMMA WrittenType ==
  ASSUME NEW r \in Runs, NEW content, NEW new \in Written(r, content)
  PROVE  new \in {Whole(r), NoFile} /\ new \in Content
PROOF
<1>1. Whole(r) \in Content /\ NoFile \in Content
  BY DEF Whole, NoFile, Content
<1>2. new \in {Whole(r), NoFile}
  BY DEF Written
<1> QED
  BY <1>1, <1>2

-----------------------------------------------------------------------------
(* Types *)

LEMMA TypeInit == ReportAssumption /\ Init => TypeOK
  BY DEF Init, TypeOK, ReportAssumption, Steps, NoFile, Content, Artifacts

(* An artifact that is written keeps the files' type. *)
LEMMA WriteType ==
  ASSUME \A f \in DOMAIN files : files[f] \in Content,
         NEW STATE file, NEW STATE content, content \in Content, Write(file, content)
  PROVE  \A f \in DOMAIN files' : files'[f] \in Content
  BY DEF Write

LEMMA TypeStep == ReportAssumption /\ TypeOK /\ [Next]_vars => TypeOK'
PROOF
<1> SUFFICES ASSUME ReportAssumption, TypeOK, [Next]_vars PROVE TypeOK'
  OBVIOUS
<1> USE ArtifactNames
<1>1. CASE Tick
  BY <1>1 DEF Tick, TypeOK, ReportAssumption
<1>2. ASSUME NEW r \in Runs, BeginReport(r) PROVE TypeOK'
  <2>1. /\ RunDirectory(r) \in (0..MaxClock) \X {ScanProfile[q] : q \in Runs}
        /\ RunDirectory(r) # None
    BY DEF RunDirectory, TypeOK, ReportAssumption
  <2> QED
    BY <1>2, <2>1 DEF BeginReport, Goto, TypeOK, Steps
<1>3. ASSUME NEW r \in Runs, OpenArtifact(r) PROVE TypeOK'
  <2>1. \A f \in DOMAIN files' : files'[f] \in Content
    BY <1>3 DEF OpenArtifact, Write, Torn, Content, TypeOK
  <2> QED
    BY <1>3, <2>1 DEF OpenArtifact, Goto, TypeOK, Steps
<1>4. ASSUME NEW r \in Runs, WriteArtifact(r) PROVE TypeOK'
  <2>1. PICK content \in Written(r, At(File(r))) : Write(File(r), content)
    BY <1>4 DEF WriteArtifact
  <2>2. content \in Content
    BY <2>1, WrittenType
  <2>3. \A f \in DOMAIN files' : files'[f] \in Content
    BY <2>1, <2>2 DEF Write, TypeOK
  <2>4. exported[r] \in 0..3 /\ exported[r] + 1 \in 0..4
    BY <1>4 DEF WriteArtifact, TypeOK
  <2> QED
    BY <1>4, <2>3, <2>4 DEF WriteArtifact, Goto, TypeOK, Steps
<1>5. ASSUME NEW r \in Runs, OpenProject(r) PROVE TypeOK'
  BY <1>5 DEF OpenProject, Goto, TypeOK, Steps, Torn, Content
<1>6. ASSUME NEW r \in Runs, DumpProject(r) PROVE TypeOK'
  <2>1. project' \in Content
    BY <1>6, WrittenType DEF DumpProject
  <2> QED
    BY <1>6, <2>1 DEF DumpProject, Goto, TypeOK, Steps
<1>7. ASSUME NEW r \in Runs, Load(r) PROVE TypeOK'
  <2>1. project.by \in Runs \cup {None}
    BY DEF TypeOK, Content
  <2> QED
    BY <1>7, <2>1 DEF Load, Goto, TypeOK, Steps
<1>8. ASSUME NEW r \in Runs, Dies(r) PROVE TypeOK'
  BY <1>8 DEF Dies, Goto, TypeOK, Steps, Over
<1>9. CASE UNCHANGED vars
  BY <1>9 DEF vars, TypeOK
<1> QED
  BY <1>1, <1>2, <1>3, <1>4, <1>5, <1>6, <1>7, <1>8, <1>9 DEF Next, Works, Finished

(* Every value has its type, and a run's place agrees with the number of     *)
(* artifacts it has finished (TypeOK).                                       *)
THEOREM TypeCorrect == ReportAssumption => (Spec => []TypeOK)
PROOF
<1> SUFFICES ASSUME ReportAssumption PROVE Spec => []TypeOK
  OBVIOUS
<1>1. Init => TypeOK
  BY TypeInit
<1>2. TypeOK /\ [Next]_vars => TypeOK'
  BY TypeStep
<1> QED
  BY <1>1, <1>2, PTL DEF Spec

-----------------------------------------------------------------------------
(* Validation, for runs that take turns *)

(* One run at a time is between its directory and its end, and the project  *)
(* file is in the state in which that run left it.                          *)
Turns ==
  serial =>
    /\ \A r, q \in Runs : step[r] \in Active /\ step[q] \in Active => r = q
    /\ \A r \in Runs : /\ step[r] = "dump" => project = Torn(r)
                       /\ step[r] = "load" => project = Whole(r)
                       /\ step[r] = "done" => loaded[r] = r

LEMMA TurnsStep == TypeOK /\ Turns /\ [Next]_vars => Turns'
PROOF
<1> SUFFICES ASSUME TypeOK, Turns, [Next]_vars, serial' PROVE Turns'
  BY DEF Turns
<1>0. serial /\ step \in [Runs -> Steps] /\ loaded \in [Runs -> Runs \cup {None}]
  BY DEF TypeOK, Next, Tick, BeginReport, Works, OpenArtifact, WriteArtifact, OpenProject,
         DumpProject, Load, Dies, Finished, vars
<1> USE <1>0 DEF Active, Goto
<1>1. CASE Tick
  BY <1>1 DEF Tick, Turns, Torn, Whole
<1>2. ASSUME NEW r \in Runs, BeginReport(r) PROVE Turns'
  BY <1>2 DEF BeginReport, Turns, Over, Torn, Whole
<1>3. ASSUME NEW r \in Runs, OpenArtifact(r) PROVE Turns'
  BY <1>3 DEF OpenArtifact, Turns, Torn, Whole
<1>4. ASSUME NEW r \in Runs, WriteArtifact(r) PROVE Turns'
  BY <1>4 DEF WriteArtifact, Turns, Torn, Whole
<1>5. ASSUME NEW r \in Runs, OpenProject(r) PROVE Turns'
  BY <1>5 DEF OpenProject, Turns, Torn, Whole
<1>6. ASSUME NEW r \in Runs, DumpProject(r) PROVE Turns'
  BY <1>6 DEF DumpProject, Written, Turns, Torn, Whole
<1>7. ASSUME NEW r \in Runs, Load(r) PROVE Turns'
  BY <1>7 DEF Load, Turns, Torn, Whole
<1>8. ASSUME NEW r \in Runs, Dies(r) PROVE Turns'
  BY <1>8 DEF Dies, Turns, Torn, Whole
<1>9. CASE UNCHANGED vars
  BY <1>9 DEF vars, Turns, Torn, Whole
<1> QED
  BY <1>1, <1>2, <1>3, <1>4, <1>5, <1>6, <1>7, <1>8, <1>9 DEF Next, Works, Finished

(* A run that reports that persistence was validated has loaded the project *)
(* it saved, where runs take turns (ValidatedOwnProject).                    *)
THEOREM ValidationReadsOwnProject == ReportAssumption => (Spec => []ValidatedOwnProject)
PROOF
<1> SUFFICES ASSUME ReportAssumption PROVE Spec => []ValidatedOwnProject
  OBVIOUS
<1>1. Init => TypeOK /\ Turns
  <2> SUFFICES ASSUME Init PROVE TypeOK /\ Turns
    OBVIOUS
  <2>1. \A r \in Runs : step[r] = "scan"
    BY DEF Init
  <2> QED
    BY <2>1, TypeInit DEF Turns, Active
<1>2. TypeOK /\ Turns /\ [Next]_vars => (TypeOK /\ Turns)'
  BY TypeStep, TurnsStep
<1>3. Turns => ValidatedOwnProject
  BY DEF Turns, ValidatedOwnProject
<1> QED
  BY <1>1, <1>2, <1>3, PTL DEF Spec

-----------------------------------------------------------------------------
(* Artifacts, for runs that the clock keeps apart *)

(* What a name holds among some files. *)
Holds(some, file) == IF file \in DOMAIN some THEN some[file] ELSE NoFile

(* A directory is named after the profile of its run, and no other run has  *)
(* the same one.                                                            *)
Apart ==
  /\ \A r \in Runs : directory[r] # None => directory[r][2] = ScanProfile[r]
  /\ \A r, q \in Runs : directory[r] # None /\ directory[r] = directory[q] => r = q

(* A file belongs to the run whose directory it is in, which has finished   *)
(* the artifacts before it; what a run has finished is whole, and what it   *)
(* is writing has been opened by nobody else.                               *)
Mine ==
  \A f \in DOMAIN files :
    /\ files[f].by \in Runs /\ directory[files[f].by] # None
    /\ \E i \in 1..4 : i <= exported[files[f].by] + 1
                      /\ f = <<directory[files[f].by], Artifacts[i]>>
Kept ==
  \A r \in Runs :
    /\ \A i \in 1..4 : i <= exported[r] => At(<<directory[r], Artifacts[i]>>) = Whole(r)
    /\ step[r] = "write" => At(File(r)) = Torn(r)

Owned == Apart /\ Mine /\ Kept

LEMMA ApartInit == Init => Owned
  BY DEF Init, Owned, Apart, Mine, Kept

LEMMA ApartStep ==
  ASSUME ReportAssumption, DistinctSeconds, TypeOK, Apart, [Next]_vars
  PROVE  Apart'
PROOF
<1>1. ASSUME NEW r \in Runs, BeginReport(r) PROVE Apart'
  <2>1. /\ directory' = [directory EXCEPT ![r] = <<clock, ScanProfile[r]>>]
        /\ directory \in [Runs -> {None} \cup ((0..MaxClock) \X {ScanProfile[q] : q \in Runs})]
        /\ \A q \in Runs : directory[q] # <<clock, ScanProfile[q]>>
    BY <1>1 DEF BeginReport, RunDirectory, TypeOK
  <2>2. \A q \in Runs : directory[q] # <<clock, ScanProfile[r]>>
    <3> SUFFICES ASSUME NEW q \in Runs, directory[q] = <<clock, ScanProfile[r]>> PROVE FALSE
      OBVIOUS
    <3>1. directory[q] # None
      BY DEF ReportAssumption, TypeOK
    <3>2. ScanProfile[q] = ScanProfile[r]
      BY <3>1 DEF Apart
    <3> QED
      BY <2>1, <3>2
  <2> QED
    BY <2>1, <2>2 DEF Apart
<1>2. ASSUME UNCHANGED directory PROVE Apart'
  BY <1>2 DEF Apart
<1> QED
  BY <1>1, <1>2 DEF Next, Works, Tick, OpenArtifact, WriteArtifact, OpenProject, DumpProject,
                    Load, Dies, Finished, vars

(* A file of a run that has not finished an artifact is not there yet, or   *)
(* is its own.                                                              *)
LEMMA OwnFile ==
  ASSUME Apart, Mine, NEW r \in Runs, directory[r] # None, NEW a,
         <<directory[r], a>> \in DOMAIN files
  PROVE  files[<<directory[r], a>>].by = r
  BY DEF Apart, Mine

(* Opening or writing the current artifact leaves the others alone. *)
LEMMA WriteOwn ==
  ASSUME TypeOK, Apart, Mine, Kept, NEW r \in Runs, step[r] \in {"open", "write"},
         NEW content \in {Torn(r), Whole(r)}, Write(File(r), content),
         directory' = directory, exported' \in [Runs -> 0..4],
         exported'[r] \in {exported[r], exported[r] + 1},
         \A q \in Runs \ {r} : exported'[q] = exported[q]
  PROVE  /\ Mine'
         /\ \A f \in DOMAIN files : f \in DOMAIN files' /\ files'[f].by = files[f].by
         /\ \A f : f # File(r) => At(f)' = At(f)
         /\ \A f : f = File(r) => At(f)' = content
PROOF
<1>0. /\ directory[r] # None /\ exported[r] \in 0..3
      /\ exported \in [Runs -> 0..4]
  BY ArtifactNames DEF TypeOK, Steps
<1>1. PICK file : file = File(r)
  OBVIOUS
<1>2. /\ file = <<directory[r], Artifacts[exported[r] + 1]>>
      /\ files' = [f \in DOMAIN files \cup {file} |-> IF f = file THEN content ELSE files[f]]
  BY <1>1 DEF File, Write
<1>3. content.by = r
  BY DEF Torn, Whole
<1>4. \A f \in DOMAIN files : f \in DOMAIN files' /\ files'[f].by = files[f].by
  BY <1>0, <1>2, <1>3, OwnFile
<1>5. Mine'
  <2> SUFFICES ASSUME NEW f \in DOMAIN files'
               PROVE  /\ files'[f].by \in Runs /\ directory'[files'[f].by] # None
                      /\ \E i \in 1..4 : i <= exported'[files'[f].by] + 1
                                        /\ f = <<directory'[files'[f].by], Artifacts[i]>>
    BY DEF Mine
  <2>1. CASE f = file
    <3>1. files'[f].by = r
      BY <2>1, <1>2, <1>3
    <3>2. exported[r] + 1 \in 1..4 /\ exported[r] + 1 <= exported'[r] + 1
      BY <1>0
    <3> QED
      BY <3>1, <3>2, <2>1, <1>0, <1>2
  <2>2. CASE f # file
    <3>1. f \in DOMAIN files /\ files'[f] = files[f]
      BY <2>2, <1>2
    <3>2. PICK q \in Runs : q = files[f].by
      BY <3>1 DEF Mine
    <3>3. directory[q] # None
      BY <3>1, <3>2 DEF Mine
    <3>4. PICK i \in 1..4 : i <= exported[q] + 1 /\ f = <<directory[q], Artifacts[i]>>
      BY <3>1, <3>2 DEF Mine
    <3>5. i <= exported'[q] + 1
      BY <3>4, <1>0
    <3> QED
      BY <3>1, <3>2, <3>3, <3>4, <3>5
  <2> QED
    BY <2>1, <2>2
<1>6. \A f : f # File(r) => At(f)' = At(f)
  BY <1>1, <1>2 DEF At
<1>7. \A f : f = File(r) => At(f)' = content
  BY <1>1, <1>2 DEF At
<1> QED
  BY <1>4, <1>5, <1>6, <1>7

LEMMA OwnedStep ==
  ASSUME ReportAssumption, DistinctSeconds, TypeOK, Owned, [Next]_vars
  PROVE  Owned' /\ \A f \in DOMAIN files : files'[f].by = files[f].by
PROOF
<1> USE DEF Owned, Goto
<1>0. Apart'
  BY ApartStep
<1>1. ASSUME UNCHANGED <<files, directory, exported>>,
             \A r \in Runs : step'[r] = "write" => step[r] = "write"
      PROVE  Mine' /\ Kept' /\ \A f \in DOMAIN files : files'[f].by = files[f].by
  BY <1>1 DEF Mine, Kept, At, File
<1>2. ASSUME NEW r \in Runs, BeginReport(r)
      PROVE  Mine' /\ Kept' /\ \A f \in DOMAIN files : files'[f].by = files[f].by
  <2>1. /\ files' = files /\ exported' = exported /\ exported \in [Runs -> 0..4] /\ exported[r] = 0
        /\ directory[r] = None /\ step'[r] # "write"
        /\ \A q \in Runs \ {r} : directory'[q] = directory[q] /\ step'[q] = step[q]
    BY <1>2, ArtifactNames DEF BeginReport, TypeOK
  <2>2. Mine'
    <3> SUFFICES ASSUME NEW f \in DOMAIN files
                 PROVE  /\ files[f].by \in Runs /\ directory'[files[f].by] # None
                        /\ \E i \in 1..4 : i <= exported[files[f].by] + 1
                                          /\ f = <<directory'[files[f].by], Artifacts[i]>>
      BY <2>1 DEF Mine
    <3>1. files[f].by \in Runs \ {r}
      BY <2>1 DEF Mine
    <3> QED
      BY <2>1, <3>1 DEF Mine
  <2>3. ASSUME NEW q \in Runs
        PROVE  /\ \A i \in 1..4 : i <= exported[q] =>
                    (IF <<directory'[q], Artifacts[i]>> \in DOMAIN files
                     THEN files[<<directory'[q], Artifacts[i]>>] ELSE NoFile) = Whole(q)
               /\ step'[q] = "write" => At(File(q))' = Torn(q)
    <3>1. CASE q = r
      BY <2>1, <3>1
    <3>2. CASE q # r
      BY <2>1, <3>2 DEF Kept, At, File
    <3> QED
      BY <3>1, <3>2
  <2>4. Kept'
    BY <2>1, <2>3 DEF Kept, At
  <2> QED
    BY <2>1, <2>2, <2>4
<1>3. ASSUME NEW r \in Runs, OpenArtifact(r)
      PROVE  Mine' /\ Kept' /\ \A f \in DOMAIN files : files'[f].by = files[f].by
  <2>1. /\ step[r] = "open" /\ step' = [step EXCEPT ![r] = "write"] /\ Write(File(r), Torn(r))
        /\ directory' = directory /\ exported' = exported
        /\ exported \in [Runs -> 0..4] /\ exported[r] \in 0..3 /\ step \in [Runs -> Steps]
        /\ directory[r] # None
    BY <1>3, ArtifactNames DEF OpenArtifact, TypeOK, Steps
  <2>2. /\ Mine'
        /\ \A f \in DOMAIN files : f \in DOMAIN files' /\ files'[f].by = files[f].by
        /\ \A f : f # File(r) => At(f)' = At(f)
        /\ \A f : f = File(r) => At(f)' = Torn(r)
    BY <2>1, WriteOwn
  <2>3. /\ \A f : f # File(r) => Holds(files', f) = Holds(files, f)
        /\ \A f : f = File(r) => Holds(files', f) = Torn(r)
    BY <2>2 DEF At, Holds
  <2>4. ASSUME NEW q \in Runs, NEW i \in 1..4, i <= exported[q]
        PROVE  Holds(files', <<directory[q], Artifacts[i]>>) = Whole(q)
    <3>1. <<directory[q], Artifacts[i]>> # File(r)
      BY <2>1, <2>4, ArtifactNames DEF File, Apart
    <3>2. Holds(files, <<directory[q], Artifacts[i]>>) = Whole(q)
      BY <2>4 DEF Kept, At, Holds
    <3> QED
      BY <3>1, <3>2, <2>3
  <2>5. ASSUME NEW q \in Runs, step'[q] = "write"
        PROVE  Holds(files', File(q)) = Torn(q)
    <3>1. CASE q = r
      BY <3>1, <2>3
    <3>2. CASE q # r
      <4>1. step[q] = "write" /\ directory[q] # None
        BY <3>2, <2>1, <2>5 DEF TypeOK, Steps
      <4>2. File(q) # File(r)
        BY <4>1, <3>2, <2>1 DEF File, Apart
      <4>3. Holds(files, File(q)) = Torn(q)
        BY <4>1 DEF Kept, At, Holds
      <4> QED
        BY <4>2, <4>3, <2>3
    <3> QED
      BY <3>1, <3>2
  <2>6. Kept'
    BY <2>1, <2>4, <2>5 DEF Kept, At, Holds, File
  <2> QED
    BY <2>2, <2>6
<1>4. ASSUME NEW r \in Runs, WriteArtifact(r)
      PROVE  Mine' /\ Kept' /\ \A f \in DOMAIN files : files'[f].by = files[f].by
  <2>1. /\ step[r] = "write" /\ step' \in [Runs -> Steps] /\ step'[r] # "write"
        /\ \A q \in Runs \ {r} : step'[q] = step[q]
        /\ directory' = directory /\ exported' = [exported EXCEPT ![r] = @ + 1]
        /\ exported \in [Runs -> 0..4] /\ exported[r] \in 0..3
        /\ directory[r] # None
    BY <1>4, ArtifactNames DEF WriteArtifact, TypeOK, Steps
  <2>2. At(File(r)) = Torn(r)
    BY <2>1 DEF Kept
  <2>3. Write(File(r), Whole(r))
    BY <1>4, <2>2 DEF WriteArtifact, Written, Torn
  <2>4. /\ exported' \in [Runs -> 0..4] /\ exported'[r] = exported[r] + 1
        /\ \A q \in Runs \ {r} : exported'[q] = exported[q]
    BY <2>1
  <2>5. /\ Mine'
        /\ \A f \in DOMAIN files : f \in DOMAIN files' /\ files'[f].by = files[f].by
        /\ \A f : f # File(r) => At(f)' = At(f)
        /\ \A f : f = File(r) => At(f)' = Whole(r)
    BY <2>1, <2>3, <2>4, WriteOwn
  <2>6. /\ \A f : f # File(r) => Holds(files', f) = Holds(files, f)
        /\ \A f : f = File(r) => Holds(files', f) = Whole(r)
    BY <2>5 DEF At, Holds
  <2>7. ASSUME NEW q \in Runs, NEW i \in 1..4, i <= exported'[q]
        PROVE  Holds(files', <<directory[q], Artifacts[i]>>) = Whole(q)
    <3>1. CASE q = r /\ i = exported[r] + 1
      <4>1. <<directory[q], Artifacts[i]>> = File(r)
        BY <3>1 DEF File
      <4> QED
        BY <4>1, <3>1, <2>6
    <3>2. CASE ~(q = r /\ i = exported[r] + 1)
      <4>1. i <= exported[q]
        BY <3>2, <2>1, <2>4, <2>7
      <4>2. <<directory[q], Artifacts[i]>> # File(r)
        BY <3>2, <2>1, ArtifactNames DEF File, Apart
      <4>3. Holds(files, <<directory[q], Artifacts[i]>>) = Whole(q)
        BY <4>1 DEF Kept, At, Holds
      <4> QED
        BY <4>2, <4>3, <2>6
    <3> QED
      BY <3>1, <3>2
  <2>8. ASSUME NEW q \in Runs, step'[q] = "write"
        PROVE  Holds(files', File(q)) = Torn(q)
    <3>1. q # r /\ step[q] = "write" /\ directory[q] # None
      BY <2>1, <2>8 DEF TypeOK, Steps
    <3>2. File(q) # File(r)
      BY <3>1, <2>1 DEF File, Apart
    <3>3. Holds(files, File(q)) = Torn(q)
      BY <3>1 DEF Kept, At, Holds
    <3> QED
      BY <3>2, <3>3, <2>6
  <2>9. ASSUME NEW q \in Runs, step'[q] = "write"
        PROVE  At(File(q))' = Torn(q)
    <3>1. q # r /\ exported'[q] = exported[q]
      BY <2>1, <2>4, <2>9
    <3> QED
      BY <3>1, <2>1, <2>8, <2>9 DEF At, Holds, File
  <2>10. Kept'
    BY <2>1, <2>7, <2>9 DEF Kept, At, Holds
  <2> QED
    BY <2>5, <2>10
<1>5. ASSUME UNCHANGED vars
      PROVE  Mine' /\ Kept' /\ \A f \in DOMAIN files : files'[f].by = files[f].by
  BY <1>1, <1>5 DEF vars
<1>6. ASSUME NEW r \in Runs, OpenProject(r) \/ DumpProject(r) \/ Load(r) \/ Dies(r)
      PROVE  Mine' /\ Kept' /\ \A f \in DOMAIN files : files'[f].by = files[f].by
  BY <1>1, <1>6 DEF OpenProject, DumpProject, Load, Dies, TypeOK
<1>7. ASSUME Tick
      PROVE  Mine' /\ Kept' /\ \A f \in DOMAIN files : files'[f].by = files[f].by
  BY <1>1, <1>7 DEF Tick
<1>8. Mine' /\ Kept' /\ \A f \in DOMAIN files : files'[f].by = files[f].by
  BY <1>2, <1>3, <1>4, <1>5, <1>6, <1>7 DEF Next, Works, Finished
<1> QED
  BY <1>0, <1>8

(* While the clock keeps runs apart, every file belongs to the run whose    *)
(* directory it is in.                                                      *)
LEMMA FilesOwned ==
  ReportAssumption /\ DistinctSeconds => (Spec => [](TypeOK /\ Owned))
PROOF
<1> SUFFICES ASSUME ReportAssumption, DistinctSeconds PROVE Spec => [](TypeOK /\ Owned)
  OBVIOUS
<1>1. Init => TypeOK /\ Owned
  BY TypeInit, ApartInit
<1>2. (TypeOK /\ Owned) /\ [Next]_vars => (TypeOK /\ Owned)'
  BY TypeStep, OwnedStep
<1> QED
  BY <1>1, <1>2, PTL DEF Spec

(* Whatever else a run has begun to write, its observations are on disk and *)
(* whole, and stay so if it dies (ObservationsFirst).                        *)
THEOREM ObservationsComeFirst ==
  ReportAssumption /\ DistinctSeconds => (Spec => []ObservationsFirst)
PROOF
<1> SUFFICES ASSUME ReportAssumption, DistinctSeconds PROVE Spec => []ObservationsFirst
  OBVIOUS
<1>1. TypeOK /\ Owned => ObservationsFirst
  <2> SUFFICES ASSUME TypeOK, Owned, NEW r \in Runs,
                      NEW a \in {"devices", "relationships", "report"},
                      At(<<directory[r], a>>).by = r
               PROVE  At(<<directory[r], "observations">>) = Whole(r)
    BY DEF ObservationsFirst
  <2>1. <<directory[r], a>> \in DOMAIN files /\ files[<<directory[r], a>>].by = r
    BY DEF At, NoFile, ReportAssumption
  <2>2. PICK i \in 1..4 : i <= exported[r] + 1 /\ <<directory[r], a>> = <<directory[r], Artifacts[i]>>
    BY <2>1 DEF Owned, Mine
  <2>3. i # 1
    BY <2>2, ArtifactNames
  <2>4. 1 <= exported[r]
    BY <2>2, <2>3 DEF TypeOK
  <2>5. \A j \in 1..4 : j <= exported[r] => At(<<directory[r], Artifacts[j]>>) = Whole(r)
    BY Zenon DEF Owned, Kept
  <2>6. At(<<directory[r], Artifacts[1]>>) = Whole(r)
    BY <2>4, <2>5
  <2> QED
    BY <2>6, ArtifactNames
<1> QED
  BY <1>1, FilesOwned, PTL

(* A run that ends well leaves all its artifacts, whole and its own          *)
(* (DoneLeavesEverything).                                                   *)
THEOREM DoneLeavesAll ==
  ReportAssumption /\ DistinctSeconds => (Spec => []DoneLeavesEverything)
PROOF
<1> SUFFICES ASSUME ReportAssumption, DistinctSeconds PROVE Spec => []DoneLeavesEverything
  OBVIOUS
<1>1. TypeOK /\ Owned => DoneLeavesEverything
  <2> SUFFICES ASSUME TypeOK, Owned, NEW r \in Runs, step[r] = "done", NEW i \in 1..4
               PROVE  At(<<directory[r], Artifacts[i]>>) = Whole(r)
    BY ArtifactNames DEF DoneLeavesEverything
  <2>1. exported[r] = 4
    BY ArtifactNames DEF TypeOK
  <2>2. \A j \in 1..4 : j <= exported[r] => At(<<directory[r], Artifacts[j]>>) = Whole(r)
    BY Zenon DEF Owned, Kept
  <2> QED
    BY <2>1, <2>2
<1> QED
  BY <1>1, FilesOwned, PTL

(* Nobody ever touches an artifact of another run (ArtifactsNeverOverwritten). *)
THEOREM NothingOverwritten ==
  ReportAssumption /\ DistinctSeconds => (Spec => ArtifactsNeverOverwritten)
PROOF
<1> SUFFICES ASSUME ReportAssumption, DistinctSeconds PROVE Spec => ArtifactsNeverOverwritten
  OBVIOUS
<1>1. TypeOK /\ Owned /\ [Next]_vars => [\A f \in DOMAIN files : files'[f].by = files[f].by]_vars
  BY OwnedStep
<1> QED
  BY <1>1, FilesOwned, PTL DEF Spec, ArtifactsNeverOverwritten
=============================================================================
