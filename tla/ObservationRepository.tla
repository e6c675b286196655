----------------------- MODULE ObservationRepository -----------------------
(***************************************************************************)
(* The field-knowledge repository: one file per observation of a device    *)
(* that no rule classified, named by a sequential number.  A capture reads *)
(* the directory and then writes a file; a review loads a file and then    *)
(* writes it back.  A write truncates the file first.  Nothing locks the   *)
(* directory in between, and a process may die at any step.                *)
(***************************************************************************)
EXTENDS Integers, FiniteSetsExt

CONSTANTS Users,       \* processes that use the repository
          Unresolved,  \* devices whose device_type is UNKNOWN
          Reviewers,   \* who may add an entry to a review history
          MaxNumber,   \* the largest number the file name pattern reads: six digits
          MaxId,       \* bound: the largest number the model allots
          OneAtATime,  \* TRUE: a process finishes before another begins
          Removal,     \* which files a person may delete: "none", "older" or "any"
          None

ASSUME RepositoryAssumption ==
  /\ MaxNumber \in Nat /\ MaxId \in Nat
  /\ OneAtATime \in BOOLEAN /\ Removal \in {"none", "older", "any"}

VARIABLES files,    \* observation number -> what its file holds
          held,     \* what each process is about to write, under which number, and
                    \* whether it has opened the file
          issued,   \* history: how many new captures opened a file under each number
          recorded  \* history: observation number -> what finished saves put on record:
                    \* the device first saved there, every review since

vars == <<files, held, issued, recorded>>

Observation == [device : Unresolved, reviews : SUBSET Reviewers]
Empty       == [text |-> "empty", observation |-> None]   \* opened, which truncates it
Damaged     == [text |-> "part", observation |-> None]    \* cut off, or mixed by two writers
Whole(o)    == [text |-> "whole", observation |-> o]
Content     == {Empty, Damaged} \cup {Whole(o) : o \in Observation}
Nothing     == [id |-> 0, stage |-> "idle", new |-> FALSE, observation |-> None]
Writes      == [id : 1..MaxId, stage : {"ready", "open", "gone"}, new : BOOLEAN,
                observation : Observation]

Init ==
  /\ files = [id \in {} |-> Empty]
  /\ held = [u \in Users |-> Nothing]
  /\ issued = [id \in 1..MaxId |-> 0]
  /\ recorded = [id \in {} |-> None]

Idle(u) == held[u] = Nothing

MayBegin(u) == Idle(u) /\ (OneAtATime => \A v \in Users : Idle(v))

(* Only a whole text parses: every proper prefix of a JSON object is an error. *)
Readable(id) == id \in DOMAIN files /\ files[id].text = "whole"

(* A longer number is written to a file too, but its name does not match    *)
(* the pattern: the file is never listed again.                             *)
ExistingIds == {id \in DOMAIN files : id <= MaxNumber}

(* Mutations: number after the newest file that can be read; begin at zero. *)
NextObservationId_OfReadable ==
  Max({0} \cup {id \in ExistingIds : Readable(id)}) + 1
NextObservationId_Zero  == IF ExistingIds = {} THEN 0 ELSE Max(ExistingIds) + 1

NextObservationId == IF ExistingIds = {} THEN 1 ELSE Max(ExistingIds) + 1

Holds(u, id, isNew, observation) ==
  held' = [held EXCEPT ![u] = [id |-> id, stage |-> "ready", new |-> isNew,
                               observation |-> observation]]

(* capture_unresolved_device chooses the number and builds the observation. *)
Capture(u, device) ==
  /\ MayBegin(u) /\ NextObservationId <= MaxId
  /\ Holds(u, NextObservationId, TRUE, [device |-> device, reviews |-> {}])
  /\ UNCHANGED <<files, issued, recorded>>

(* Mutations: the entry replaces the history; a copy is built from the      *)
(* latest observation instead of the loaded one.                            *)
Review_Replaces(u, id, reviewer) ==
  /\ MayBegin(u) /\ Readable(id)
  /\ Holds(u, id, FALSE, [files[id].observation EXCEPT !.reviews = {reviewer}])
  /\ UNCHANGED <<files, issued, recorded>>

Review_OfLatest(u, id, reviewer) ==
  /\ MayBegin(u) /\ Readable(id) /\ Readable(Max(DOMAIN files))
  /\ Holds(u, id, FALSE, [files[Max(DOMAIN files)].observation EXCEPT
                            !.reviews = @ \cup {reviewer}])
  /\ UNCHANGED <<files, issued, recorded>>

(* ObservationRepository.load, and a reviewer's entry in the copy it gives. *)
Review(u, id, reviewer) ==
  /\ MayBegin(u) /\ Readable(id)
  /\ Holds(u, id, FALSE, [files[id].observation EXCEPT !.reviews = @ \cup {reviewer}])
  /\ UNCHANGED <<files, issued, recorded>>

(* load of a file that is not whole raises: there is nothing to write back.  *)
LoadRaises(u, id) == MayBegin(u) /\ ~Readable(id) /\ UNCHANGED vars

(* ObservationRepository.save, path.write_text: the file is opened, which    *)
(* creates it or empties whatever it holds...                                *)
Open(u) ==
  /\ held[u].stage = "ready"
  /\ files' = [id \in DOMAIN files \cup {held[u].id} |->
                 IF id = held[u].id THEN Empty ELSE files[id]]
  /\ held' = [held EXCEPT ![u].stage = "open"]
  /\ issued' = IF held[u].new THEN [issued EXCEPT ![held[u].id] = @ + 1] ELSE issued
  /\ UNCHANGED recorded

(* Over the text of another writer the result may be a mixture. *)
Written(u) ==
  {Whole(held[u].observation)} \cup
    (IF files[held[u].id] = Empty THEN {} ELSE {Damaged})

Recorded(w) ==
  [id \in DOMAIN recorded \cup {w.id} |->
     IF id # w.id THEN recorded[id]
     ELSE IF id \in DOMAIN recorded
          THEN [recorded[id] EXCEPT !.reviews = @ \cup w.observation.reviews]
          ELSE w.observation]

(* ... and then written.                                                    *)
Write(u) ==
  /\ held[u].stage = "open"
  /\ \E content \in Written(u) : files' = [files EXCEPT ![held[u].id] = content]
  /\ recorded' = Recorded(held[u])
  /\ held' = [held EXCEPT ![u] = Nothing]
  /\ UNCHANGED issued

(* The open file was deleted: the text goes with it. *)
WriteRemoved(u) ==
  /\ held[u].stage = "gone"
  /\ held' = [held EXCEPT ![u] = Nothing]
  /\ UNCHANGED <<files, issued, recorded>>

(* A person deletes a file; the program never does. *)
Remove(id) ==
  /\ Removal # "none" /\ (Removal = "older" => id # Max(DOMAIN files))
  /\ files' = [x \in DOMAIN files \ {id} |-> files[x]]
  /\ recorded' = [x \in DOMAIN recorded \ {id} |-> recorded[x]]
  /\ held' = [u \in Users |-> IF held[u].id = id /\ held[u].stage = "open"
                              THEN [held[u] EXCEPT !.stage = "gone"] ELSE held[u]]
  /\ UNCHANGED issued

(* The process ends, killed or by an error, before its file is complete: the *)
(* file stays as it is, or with what was written so far.                     *)
Dies(u) ==
  /\ ~Idle(u) /\ held' = [held EXCEPT ![u] = Nothing]
  /\ \/ UNCHANGED files
     \/ held[u].stage = "open" /\ files' = [files EXCEPT ![held[u].id] = Damaged]
  /\ UNCHANGED <<issued, recorded>>

Next ==
  \/ \E u \in Users :
       \/ \E device \in Unresolved : Capture(u, device)
       \/ \E id \in DOMAIN files, reviewer \in Reviewers : Review(u, id, reviewer)
       \/ \E id \in DOMAIN files : LoadRaises(u, id)
       \/ Open(u) \/ Write(u) \/ WriteRemoved(u) \/ Dies(u)
  \/ \E id \in DOMAIN files : Remove(id)

Spec == Init /\ [][Next]_vars

-----------------------------------------------------------------------------
(* Properties *)

(* Files and pending writes are observations under positive numbers; a file  *)
(* that can be read is one that a finished save recorded.                    *)
TypeOK ==
  /\ DOMAIN files \subseteq 1..MaxId /\ files \in [DOMAIN files -> Content]
  /\ held \in [Users -> Writes \cup {Nothing}]
  /\ \A u \in Users : held[u].stage = "open" => held[u].id \in DOMAIN files
  /\ issued \in [1..MaxId -> Nat]
  /\ DOMAIN recorded \subseteq DOMAIN files /\ recorded \in [DOMAIN recorded -> Observation]
  /\ \A id \in DOMAIN files : Readable(id) => id \in DOMAIN recorded

(* IDs are never reused, even after review changes an observation's status   *)
(* (repository.py:49), after a file is removed (KNOW-003, line 106), or      *)
(* after a capture died and left a file that cannot be read.                 *)
IdsNeverReused == \A id \in 1..MaxId : issued[id] <= 1

(* A file that can be read has the evidence of the device that was first     *)
(* saved under its number, whatever was captured, written back or cut off    *)
(* since.                                                                    *)
EvidenceNeverReplaced ==
  \A id \in DOMAIN files :
    Readable(id) => files[id].observation.device = recorded[id].device

(* A file that can be read has every review that a save put on record: a     *)
(* review that dies while it is written back takes the file with it, or      *)
(* nothing, never a part of the history.                                     *)
ReadableKeepsReviews ==
  \A id \in DOMAIN files :
    Readable(id) => recorded[id].reviews \subseteq files[id].observation.reviews
=============================================================================
