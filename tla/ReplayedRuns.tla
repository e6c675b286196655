---------------------------- MODULE ReplayedRuns ----------------------------
(***************************************************************************)
(* Runs that report (ReportRun) and the replay command that reads their    *)
(* directories at any moment, while a run writes or after it died.         *)
(***************************************************************************)
EXTENDS ReportRun

CONSTANTS Ip, Mac, Name, CategoryCardinality, Rank, NonAscii,
          Observed   \* what a run may have observed: sequences of observations

INSTANCE ObservationReplay

(* Every text has a place of its own in their order. *)
ASSUME RankAssumption ==
  /\ \A text \in Text : Rank[text] \in Nat
  /\ \A text, other \in Text : Rank[text] = Rank[other] => text = other
  /\ {"identity", "relationship"} \subseteq Text

ASSUME ObservedAssumption == Observed # {} /\ Observed \subseteq Seq(Observation)

(* The state of an artifact of run r as the replay of its directory finds it. *)
Found(r, artifact) ==
  LET file == <<directory[r], artifact>>
  IN IF file \notin DOMAIN files THEN "none"
     ELSE IF files[file] = Whole(r) THEN "whole" ELSE "torn"

(* What a replay that reads both files may come to, whatever the run         *)
(* observed.                                                                 *)
IfWhole == UNION {WholeResults(obs) : obs \in Observed}
IfTorn  == UNION {TornResults(obs) : obs \in Observed}

(* run_replay_command on the directory of r: both files must be there, and a *)
(* JSON text without its end does not parse, unless only the last newline is *)
(* missing.                                                                  *)
Replayed(r) ==
  LET json == Found(r, "observations")
      csv  == Found(r, "relationships")
  IN (IF json # "whole" \/ csv = "none" THEN {"cannot replay"} ELSE {})
     \cup (IF "none" \in {json, csv} THEN {} ELSE IF csv = "torn" THEN IfTorn ELSE IfWhole)

(* Whatever a run observed and in whatever order, replaying its directory   *)
(* matches from the moment its relationships are on disk, also if the run    *)
(* died later; before that there is nothing to replay; and only a run that   *)
(* was cut off while it wrote them is ever reported as a mismatch            *)
(* (replay_observations.py:238, ADR-011 Amendment 1).                        *)
ReplayVouches ==
  \A r \in Runs : directory[r] # None =>
    LET csv == At(<<directory[r], "relationships">>)
    IN /\ exported[r] > 2 => Replayed(r) = {"match"}
       /\ csv = NoFile => Replayed(r) = {"cannot replay"}
       /\ "mismatch" \in Replayed(r) => csv = Torn(r) /\ exported[r] = 2

(* The replay command never raises: anything that stops it becomes exit      *)
(* code 2 (replay_observations.py:239).                                      *)
ReplayNeverRaises == \A r \in Runs : "raises" \notin Replayed(r)
=============================================================================
