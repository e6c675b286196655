------------------------- MODULE ObservationReplay -------------------------
(***************************************************************************)
(* Replaying a run from its directory: observations.json is read back, the *)
(* resolvers run again, and their rows are compared, in order, with those  *)
(* of relationships.csv.  Exit 0 is a match, 1 a mismatch, 2 a directory   *)
(* that cannot be replayed.  What a run observed is a sequence, in the     *)
(* order of collection, with its duplicates; either file may be torn.      *)
(***************************************************************************)
EXTENDS Resolution, Integers, Sequences, FiniteSets

CONSTANTS Rank,      \* Rank[text]: its place in the order of texts
          NonAscii   \* subjects whose device has a hostname outside ASCII

Text == DOMAIN Rank

(* What a scan retains, with the provenance that the resolvers sort by. *)
Observation ==
  LET sources == [provider : Text, method : Text]
  IN  [type : {"identity"}, subject : Text, property : Text, value : Text,
       source : sources, run : Text, at : Text]
      \cup [type : {"relationship"}, subject : Text, related : Text, category : Text,
            source : sources, run : Text, at : Text]

-----------------------------------------------------------------------------
(* Order *)

Observations(obs) == {obs[i] : i \in DOMAIN obs}

Pairs(S) == S \X S

(* The finite set S in the order "before", a set of pairs.                   *)
Arranged(S, before) ==
  [n \in 1..Cardinality(S) |->
     CHOOSE x \in S : Cardinality({y \in S : <<y, x>> \in before}) = n - 1]

(* Tuples of texts, compared as Python compares them. *)
Less(k, l) == \E i \in 1..Len(k) :
  Rank[k[i]] < Rank[l[i]] /\ \A j \in 1..(i - 1) : k[j] = l[j]

(* Places in the order of their keys; sorted() keeps the order of places     *)
(* whose keys are equal.                                                     *)
ByKey(keys) ==
  {p \in Pairs(DOMAIN keys) :
     Less(keys[p[1]], keys[p[2]]) \/ (keys[p[1]] = keys[p[2]] /\ p[1] < p[2])}

(* sorted(), of the members of s at the places that have a key. *)
Sorted(s, keys) ==
  LET places == Arranged(DOMAIN keys, ByKey(keys))
  IN  [n \in DOMAIN places |-> s[places[n]]]

RecordKey(o) ==
  LET about == IF o.type = "identity" THEN <<o.property, o.value>>
                                      ELSE <<o.related, o.category>>
  IN <<o.type, o.subject, about[1], about[2],
       o.source.provider, o.source.method, o.run, o.at>>

EdgeKey(e) == <<e.subject, e.category, e.related>>

EdgeObservationKey(o) ==
  <<o.source.provider, o.source.method, o.related, o.run, o.at>>

-----------------------------------------------------------------------------
(* The resolvers and what the exporter writes *)

EdgeOrder(edges) == {p \in Pairs(edges) : Less(EdgeKey(p[1]), EdgeKey(p[2]))}

(* RelationshipResolver.resolve, as the sequence it returns: the edges in    *)
(* order, each with the observations that support it.                        *)
EdgesOf(obs) ==
  LET edges == ResolveRelationships(Observations(obs), Subjects(Observations(obs)))
  IN  Arranged(edges, EdgeOrder(edges))

(* Where the observations of an edge are. *)
SupportPlaces(obs, e) ==
  {i \in DOMAIN obs : obs[i].type = "relationship" /\ EdgeKey(obs[i]) = EdgeKey(e)}

(* Mutation: the observations of an edge keep the order of collection. *)
Support_Unsorted(obs, e) == Sorted(obs, [i \in SupportPlaces(obs, e) |-> <<>>])

Support(obs, e) ==
  Sorted(obs, [i \in SupportPlaces(obs, e) |-> EdgeObservationKey(obs[i])])

(* The places where a sequence has a value it did not have before. *)
FirstSeen(s) == {i \in DOMAIN s : \A j \in 1..(i - 1) : s[j] # s[i]}

Ascending(places) == {p \in Pairs(places) : p[1] < p[2]}

(* The sources of an edge, each once, where it is first seen. *)
Provenance(support) ==
  LET sources == [n \in DOMAIN support |-> support[n].source]
      places  == Arranged(FirstSeen(sources), Ascending(FirstSeen(sources)))
  IN  [n \in DOMAIN places |-> sources[places[n]]]

Row(obs, e) ==
  [subject |-> e.subject, category |-> e.category, related |-> e.related,
   state |-> e.state, provenance |-> Provenance(Support(obs, e))]

(* relationship_rows: the edges in resolver order. *)
ReplayedRows(obs) ==
  LET edges == EdgesOf(obs) IN [n \in DOMAIN edges |-> Row(obs, edges[n])]

(* CanonicalPresentation: edges grouped by subject and category, the groups  *)
(* in order of their first edge; the exporter writes group after group.      *)
Group(e) == <<e.subject, e.category>>

FirstOfGroup(edges, i) ==
  CHOOSE k \in DOMAIN edges : /\ Group(edges[k]) = Group(edges[i])
                              /\ \A j \in 1..(k - 1) : Group(edges[j]) # Group(edges[i])

GroupOrder(edges) ==
  {p \in Pairs(DOMAIN edges) :
     LET first == FirstOfGroup(edges, p[1])
         other == FirstOfGroup(edges, p[2])
     IN  first < other \/ (first = other /\ p[1] < p[2])}

CsvRows(obs) ==
  LET edges  == EdgesOf(obs)
      places == Arranged(DOMAIN edges, GroupOrder(edges))
  IN  [n \in DOMAIN places |-> Row(obs, edges[places[n]])]

-----------------------------------------------------------------------------
(* The two files *)

(* serialize_observations: sorted, so the artifact does not depend on the    *)
(* order of collection; parsing keeps the order of the file.                 *)
Serialize(obs) == Sorted(obs, [i \in DOMAIN obs |-> RecordKey(obs[i])])

(* What reading relationships.csv gives: the rows, or how it stops.          *)
Table(rows) == [stops |-> "no", rows |-> rows]
Stops(how)  == [stops |-> how, rows |-> <<>>]

(* What reading may give when writing stopped before the last byte, by where *)
(* it stopped: in the header; between rows; in one of the first six cells    *)
(* of a row, there perhaps inside a character of a hostname; in the last     *)
(* cell; between that and the end of the line.                               *)
TornTables(rows) ==
  {Stops("header")}
  \cup {Table(SubSeq(rows, 1, n)) : n \in 0..Len(rows)}
  \cup UNION {LET row == rows[n] IN
         {Stops("ragged")}
         \cup {Stops("undecodable") : s \in NonAscii \cap {row.subject, row.related}}
         \cup {Table(Append(SubSeq(rows, 1, n - 1), [row EXCEPT !.provenance = part])) :
                 part \in {SubSeq(row.provenance, 1, k) : k \in 0..(Len(row.provenance) - 1)}}
       : n \in 1..Len(rows)}

(* run_replay_command, on the rows that observations.json resolves to and    *)
(* the table that was read.                                                  *)
Compared(replayed, table) ==
  IF table.stops = "undecodable" THEN "raises"
  ELSE IF table.stops # "no" THEN "cannot replay"
  ELSE IF replayed = table.rows THEN "match"
  ELSE "mismatch"

(* The results, from observations that were read, of a table that was        *)
(* written whole and of one that was cut off.                                *)
WholeResults(obs) == {Compared(ReplayedRows(Serialize(obs)), Table(CsvRows(obs)))}
TornResults(obs)  ==
  LET replayed == ReplayedRows(Serialize(obs))
  IN  {Compared(replayed, table) : table \in TornTables(CsvRows(obs))}
=============================================================================
