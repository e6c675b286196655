-------------------- MODULE ObservationRepositoryProofs --------------------
(***************************************************************************)
(* Theorems about ObservationRepository for any number of processes,       *)
(* devices and reviewers, each of which may die at any step: types; and,   *)
(* when one process is over before another begins and every number is one  *)
(* the file name pattern reads, that no number is issued twice and that a  *)
(* file which can be read has its own device's evidence and every review   *)
(* on record.                                                              *)
(***************************************************************************)
EXTENDS ObservationRepository, FiniteSetTheorems, WellFoundedInduction, TLAPS

(* A bounded set of numbers that is not empty has a largest one: the numbers *)
(* above an element are fewer the larger the element, and a set of finite    *)
(* sets has one that contains no other.                                      *)
LEMMA LargestExists ==
  ASSUME NEW n \in Nat, NEW S \in SUBSET (1..n), S # {}
  PROVE  \E x \in S : \A y \in S : x >= y
<1> DEFINE Above(x) == {y \in S : y > x}
           R == StrictSubsetOrdering(S)
           T == {Above(x) : x \in S}
<1>1. IsFiniteSet(S)
  <2>1. S \in SUBSET Nat /\ \A s \in S : s <= n
    OBVIOUS
  <2> QED BY <2>1, FS_BoundedSetOfNaturals
<1>2. IsWellFoundedOn(R, FiniteSubsetsOf(S))
  BY FS_StrictSubsetOrderingWellFounded
<1>3. T \subseteq FiniteSubsetsOf(S) /\ T # {}
  <2>1. FiniteSubsetsOf(S) = SUBSET S
    BY <1>1, FS_FiniteSubsetsOfFinite
  <2>2. \A x \in S : Above(x) \in SUBSET S
    OBVIOUS
  <2>3. \A t \in T : t \in SUBSET S
    BY <2>2
  <2>4. PICK x : x \in S
    OBVIOUS
  <2>5. Above(x) \in T
    BY <2>4
  <2> HIDE DEF T
  <2> QED BY <2>1, <2>3, <2>5
<1>4. PICK t \in T : \A u \in T : ~(<<u, t>> \in R)
  <2> HIDE DEF R, T
  <2> QED BY <1>2, <1>3, WFMin
<1>5. PICK x \in S : t = Above(x)
  BY <1>4
<1>6. ASSUME NEW y \in S, y > x
      PROVE  FALSE
  <2>1. x \in Nat /\ y \in Nat /\ \A z \in S : z \in Nat
    OBVIOUS
  <2>2. Above(y) \subseteq Above(x) /\ y \in Above(x) /\ y \notin Above(y)
    <3>1. \A z \in S : z > y => z > x
      BY <2>1, <1>6
    <3>2. ~(y > y)
      BY <2>1
    <3> QED BY <3>1, <3>2, <1>6
  <2>3. <<Above(y), Above(x)>> \in R
    BY <2>2 DEF StrictSubsetOrdering
  <2> QED BY <1>4, <1>5, <2>3
<1> QED BY <1>6

(* The library's Max is that number. *)
LEMMA MaxIsLargest ==
  ASSUME NEW n \in Nat, NEW S \in SUBSET (1..n), S # {}
  PROVE  Max(S) \in S /\ \A y \in S : Max(S) >= y
BY LargestExists DEF Max

-----------------------------------------------------------------------------
(* Type correctness *)

(* The next number is a number, and above every number that is listed. *)
LEMMA NextIdType ==
  ASSUME TypeOK
  PROVE  /\ NextObservationId \in Nat \ {0}
         /\ \A id \in ExistingIds : id < NextObservationId
<1>1. ExistingIds \in SUBSET (1..MaxId) /\ MaxId \in Nat
  BY RepositoryAssumption DEF TypeOK, ExistingIds
<1>2. CASE ExistingIds = {}
  BY <1>2 DEF NextObservationId
<1>3. CASE ExistingIds # {}
  <2>1. Max(ExistingIds) \in ExistingIds /\ \A y \in ExistingIds : Max(ExistingIds) >= y
    BY <1>1, <1>3, MaxIsLargest
  <2>2. PICK m \in 1..MaxId : m = Max(ExistingIds)
    BY <1>1, <2>1
  <2>3. NextObservationId = m + 1
    BY <1>3, <2>2 DEF NextObservationId
  <2> QED BY <1>1, <2>1, <2>2, <2>3
<1> QED BY <1>2, <1>3

(* What a process holds is nothing, or an observation and where to write it. *)
LEMMA HeldType ==
  ASSUME TypeOK, NEW u \in Users
  PROVE  /\ ~Idle(u) => held[u] \in Writes
         /\ held[u].stage # "idle" => ~Idle(u)
BY DEF TypeOK, Idle, Nothing

(* A file that can be read holds an observation. *)
LEMMA ReadableType ==
  ASSUME TypeOK, NEW id, Readable(id)
  PROVE  files[id].observation \in Observation
<1>1. id \in DOMAIN files /\ files[id].text = "whole" /\ files[id] \in Content
  BY DEF TypeOK, Readable
<1>2. files[id] # Empty /\ files[id] # Damaged
  BY <1>1 DEF Empty, Damaged
<1>3. PICK o \in Observation : files[id] = Whole(o)
  BY <1>1, <1>2 DEF Content
<1> QED BY <1>3 DEF Whole

(* A process that takes a write in hand. *)
LEMMA HoldsType ==
  ASSUME TypeOK, NEW u \in Users, NEW id \in 1..MaxId, NEW isNew \in BOOLEAN,
         NEW o \in Observation, Holds(u, id, isNew, o)
  PROVE  /\ held' \in [Users -> Writes \cup {Nothing}]
         /\ held'[u] = [id |-> id, stage |-> "ready", new |-> isNew, observation |-> o]
         /\ \A v \in Users : v # u => held'[v] = held[v]
         /\ \A v \in Users : held'[v].stage = "open" => held'[v] = held[v]
<1> DEFINE w == [id |-> id, stage |-> "ready", new |-> isNew, observation |-> o]
<1>1. w \in Writes
  BY DEF Writes
<1>2. held' = [held EXCEPT ![u] = w]
  BY DEF Holds
<1> HIDE DEF w
<1>3. /\ held' \in [Users -> Writes \cup {Nothing}]
      /\ held'[u] = w /\ \A v \in Users : v # u => held'[v] = held[v]
  BY <1>1, <1>2 DEF TypeOK
<1>4. w.stage # "open"
  BY DEF w
<1>5. \A v \in Users : held'[v].stage = "open" => held'[v] = held[v]
  BY <1>3, <1>4
<1> QED BY <1>3, <1>5 DEF w

(* What a finished save puts on record. *)
LEMMA RecordedType ==
  ASSUME TypeOK, NEW w \in Writes
  PROVE  /\ DOMAIN Recorded(w) = DOMAIN recorded \cup {w.id}
         /\ Recorded(w) \in [DOMAIN Recorded(w) -> Observation]
         /\ \A id \in DOMAIN recorded : id # w.id => Recorded(w)[id] = recorded[id]
         /\ IF w.id \in DOMAIN recorded
            THEN /\ Recorded(w)[w.id].device = recorded[w.id].device
                 /\ Recorded(w)[w.id].reviews = recorded[w.id].reviews \cup w.observation.reviews
            ELSE Recorded(w)[w.id] = w.observation
<1>1. DOMAIN Recorded(w) = DOMAIN recorded \cup {w.id}
  BY DEF Recorded
<1>2. w.observation \in Observation
  BY DEF Writes
<1>3. \A id \in DOMAIN recorded : id # w.id => Recorded(w)[id] = recorded[id]
  BY DEF Recorded
<1>4. CASE w.id \in DOMAIN recorded
  <2>1. Recorded(w)[w.id] = [recorded[w.id] EXCEPT !.reviews = @ \cup w.observation.reviews]
    BY <1>4 DEF Recorded
  <2>2. recorded[w.id] \in Observation
    BY <1>4 DEF TypeOK
  <2>3. /\ Recorded(w)[w.id] \in Observation
        /\ Recorded(w)[w.id].device = recorded[w.id].device
        /\ Recorded(w)[w.id].reviews = recorded[w.id].reviews \cup w.observation.reviews
    BY <2>1, <2>2, <1>2 DEF Observation
  <2>4. \A id \in DOMAIN Recorded(w) : Recorded(w)[id] \in Observation
    BY <2>3, <1>1, <1>3 DEF TypeOK
  <2> QED BY <2>3, <2>4, <1>1, <1>3, <1>4 DEF Recorded
<1>5. CASE w.id \notin DOMAIN recorded
  <2>1. Recorded(w)[w.id] = w.observation
    BY <1>5 DEF Recorded
  <2>2. \A id \in DOMAIN Recorded(w) : Recorded(w)[id] \in Observation
    BY <2>1, <1>1, <1>2, <1>3 DEF TypeOK
  <2> QED BY <2>1, <2>2, <1>1, <1>3, <1>5 DEF Recorded
<1> QED BY <1>4, <1>5

(* What opening a file does to the directory. *)
LEMMA OpenFacts ==
  ASSUME TypeOK, NEW u \in Users, Open(u)
  PROVE  /\ ~Idle(u) /\ held[u] \in Writes
         /\ DOMAIN files' = DOMAIN files \cup {held[u].id}
         /\ files'[held[u].id] = Empty
         /\ \A id \in DOMAIN files : id # held[u].id => files'[id] = files[id]
         /\ \A v \in Users \ {u} : held'[v] = held[v]
         /\ held'[u] = [held[u] EXCEPT !.stage = "open"] /\ held'[u] \in Writes
<1>1. ~Idle(u) /\ held[u] \in Writes
  BY HeldType DEF Open
<1>2. /\ \A v \in Users \ {u} : held'[v] = held[v]
      /\ held'[u] = [held[u] EXCEPT !.stage = "open"]
  BY DEF Open, TypeOK
<1>3. held'[u] \in Writes
  BY <1>1, <1>2 DEF Writes
<1> QED BY <1>1, <1>2, <1>3 DEF Open

(* What writing it does. *)
LEMMA WriteFacts ==
  ASSUME TypeOK, NEW u \in Users, Write(u)
  PROVE  /\ ~Idle(u) /\ held[u] \in Writes /\ held[u].id \in DOMAIN files
         /\ DOMAIN files' = DOMAIN files
         /\ files'[held[u].id] \in {Whole(held[u].observation), Damaged}
         /\ \A id \in DOMAIN files : id # held[u].id => files'[id] = files[id]
         /\ \A v \in Users : held'[v] = IF v = u THEN Nothing ELSE held[v]
<1>1. ~Idle(u) /\ held[u] \in Writes /\ held[u].id \in DOMAIN files
  BY HeldType DEF Write, TypeOK
<1>2. PICK content \in Written(u) : files' = [files EXCEPT ![held[u].id] = content]
  BY DEF Write
<1>3. content \in {Whole(held[u].observation), Damaged}
  BY <1>2 DEF Written
<1>4. \A v \in Users : held'[v] = IF v = u THEN Nothing ELSE held[v]
  BY DEF Write, TypeOK
<1>5. files \in [DOMAIN files -> Content]
  BY DEF TypeOK
<1> QED BY <1>1, <1>2, <1>3, <1>4, <1>5

(* Every file is an observation under a positive number, every pending write *)
(* one that may become such a file, and what can be read was recorded.       *)
THEOREM TypeCorrect == Spec => []TypeOK
<1>1. Init => TypeOK
  BY DEF Init, TypeOK, Readable, Nothing
<1>2. TypeOK /\ [Next]_vars => TypeOK'
  <2> SUFFICES ASSUME TypeOK, [Next]_vars PROVE TypeOK'
    OBVIOUS
  <2>0. /\ \A v \in Users : held[v].stage = "open" => held[v].id \in DOMAIN files
        /\ \A id \in DOMAIN files : Readable(id) => id \in DOMAIN recorded
        /\ DOMAIN recorded \subseteq DOMAIN files
    BY DEF TypeOK
  <2>1. ASSUME NEW u \in Users, NEW device \in Unresolved, Capture(u, device) PROVE TypeOK'
    <3> DEFINE o == [device |-> device, reviews |-> {}]
    <3>1. NextObservationId \in 1..MaxId
      BY <2>1, NextIdType, RepositoryAssumption DEF Capture
    <3>2. o \in Observation
      BY DEF Observation
    <3>3. Holds(u, NextObservationId, TRUE, o) /\ UNCHANGED <<files, issued, recorded>>
      BY <2>1 DEF Capture
    <3> HIDE DEF o
    <3>4. /\ held' \in [Users -> Writes \cup {Nothing}]
          /\ \A v \in Users : held'[v].stage = "open" => held'[v] = held[v]
      BY <3>1, <3>2, <3>3, HoldsType
    <3> QED BY <3>3, <3>4 DEF TypeOK, Readable
  <2>2. ASSUME NEW u \in Users, NEW id \in DOMAIN files, NEW reviewer \in Reviewers,
               Review(u, id, reviewer)
        PROVE  TypeOK'
    <3> DEFINE o == [files[id].observation EXCEPT !.reviews = @ \cup {reviewer}]
    <3>1. files[id].observation \in Observation /\ id \in 1..MaxId
      BY <2>2, ReadableType DEF TypeOK, Review
    <3>2. o \in Observation
      BY <3>1 DEF Observation
    <3>3. Holds(u, id, FALSE, o) /\ UNCHANGED <<files, issued, recorded>>
      BY <2>2 DEF Review
    <3> HIDE DEF o
    <3>4. /\ held' \in [Users -> Writes \cup {Nothing}]
          /\ \A v \in Users : held'[v].stage = "open" => held'[v] = held[v]
      BY <3>1, <3>2, <3>3, HoldsType
    <3> QED BY <3>3, <3>4 DEF TypeOK, Readable
  <2>3. ASSUME NEW u \in Users, Open(u) PROVE TypeOK'
    <3>1. held[u].id \in 1..MaxId
      BY <2>3, OpenFacts DEF Writes
    <3>2. DOMAIN files' \subseteq 1..MaxId /\ files' \in [DOMAIN files' -> Content]
      BY <2>3, <3>1 DEF Open, TypeOK, Content
    <3>3. held' \in [Users -> Writes \cup {Nothing}]
      BY <2>3, OpenFacts DEF Open, TypeOK
    <3>9. /\ DOMAIN files' = DOMAIN files \cup {held[u].id}
          /\ files'[held[u].id] = Empty
          /\ \A id \in DOMAIN files : id # held[u].id => files'[id] = files[id]
          /\ \A v \in Users \ {u} : held'[v] = held[v]
      BY <2>3, OpenFacts
    <3>4. \A v \in Users : held'[v].stage = "open" => held'[v].id \in DOMAIN files'
      <4>1. held'[u].id = held[u].id
        BY <2>3, OpenFacts DEF Writes
      <4> QED BY <2>0, <3>9, <4>1
    <3>5. issued' \in [1..MaxId -> Nat]
      BY <2>3, <3>1 DEF Open, TypeOK
    <3>6. \A id \in DOMAIN files' : Readable(id)' => id \in DOMAIN recorded
      <4>1. Empty.text # "whole"
        BY DEF Empty
      <4> QED BY <2>0, <3>9, <4>1 DEF Readable
    <3>7. recorded' = recorded
      BY <2>3 DEF Open
    <3>8. DOMAIN files \subseteq DOMAIN files'
      BY <3>9
    <3> QED BY <3>2, <3>3, <3>4, <3>5, <3>6, <3>7, <3>8 DEF TypeOK
  <2>4. ASSUME NEW u \in Users, Write(u) PROVE TypeOK'
    <3> DEFINE w == held[u]
    <3>1. w \in Writes /\ w.observation \in Observation /\ w.id \in DOMAIN files
      BY <2>4, WriteFacts DEF Writes
    <3>2. DOMAIN files' = DOMAIN files /\ files' \in [DOMAIN files' -> Content]
      <4>1. \A id \in DOMAIN files : files'[id] \in Content
        BY <2>4, <3>1, WriteFacts DEF TypeOK, Content
      <4>2. \E content : files' = [files EXCEPT ![w.id] = content]
        BY <2>4 DEF Write
      <4> QED BY <2>4, <4>1, <4>2
    <3>3. held' \in [Users -> Writes \cup {Nothing}] /\ issued' = issued
      BY <2>4 DEF Write, TypeOK
    <3>4. \A v \in Users : held'[v].stage = "open" => held'[v].id \in DOMAIN files'
      <4>1. \A v \in Users : held'[v] = IF v = u THEN Nothing ELSE held[v]
        BY <2>4, WriteFacts
      <4>2. Nothing.stage # "open"
        BY DEF Nothing
      <4> QED BY <2>0, <3>2, <4>1, <4>2
    <3>5. /\ recorded' = Recorded(w) /\ DOMAIN Recorded(w) = DOMAIN recorded \cup {w.id}
          /\ Recorded(w) \in [DOMAIN Recorded(w) -> Observation]
      BY <2>4, <3>1, RecordedType DEF Write
    <3>6. DOMAIN recorded' \subseteq DOMAIN files' /\ recorded' \in [DOMAIN recorded' -> Observation]
      BY <2>0, <3>1, <3>2, <3>5
    <3>7. \A id \in DOMAIN files' : Readable(id)' => id \in DOMAIN recorded'
      <4>1. \A id \in DOMAIN files : id # w.id => files'[id] = files[id]
        BY <2>4, WriteFacts
      <4> QED BY <2>0, <3>2, <3>5, <4>1 DEF Readable
    <3> QED BY <3>2, <3>3, <3>4, <3>6, <3>7 DEF TypeOK
  <2>5. ASSUME NEW u \in Users, WriteRemoved(u) PROVE TypeOK'
    BY <2>5 DEF WriteRemoved, TypeOK, Readable, Nothing
  <2>6. ASSUME NEW u \in Users, Dies(u) PROVE TypeOK'
    <3>1. \A v \in Users : held'[v] = IF v = u THEN Nothing ELSE held[v]
      BY <2>6 DEF Dies, TypeOK
    <3>2. held' \in [Users -> Writes \cup {Nothing}]
      BY <2>6 DEF Dies, TypeOK
    <3>3. /\ DOMAIN files' = DOMAIN files /\ files' \in [DOMAIN files' -> Content]
          /\ \A id \in DOMAIN files : files'[id] \in {files[id], Damaged}
      BY <2>6 DEF Dies, TypeOK, Content
    <3>4. \A v \in Users : held'[v].stage = "open" => held'[v].id \in DOMAIN files'
      <4>1. Nothing.stage # "open"
        BY DEF Nothing
      <4> QED BY <2>0, <3>1, <3>3, <4>1
    <3>5. \A id \in DOMAIN files' : Readable(id)' => Readable(id)
      BY <3>3 DEF Readable, Damaged
    <3>6. issued' = issued /\ recorded' = recorded
      BY <2>6 DEF Dies
    <3> QED BY <3>2, <3>3, <3>4, <3>5, <3>6 DEF TypeOK
  <2>7. ASSUME NEW id \in DOMAIN files, Remove(id) PROVE TypeOK'
    <3>1. \A u \in Users : /\ held'[u] \in Writes \cup {Nothing}
                           /\ held'[u].stage = "open" => held'[u] = held[u] /\ held[u].id # id
      <4> SUFFICES ASSUME NEW u \in Users
                   PROVE  /\ held'[u] \in Writes \cup {Nothing}
                          /\ held'[u].stage = "open" => held'[u] = held[u] /\ held[u].id # id
        OBVIOUS
      <4>1. CASE held[u].id = id /\ held[u].stage = "open"
        <5>1. held[u] \in Writes
          BY <4>1, HeldType
        <5>2. held'[u] = [held[u] EXCEPT !.stage = "gone"]
          BY <2>7, <4>1 DEF Remove
        <5> QED BY <5>1, <5>2 DEF Writes
      <4>2. CASE ~(held[u].id = id /\ held[u].stage = "open")
        BY <2>7, <4>2 DEF Remove, TypeOK
      <4> QED BY <4>1, <4>2
    <3>2. held' \in [Users -> Writes \cup {Nothing}]
      BY <2>7, <3>1 DEF Remove
    <3>3. /\ DOMAIN files' = DOMAIN files \ {id} /\ files' \in [DOMAIN files' -> Content]
          /\ \A x \in DOMAIN files' : files'[x] = files[x]
      BY <2>7 DEF Remove, TypeOK
    <3>4. /\ DOMAIN recorded' = DOMAIN recorded \ {id}
          /\ recorded' \in [DOMAIN recorded' -> Observation] /\ issued' = issued
      BY <2>7 DEF Remove, TypeOK
    <3>5. \A x \in DOMAIN files' : Readable(x)' => x \in DOMAIN recorded'
      BY <3>3, <3>4 DEF TypeOK, Readable
    <3>6. \A u \in Users : held'[u].stage = "open" => held'[u].id \in DOMAIN files'
      BY <3>1, <3>3 DEF TypeOK
    <3> QED BY <3>2, <3>3, <3>4, <3>5, <3>6 DEF TypeOK
  <2>8. CASE UNCHANGED vars
    BY <2>8 DEF vars, TypeOK, Readable
  <2> QED BY <2>1, <2>2, <2>3, <2>4, <2>5, <2>6, <2>7, <2>8 DEF Next, LoadRaises
<1> QED BY <1>1, <1>2, PTL DEF Spec

-----------------------------------------------------------------------------
(* One process at a time *)

(* What the repository's promises rest on: nothing locks the directory, and  *)
(* a file whose number has more digits than the pattern is never listed.     *)
Sequential == OneAtATime /\ MaxId <= MaxNumber

(* At most one process is at work.  If its number is on record it writes a   *)
(* review: it has the device on record, and every review.  A file for a new  *)
(* observation is not there until the process opens it.                      *)
HeldInOrder ==
  /\ \A u, v \in Users : ~Idle(u) /\ ~Idle(v) => u = v
  /\ \A u \in Users : ~Idle(u) /\ held[u].id \in DOMAIN recorded =>
       /\ ~held[u].new
       /\ held[u].observation.device = recorded[held[u].id].device
       /\ recorded[held[u].id].reviews \subseteq held[u].observation.reviews
  /\ \A u \in Users : held[u].stage = "ready" /\ held[u].new => held[u].id \notin DOMAIN files

(* The strengthening of both promises: each rests on the other files' being  *)
(* in order when a review loads one, and on what is held in between.         *)
InOrder == HeldInOrder /\ EvidenceNeverReplaced /\ ReadableKeepsReviews

(* With the number pattern wide enough every file is listed. *)
LEMMA AllListed == ASSUME TypeOK, Sequential PROVE ExistingIds = DOMAIN files
<1>1. \A id \in DOMAIN files : id \in 1..MaxId
  BY DEF TypeOK
<1>2. \A id \in DOMAIN files : id <= MaxNumber
  BY <1>1, RepositoryAssumption DEF Sequential
<1> QED BY <1>2 DEF ExistingIds

(* Files and records that do not change, or only fewer of them, stay as good. *)
LEMMA FewerFilesKept ==
  ASSUME EvidenceNeverReplaced, ReadableKeepsReviews,
         \A id \in DOMAIN files' : Readable(id)' =>
           Readable(id) /\ files'[id] = files[id] /\ recorded'[id] = recorded[id]
  PROVE  EvidenceNeverReplaced' /\ ReadableKeepsReviews'
BY DEF EvidenceNeverReplaced, ReadableKeepsReviews, Readable

(* A process that begins, with an observation that is new or holds all that *)
(* is on record.                                                             *)
LEMMA BeginsInOrder ==
  ASSUME Sequential, TypeOK, InOrder,
         NEW u \in Users, NEW id \in 1..MaxId, NEW isNew \in BOOLEAN, NEW o \in Observation,
         MayBegin(u), Holds(u, id, isNew, o), UNCHANGED <<files, issued, recorded>>,
         isNew => id \notin DOMAIN files,
         ~isNew => o.device = recorded[id].device /\ recorded[id].reviews \subseteq o.reviews
  PROVE  InOrder'
<1>1. /\ held'[u] = [id |-> id, stage |-> "ready", new |-> isNew, observation |-> o]
      /\ \A v \in Users : v # u => held'[v] = held[v]
  BY HoldsType
<1>2. /\ held'[u].id = id /\ held'[u].new = isNew /\ held'[u].observation = o
  BY <1>1
<1>3. \A v \in Users : v # u => held'[v] = Nothing
  BY <1>1 DEF MayBegin, Sequential, Idle
<1>4. Nothing.stage # "ready"
  BY DEF Nothing
<1>5. DOMAIN recorded \subseteq DOMAIN files
  BY DEF TypeOK
<1>6. \A v \in Users : v # u => Idle(v)'
  BY <1>3 DEF Idle
<1>7. /\ \A v, w \in Users : ~Idle(v)' /\ ~Idle(w)' => v = w
      /\ \A v \in Users : ~Idle(v)' /\ held'[v].id \in DOMAIN recorded =>
           /\ ~held'[v].new
           /\ held'[v].observation.device = recorded[held'[v].id].device
           /\ recorded[held'[v].id].reviews \subseteq held'[v].observation.reviews
      /\ \A v \in Users : held'[v].stage = "ready" /\ held'[v].new => held'[v].id \notin DOMAIN files
  BY <1>2, <1>3, <1>4, <1>5, <1>6
<1>8. HeldInOrder'
  BY <1>7 DEF HeldInOrder
<1>9. EvidenceNeverReplaced' /\ ReadableKeepsReviews'
  BY DEF InOrder, EvidenceNeverReplaced, ReadableKeepsReviews, Readable
<1> QED BY <1>8, <1>9 DEF InOrder

LEMMA OpensInOrder ==
  ASSUME TypeOK, InOrder, NEW u \in Users, Open(u)
  PROVE  InOrder'
<1>1. /\ ~Idle(u) /\ held[u] \in Writes
      /\ DOMAIN files' = DOMAIN files \cup {held[u].id}
      /\ files'[held[u].id] = Empty
      /\ \A id \in DOMAIN files : id # held[u].id => files'[id] = files[id]
      /\ \A v \in Users \ {u} : held'[v] = held[v]
      /\ held'[u] = [held[u] EXCEPT !.stage = "open"]
  BY OpenFacts
<1>2. /\ held'[u].id = held[u].id /\ held'[u].new = held[u].new
      /\ held'[u].observation = held[u].observation /\ held'[u].stage = "open"
  BY <1>1 DEF Writes
<1>3. recorded' = recorded
  BY DEF Open
<1>4. \A v \in Users \ {u} : Idle(v) /\ Idle(v)'
  BY <1>1 DEF InOrder, HeldInOrder, Idle
<1>5. \A v \in Users \ {u} : held'[v].stage # "ready"
  BY <1>4 DEF Idle, Nothing
<1>6. HeldInOrder'
  <2>1. \A v, x \in Users : ~Idle(v)' /\ ~Idle(x)' => v = x
    BY <1>4
  <2>2. /\ held[u].id \in DOMAIN recorded =>
              /\ ~held[u].new
              /\ held[u].observation.device = recorded[held[u].id].device
              /\ recorded[held[u].id].reviews \subseteq held[u].observation.reviews
    BY <1>1 DEF InOrder, HeldInOrder
  <2>3. \A v \in Users : ~Idle(v)' /\ held'[v].id \in DOMAIN recorded' =>
              /\ ~held'[v].new
              /\ held'[v].observation.device = recorded'[held'[v].id].device
              /\ recorded'[held'[v].id].reviews \subseteq held'[v].observation.reviews
    BY <1>2, <1>3, <1>4, <2>2
  <2>4. \A v \in Users : held'[v].stage # "ready"
    BY <1>2, <1>5
  <2> QED BY <2>1, <2>3, <2>4 DEF HeldInOrder
<1>7. Empty.text # "whole"
  BY DEF Empty
<1>8. \A id \in DOMAIN files' : Readable(id)' => Readable(id) /\ files'[id] = files[id]
  BY <1>1, <1>7 DEF Readable
<1>9. EvidenceNeverReplaced' /\ ReadableKeepsReviews'
  BY <1>3, <1>8, FewerFilesKept DEF InOrder
<1> QED BY <1>6, <1>9 DEF InOrder

LEMMA WritesInOrder ==
  ASSUME TypeOK, InOrder, NEW u \in Users, Write(u)
  PROVE  InOrder'
<1> DEFINE w == held[u]
<1>1. /\ ~Idle(u) /\ w \in Writes /\ w.id \in DOMAIN files
      /\ DOMAIN files' = DOMAIN files
      /\ files'[w.id] \in {Whole(w.observation), Damaged}
      /\ \A id \in DOMAIN files : id # w.id => files'[id] = files[id]
      /\ \A v \in Users : held'[v] = IF v = u THEN Nothing ELSE held[v]
  BY WriteFacts
<1>2. \A v \in Users : held'[v] = Nothing
  BY <1>1 DEF InOrder, HeldInOrder, Idle
<1>3. HeldInOrder'
  <2>1. Nothing.stage # "ready" /\ \A v \in Users : Idle(v)'
    BY <1>2 DEF Nothing, Idle
  <2> QED BY <1>2, <2>1 DEF HeldInOrder
<1>4. recorded' = Recorded(w)
  BY DEF Write
<1>5. /\ \A id \in DOMAIN recorded : id # w.id => recorded'[id] = recorded[id]
      /\ IF w.id \in DOMAIN recorded
         THEN /\ recorded'[w.id].device = recorded[w.id].device
              /\ recorded'[w.id].reviews = recorded[w.id].reviews \cup w.observation.reviews
         ELSE recorded'[w.id] = w.observation
  BY <1>1, <1>4, RecordedType
<1>6. /\ recorded'[w.id].device = w.observation.device
      /\ recorded'[w.id].reviews \subseteq w.observation.reviews
  BY <1>1, <1>5 DEF InOrder, HeldInOrder
<1>7. Damaged.text # "whole" /\ Whole(w.observation).observation = w.observation
  BY DEF Damaged, Whole
<1>8. ASSUME NEW id \in DOMAIN files', Readable(id)'
      PROVE  /\ files'[id].observation.device = recorded'[id].device
             /\ recorded'[id].reviews \subseteq files'[id].observation.reviews
  <2>1. files'[id].text = "whole"
    BY <1>8 DEF Readable
  <2>2. CASE id = w.id
    BY <2>1, <2>2, <1>1, <1>6, <1>7
  <2>3. CASE id # w.id
    <3>1. id \in DOMAIN files /\ files'[id] = files[id] /\ Readable(id)
      BY <2>1, <2>3, <1>1 DEF Readable
    <3>2. id \in DOMAIN recorded
      BY <3>1 DEF TypeOK
    <3>3. recorded'[id] = recorded[id]
      BY <2>3, <3>2, <1>5
    <3> QED BY <3>1, <3>3 DEF InOrder, EvidenceNeverReplaced, ReadableKeepsReviews
  <2> QED BY <2>2, <2>3
<1>9. EvidenceNeverReplaced' /\ ReadableKeepsReviews'
  BY <1>8 DEF EvidenceNeverReplaced, ReadableKeepsReviews
<1> QED BY <1>3, <1>9 DEF InOrder

(* A process that is over, wherever it stopped. *)
LEMMA EndsInOrder ==
  ASSUME TypeOK, InOrder, NEW u \in Users, Dies(u) \/ WriteRemoved(u)
  PROVE  InOrder'
<1>1. /\ \A v \in Users : held'[v] = IF v = u THEN Nothing ELSE held[v]
      /\ ~Idle(u) /\ recorded' = recorded
  BY HeldType DEF Dies, WriteRemoved, TypeOK
<1>2. \A v \in Users : held'[v] = Nothing
  BY <1>1 DEF InOrder, HeldInOrder, Idle
<1>3. HeldInOrder'
  <2>1. Nothing.stage # "ready" /\ \A v \in Users : Idle(v)'
    BY <1>2 DEF Nothing, Idle
  <2> QED BY <1>2, <2>1 DEF HeldInOrder
<1>4. /\ DOMAIN files' = DOMAIN files
      /\ \A id \in DOMAIN files : files'[id] \in {files[id], Damaged}
  BY DEF Dies, WriteRemoved, TypeOK
<1>5. \A id \in DOMAIN files' : Readable(id)' => Readable(id) /\ files'[id] = files[id]
  BY <1>4 DEF Readable, Damaged
<1>6. EvidenceNeverReplaced' /\ ReadableKeepsReviews'
  BY <1>1, <1>5, FewerFilesKept DEF InOrder
<1> QED BY <1>3, <1>6 DEF InOrder

LEMMA RemovalInOrder ==
  ASSUME TypeOK, InOrder, NEW id \in DOMAIN files, Remove(id)
  PROVE  InOrder'
<1>1. \A u \in Users : /\ Idle(u)' <=> Idle(u)
                       /\ held'[u].id = held[u].id /\ held'[u].new = held[u].new
                       /\ held'[u].observation = held[u].observation
                       /\ held'[u].stage = "ready" => held[u].stage = "ready"
  <2> SUFFICES ASSUME NEW u \in Users
               PROVE  /\ Idle(u)' <=> Idle(u)
                      /\ held'[u].id = held[u].id /\ held'[u].new = held[u].new
                      /\ held'[u].observation = held[u].observation
                      /\ held'[u].stage = "ready" => held[u].stage = "ready"
    OBVIOUS
  <2>1. CASE held[u].id = id /\ held[u].stage = "open"
    <3>1. held[u] \in Writes /\ ~Idle(u)
      BY <2>1, HeldType
    <3>2. held'[u] = [held[u] EXCEPT !.stage = "gone"]
      BY <2>1 DEF Remove
    <3>3. held'[u].stage = "gone" /\ Nothing.stage = "idle"
      BY <3>1, <3>2 DEF Writes, Nothing
    <3>4. held'[u] # Nothing
      BY <3>3
    <3> QED BY <3>1, <3>2, <3>3, <3>4 DEF Writes, Idle
  <2>2. CASE ~(held[u].id = id /\ held[u].stage = "open")
    <3>1. held'[u] = held[u]
      BY <2>2 DEF Remove
    <3> QED BY <3>1 DEF Idle
  <2> QED BY <2>1, <2>2
<1>2. /\ DOMAIN files' = DOMAIN files \ {id} /\ DOMAIN recorded' = DOMAIN recorded \ {id}
      /\ \A x \in DOMAIN files' : files'[x] = files[x]
      /\ \A x \in DOMAIN recorded' : recorded'[x] = recorded[x]
  BY DEF Remove
<1>3. HeldInOrder'
  BY <1>1, <1>2 DEF InOrder, HeldInOrder
<1>4. \A x \in DOMAIN files' : Readable(x)' =>
        Readable(x) /\ files'[x] = files[x] /\ recorded'[x] = recorded[x]
  <2>1. \A x \in DOMAIN files : Readable(x) => x \in DOMAIN recorded
    BY DEF TypeOK
  <2> QED BY <1>2, <2>1 DEF Readable
<1>5. EvidenceNeverReplaced' /\ ReadableKeepsReviews'
  BY <1>4, FewerFilesKept DEF InOrder
<1> QED BY <1>3, <1>5 DEF InOrder

LEMMA InOrderStep ==
  ASSUME Sequential
  PROVE  TypeOK /\ InOrder /\ [Next]_vars => InOrder'
<1> SUFFICES ASSUME TypeOK, InOrder, [Next]_vars PROVE InOrder'
  OBVIOUS
<1>1. ASSUME NEW u \in Users, NEW device \in Unresolved, Capture(u, device) PROVE InOrder'
  <2> DEFINE o == [device |-> device, reviews |-> {}]
  <2>1. o \in Observation /\ NextObservationId \in 1..MaxId
    BY <1>1, NextIdType, RepositoryAssumption DEF Capture, Observation
  <2>2. NextObservationId \notin DOMAIN files
    BY NextIdType, AllListed, RepositoryAssumption DEF TypeOK
  <2>3. /\ MayBegin(u) /\ Holds(u, NextObservationId, TRUE, o)
        /\ UNCHANGED <<files, issued, recorded>>
    BY <1>1 DEF Capture
  <2> HIDE DEF o
  <2> QED BY <2>1, <2>2, <2>3, BeginsInOrder
<1>2. ASSUME NEW u \in Users, NEW id \in DOMAIN files, NEW reviewer \in Reviewers,
             Review(u, id, reviewer)
      PROVE  InOrder'
  <2> DEFINE o == [files[id].observation EXCEPT !.reviews = @ \cup {reviewer}]
  <2>1. Readable(id) /\ files[id].observation \in Observation /\ id \in 1..MaxId
    BY <1>2, ReadableType DEF Review, TypeOK
  <2>2. /\ o \in Observation /\ o.device = files[id].observation.device
        /\ files[id].observation.reviews \subseteq o.reviews
    BY <2>1 DEF Observation
  <2>3. /\ MayBegin(u) /\ Holds(u, id, FALSE, o) /\ UNCHANGED <<files, issued, recorded>>
    BY <1>2 DEF Review
  <2> HIDE DEF o
  <2>4. o.device = recorded[id].device /\ recorded[id].reviews \subseteq o.reviews
    BY <2>1, <2>2 DEF InOrder, EvidenceNeverReplaced, ReadableKeepsReviews
  <2> QED BY <2>1, <2>2, <2>3, <2>4, BeginsInOrder
<1>3. CASE UNCHANGED vars
  BY <1>3 DEF vars, InOrder, HeldInOrder, EvidenceNeverReplaced, ReadableKeepsReviews, Idle, Readable
<1> QED BY <1>1, <1>2, <1>3, OpensInOrder, WritesInOrder, EndsInOrder, RemovalInOrder
        DEF Next, LoadRaises

LEMMA AlwaysInOrder == ASSUME Sequential PROVE Spec => []InOrder
<1>1. Init => InOrder
  BY DEF Init, InOrder, HeldInOrder, EvidenceNeverReplaced, ReadableKeepsReviews, Idle, Nothing
<1>2. TypeOK /\ InOrder /\ [Next]_vars => InOrder'
  BY InOrderStep
<1> QED BY <1>1, <1>2, TypeCorrect, PTL DEF Spec

(* A file that can be read has the evidence of its own device, whatever was  *)
(* removed and wherever a process died.                                      *)
THEOREM EvidenceIsNeverReplaced == ASSUME Sequential PROVE Spec => []EvidenceNeverReplaced
<1>1. InOrder => EvidenceNeverReplaced
  BY DEF InOrder
<1> QED BY <1>1, AlwaysInOrder, PTL

(* A file that can be read has every review on record, wherever a process    *)
(* died.                                                                     *)
THEOREM ReadableAlwaysKeepsReviews == ASSUME Sequential PROVE Spec => []ReadableKeepsReviews
<1>1. InOrder => ReadableKeepsReviews
  BY DEF InOrder
<1> QED BY <1>1, AlwaysInOrder, PTL

-----------------------------------------------------------------------------
(* Numbers *)

(* The strengthening: a number that was issued is not above the newest file, *)
(* readable or not, which nobody removes, and a new observation that is not  *)
(* on disk yet is held under a number that was not issued.                   *)
BelowNewest ==
  /\ IdsNeverReused
  /\ \A id \in 1..MaxId : issued[id] > 0 => \E f \in DOMAIN files : f >= id
  /\ \A u \in Users : held[u].stage = "ready" /\ held[u].new => issued[held[u].id] = 0

LEMMA BelowNewestCapture ==
  ASSUME Sequential, TypeOK, BelowNewest, NEW u \in Users, NEW device \in Unresolved,
         Capture(u, device)
  PROVE  BelowNewest'
<1> DEFINE next == NextObservationId
           o == [device |-> device, reviews |-> {}]
<1>1. /\ Holds(u, next, TRUE, o) /\ files' = files /\ issued' = issued /\ o \in Observation
  BY DEF Capture, Observation
<1>2. next \in 1..MaxId /\ \A f \in DOMAIN files : f < next
  BY NextIdType, AllListed, RepositoryAssumption DEF Capture
<1> HIDE DEF next, o
<1>3. issued[next] = 0
  <2>1. issued[next] \in Nat
    BY <1>2 DEF TypeOK
  <2>2. \A f \in DOMAIN files : ~(f >= next)
    BY <1>2, RepositoryAssumption DEF TypeOK
  <2>3. ~(issued[next] > 0)
    BY <1>2, <2>2 DEF BelowNewest
  <2> QED BY <2>1, <2>3
<1>4. /\ held'[u] = [id |-> next, stage |-> "ready", new |-> TRUE, observation |-> o]
      /\ \A v \in Users : v # u => held'[v] = held[v]
  BY <1>1, <1>2, HoldsType
<1> QED BY <1>1, <1>3, <1>4 DEF BelowNewest, IdsNeverReused

LEMMA BelowNewestOpen ==
  ASSUME TypeOK, HeldInOrder, BelowNewest, NEW u \in Users, Open(u)
  PROVE  BelowNewest'
<1> DEFINE w == held[u]
<1>1. /\ w \in Writes /\ ~Idle(u) /\ w.id \in 1..MaxId
      /\ DOMAIN files' = DOMAIN files \cup {w.id}
      /\ \A v \in Users \ {u} : held'[v] = held[v]
  BY OpenFacts DEF Writes
<1>2. \A v \in Users : held'[v].stage # "ready"
  <2>1. held'[u].stage = "open"
    <3>1. held'[u] = [w EXCEPT !.stage = "open"] /\ w \in Writes
      BY OpenFacts
    <3> QED BY <3>1 DEF Writes
  <2>2. \A v \in Users \ {u} : held'[v] = Nothing
    BY <1>1 DEF HeldInOrder, Idle
  <2> QED BY <2>1, <2>2 DEF Nothing
<1>3. \A id \in 1..MaxId : /\ issued'[id] \in {issued[id], issued[id] + 1}
                           /\ issued'[id] # issued[id] =>
                                id = w.id /\ issued[id] = 0
  <2>1. CASE w.new
    <3>1. issued[w.id] = 0
      BY <2>1 DEF Open, BelowNewest
    <3> QED BY <2>1, <3>1, <1>1 DEF Open, TypeOK
  <2>2. CASE ~w.new
    BY <2>2 DEF Open
  <2> QED BY <2>1, <2>2
<1>4. IdsNeverReused'
  BY <1>3 DEF IdsNeverReused, BelowNewest, TypeOK
<1>5. ASSUME NEW id \in 1..MaxId, issued'[id] > 0
      PROVE  \E f \in DOMAIN files' : f >= id
  <2>1. CASE id = w.id
    BY <2>1, <1>1, RepositoryAssumption
  <2>2. CASE id # w.id
    BY <2>2, <1>1, <1>3, <1>5 DEF BelowNewest
  <2> QED BY <2>1, <2>2
<1> QED BY <1>2, <1>4, <1>5 DEF BelowNewest

LEMMA BelowNewestRemove ==
  ASSUME Removal # "any", TypeOK, BelowNewest, NEW id \in DOMAIN files, Remove(id)
  PROVE  BelowNewest'
<1>1. /\ DOMAIN files' = DOMAIN files \ {id} /\ issued' = issued
      /\ \A u \in Users : held'[u] = IF held[u].id = id /\ held[u].stage = "open"
                                     THEN [held[u] EXCEPT !.stage = "gone"] ELSE held[u]
  BY DEF Remove
<1>2. DOMAIN files \in SUBSET (1..MaxId) /\ MaxId \in Nat
  BY RepositoryAssumption DEF TypeOK
<1>3. PICK m \in DOMAIN files : m # id /\ \A f \in DOMAIN files : m >= f
  BY <1>2, MaxIsLargest, RepositoryAssumption DEF Remove
<1>4. \A f \in DOMAIN files : \A x \in 1..MaxId : f >= x => m >= x
  BY <1>2, <1>3
<1>5. \A x \in 1..MaxId : issued[x] > 0 => m >= x
  BY <1>4 DEF BelowNewest
<1>6. ASSUME NEW u \in Users, held'[u].stage = "ready" PROVE held'[u] = held[u]
  <2>1. CASE held[u].id = id /\ held[u].stage = "open"
    <3>1. held[u] \in Writes
      BY <2>1, HeldType
    <3>2. held'[u].stage = "gone"
      BY <1>1, <2>1, <3>1 DEF Writes
    <3> QED BY <1>6, <3>2
  <2>2. CASE ~(held[u].id = id /\ held[u].stage = "open")
    BY <1>1, <2>2
  <2> QED BY <2>1, <2>2
<1> QED BY <1>1, <1>3, <1>5, <1>6 DEF BelowNewest, IdsNeverReused

(* IDs are never reused, even after a file is removed or a capture died, as  *)
(* long as the newest file is not removed (repository.py:49, KNOW-003).      *)
THEOREM IdsAreNeverReused ==
  ASSUME Sequential, Removal # "any"
  PROVE  Spec => []IdsNeverReused
<1>1. Init => BelowNewest
  BY DEF Init, BelowNewest, IdsNeverReused, Nothing
<1>2. TypeOK /\ InOrder /\ BelowNewest /\ [Next]_vars => BelowNewest'
  <2> SUFFICES ASSUME TypeOK, HeldInOrder, BelowNewest, [Next]_vars PROVE BelowNewest'
    BY DEF InOrder
  <2>1. ASSUME NEW u \in Users, NEW id \in DOMAIN files, NEW reviewer \in Reviewers,
               Review(u, id, reviewer)
        PROVE  BelowNewest'
    <3>1. /\ files' = files /\ issued' = issued
          /\ \A v \in Users : held'[v] = held[v] \/ ~held'[v].new
      BY <2>1 DEF Review, Holds, TypeOK
    <3> QED BY <3>1 DEF BelowNewest, IdsNeverReused
  <2>2. ASSUME NEW u \in Users, Write(u) \/ WriteRemoved(u) \/ Dies(u) PROVE BelowNewest'
    <3>1. /\ DOMAIN files' = DOMAIN files /\ issued' = issued
          /\ \A v \in Users : held'[v] = held[v] \/ held'[v] = Nothing
      BY <2>2 DEF Write, WriteRemoved, Dies, TypeOK
    <3>2. Nothing.stage # "ready"
      BY DEF Nothing
    <3> QED BY <3>1, <3>2 DEF BelowNewest, IdsNeverReused
  <2>3. CASE UNCHANGED vars
    BY <2>3 DEF vars, BelowNewest, IdsNeverReused
  <2> QED BY <2>1, <2>2, <2>3, BelowNewestCapture, BelowNewestOpen, BelowNewestRemove
          DEF Next, LoadRaises
<1>3. BelowNewest => IdsNeverReused
  BY DEF BelowNewest
<1> QED BY <1>1, <1>2, <1>3, TypeCorrect, AlwaysInOrder, PTL DEF Spec
=============================================================================
