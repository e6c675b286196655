----------------------------- MODULE Resolution -----------------------------
(***************************************************************************)
(* IdentityResolver and RelationshipResolver: pure functions from the      *)
(* retained observations to canonical identities and relationships.        *)
(***************************************************************************)
EXTENDS Evidence

CONSTANT CategoryCardinality  \* category -> "single" or "multiple"

ASSUME PolicyAssumption ==
  CategoryCardinality \in [DOMAIN CategoryCardinality -> {"single", "multiple"}]

Several(S) == \E x, y \in S : x # y

Values(obs) == {o.value : o \in obs}

(* Mutation: every run counts as a source of its own. *)
Sources_PerRun(obs) == {<<o.source, o.run>> : o \in obs}

Sources(obs) == {o.source : o \in obs}

(* One property of one subject: disagreement first, then corroboration. *)
PropertyState(obs) ==
  IF Several(Values(obs)) THEN "conflicting"
  ELSE IF Several(Sources(obs)) THEN "confirmed"
  ELSE "weak"

About(obs, subject) == {o \in IdentitiesIn(obs) : o.subject = subject}

PropertyStates(obs, subject) ==
  [p \in {o.property : o \in About(obs, subject)} |->
     PropertyState({o \in About(obs, subject) : o.property = p})]

(* One conflicting property makes the identity conflicting, whatever the   *)
(* others say; "probable" is breadth without depth.                        *)
RollUp(states) ==
  LET some(state) == \E p \in DOMAIN states : states[p] = state
  IN  IF some("conflicting") THEN "conflicting"
      ELSE IF some("confirmed") THEN "confirmed"
      ELSE IF Several(DOMAIN states) THEN "probable"
      ELSE "weak"

(* IdentityResolver.resolve: one canonical identity per subject observed. *)
ResolveIdentities(obs) ==
  [s \in Subjects(obs) |->
     [state |-> RollUp(PropertyStates(obs, s)), properties |-> PropertyStates(obs, s)]]

-----------------------------------------------------------------------------
(* A category the policy does not list allows several related subjects. *)
CardinalityFor(category) ==
  IF category \in DOMAIN CategoryCardinality THEN CategoryCardinality[category]
  ELSE "multiple"

(* Only observations between two distinct resolved subjects are kept. *)
Resolvable(obs, subjects) ==
  {o \in RelationshipsIn(obs) : /\ o.subject \in subjects
                                /\ o.related \in subjects
                                /\ o.subject # o.related}

EdgeState(group, related) ==
  IF Several({o.related : o \in group})
     /\ \A o \in group : CardinalityFor(o.category) = "single"
  THEN "conflicting"
  ELSE IF Several(Sources({o \in group : o.related = related})) THEN "confirmed"
  ELSE "weak"

(* The edge an observation is about, its state judged in its (subject,      *)
(* category) group.                                                         *)
Edge(kept, o) ==
  [subject |-> o.subject, category |-> o.category, related |-> o.related,
   cardinality |-> CardinalityFor(o.category),
   state |-> EdgeState({r \in kept : r.subject = o.subject /\ r.category = o.category},
                       o.related)]

(* RelationshipResolver.resolve: one edge per (subject, category, related). *)
ResolveRelationships(obs, subjects) ==
  {Edge(Resolvable(obs, subjects), o) : o \in Resolvable(obs, subjects)}
=============================================================================
