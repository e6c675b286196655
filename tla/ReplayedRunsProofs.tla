------------------------- MODULE ReplayedRunsProofs -------------------------
(***************************************************************************)
(* What a replay of a run's directory says, for every set of runs and      *)
(* whatever they observed.  First the order of texts and what sorting does *)
(* with it; then, that the rows of relationships.csv are a function of the *)
(* set of observations, so that files which were written whole match; last *)
(* that the files are whole when the property says so.                     *)
(***************************************************************************)
EXTENDS ReplayedRuns, ReportRunProofs, SequenceTheorems, FiniteSetTheorems

-----------------------------------------------------------------------------
(* Arrangements *)

(* A set of naturals that is not empty has a least member. *)
LEMMA LeastExists ==
  ASSUME NEW S \in SUBSET Nat, S # {}
  PROVE  \E x \in S : \A y \in S : x <= y
PROOF
<1>0. PICK n \in S : TRUE
  OBVIOUS
<1> DEFINE R == StrictSubsetOrdering(1..n)
           T == {1..m : m \in {k \in 0..n : k \in S}}
<1>1. n \in Nat /\ IsFiniteSet(1..n)
  BY FS_Interval
<1>2. IsWellFoundedOn(R, FiniteSubsetsOf(1..n))
  BY FS_StrictSubsetOrderingWellFounded
<1>3. T \subseteq FiniteSubsetsOf(1..n) /\ T # {}
  <2>1. FiniteSubsetsOf(1..n) = SUBSET (1..n)
    BY <1>1, FS_FiniteSubsetsOfFinite
  <2>2. \A m \in 0..n : 1..m \in SUBSET (1..n)
    BY <1>1
  <2>3. n \in {k \in 0..n : k \in S}
    BY <1>1
  <2> QED BY <2>1, <2>2, <2>3
<1>4. PICK t \in T : \A u \in T : ~(<<u, t>> \in R)
  <2> HIDE DEF R, T
  <2> QED BY <1>2, <1>3, WFMin
<1>5. PICK m \in 0..n : m \in S /\ t = 1..m
  BY <1>4
<1>6. ASSUME NEW y \in S, y < m PROVE FALSE
  <2>1. y \in 0..n /\ y \in S
    BY <1>1, <1>5, <1>6
  <2>2. 1..y \in T
    BY <2>1
  <2>3. 1..y \subseteq 1..m /\ m \in 1..m /\ m \notin 1..y /\ 1..m \subseteq 1..n
    BY <1>1, <1>5, <1>6, <2>1
  <2>4. <<1..y, 1..m>> \in R
    BY <2>3 DEF StrictSubsetOrdering
  <2> HIDE DEF R, T
  <2> QED BY <1>4, <1>5, <2>2, <2>4
<1> QED BY <1>1, <1>5, <1>6

(* R orders S, strictly and totally. *)
Orders(R, S) ==
  /\ \A x \in S : <<x, x>> \notin R
  /\ \A x, y, z \in S : <<x, y>> \in R /\ <<y, z>> \in R => <<x, z>> \in R
  /\ \A x, y \in S : x = y \/ <<x, y>> \in R \/ <<y, x>> \in R

(* s lists the members of S, all of them and in the order R. *)
Lists(s, S, R) ==
  /\ DOMAIN s = 1..Cardinality(S)
  /\ \A i \in DOMAIN s : s[i] \in S
  /\ \A x \in S : \E i \in DOMAIN s : s[i] = x
  /\ \A i, j \in DOMAIN s : i < j => <<s[i], s[j]>> \in R

Before(S, R, x) == {y \in S : <<y, x>> \in R}

(* The number of members before x tells x from every other member. *)
LEMMA RanksDiffer ==
  ASSUME NEW S, IsFiniteSet(S), NEW R, Orders(R, S), NEW x \in S, NEW y \in S
  PROVE  /\ Cardinality(Before(S, R, x)) \in 0..(Cardinality(S) - 1)
         /\ <<x, y>> \in R =>
              Cardinality(Before(S, R, x)) < Cardinality(Before(S, R, y))
         /\ Cardinality(Before(S, R, x)) = Cardinality(Before(S, R, y)) => x = y
PROOF
<1>1. ASSUME NEW z \in S
      PROVE  /\ IsFiniteSet(Before(S, R, z)) /\ Cardinality(Before(S, R, z)) \in Nat
             /\ Cardinality(Before(S, R, z)) <= Cardinality(S) - 1
  <2>1. Before(S, R, z) \in SUBSET S /\ z \notin Before(S, R, z)
    BY DEF Before, Orders
  <2>2. IsFiniteSet(Before(S, R, z)) /\ Cardinality(Before(S, R, z)) <= Cardinality(S)
    BY <2>1, FS_Subset
  <2>3. Cardinality(Before(S, R, z)) # Cardinality(S)
    BY <2>1, FS_Subset
  <2>4. Cardinality(S) \in Nat /\ Cardinality(Before(S, R, z)) \in Nat
    BY <2>2, FS_CardinalityType
  <2> QED BY <2>2, <2>3, <2>4
<1>2. ASSUME NEW z \in S, NEW w \in S, <<z, w>> \in R
      PROVE  Cardinality(Before(S, R, z)) < Cardinality(Before(S, R, w))
  <2>1. Before(S, R, z) \in SUBSET Before(S, R, w)
    BY <1>2 DEF Before, Orders
  <2>2. Before(S, R, z) # Before(S, R, w)
    BY <1>2 DEF Before, Orders
  <2>3. IsFiniteSet(Before(S, R, w))
    BY <1>1
  <2>4. /\ Cardinality(Before(S, R, z)) <= Cardinality(Before(S, R, w))
        /\ Cardinality(Before(S, R, z)) # Cardinality(Before(S, R, w))
    BY <2>1, <2>2, <2>3, FS_Subset
  <2>5. Cardinality(Before(S, R, z)) \in Nat /\ Cardinality(Before(S, R, w)) \in Nat
    BY <1>1
  <2> QED BY <2>4, <2>5
<1>3. Cardinality(S) \in Nat
  BY FS_CardinalityType
<1>4. Cardinality(Before(S, R, x)) \in 0..(Cardinality(S) - 1)
  BY <1>1, <1>3
<1>5. Cardinality(Before(S, R, x)) = Cardinality(Before(S, R, y)) => x = y
  <2>1. x = y \/ <<x, y>> \in R \/ <<y, x>> \in R
    BY DEF Orders
  <2>2. <<x, y>> \in R => Cardinality(Before(S, R, x)) < Cardinality(Before(S, R, y))
    BY <1>2
  <2>3. <<y, x>> \in R => Cardinality(Before(S, R, y)) < Cardinality(Before(S, R, x))
    BY <1>2
  <2>4. Cardinality(Before(S, R, x)) \in Nat /\ Cardinality(Before(S, R, y)) \in Nat
    BY <1>1
  <2> QED BY <2>1, <2>2, <2>3, <2>4
<1> QED BY <1>2, <1>4, <1>5

(* The arrangement of a finite set lists it. *)
LEMMA ArrangedLists ==
  ASSUME NEW S, IsFiniteSet(S), NEW R, Orders(R, S)
  PROVE  Lists(Arranged(S, R), S, R)
PROOF
<1> DEFINE C == Cardinality(S)
           rank(x) == Cardinality(Before(S, R, x))
           f == [x \in S |-> rank(x) + 1]
           a == Arranged(S, R)
<1>1. C \in Nat
  BY FS_CardinalityType
<1>2. /\ \A x \in S : rank(x) \in 0..(C - 1)
      /\ \A x, y \in S : <<x, y>> \in R => rank(x) < rank(y)
      /\ \A x, y \in S : rank(x) = rank(y) => x = y
  BY RanksDiffer
<1>3. \A k \in 1..C : \E x \in S : rank(x) = k - 1
  <2>1. f \in Injection(S, 1..C)
    <3>1. \A x \in S : rank(x) + 1 \in 1..C
      <4> HIDE DEF C, rank
      <4> QED BY <1>1, <1>2
    <3>2. \A x, y \in S : rank(x) + 1 = rank(y) + 1 => x = y
      <4>1. \A x \in S : rank(x) \in Int
        <5> HIDE DEF C, rank
        <5> QED BY <1>1, <1>2
      <4> HIDE DEF C, rank
      <4> QED BY <1>2, <4>1
    <3> HIDE DEF C, rank
    <3> QED BY <3>1, <3>2 DEF Injection, IsInjective
  <2>2. IsFiniteSet(1..C) /\ Cardinality(1..C) = C
    <3> HIDE DEF C
    <3> QED BY <1>1, FS_Interval
  <2>3. f \in Surjection(S, 1..C)
    <3> HIDE DEF f
    <3> QED BY <2>1, <2>2, FS_Injection
  <2>4. \A k \in 1..C : \E x \in S : rank(x) + 1 = k
    <3> HIDE DEF C, rank
    <3> QED BY <2>3 DEF Surjection
  <2> HIDE DEF C, rank
  <2> QED
    <3> SUFFICES ASSUME NEW k \in 1..C PROVE \E x \in S : rank(x) = k - 1
      OBVIOUS
    <3>1. PICK x \in S : rank(x) + 1 = k
      BY <2>4
    <3>2. rank(x) \in Int
      BY <1>1, <1>2
    <3> QED BY <3>1, <3>2
<1>4. DOMAIN a = 1..C /\ \A k \in 1..C : a[k] = CHOOSE x \in S : rank(x) = k - 1
  BY DEF Arranged, Before
<1>5. \A k \in 1..C : a[k] \in S /\ rank(a[k]) = k - 1
  <2> SUFFICES ASSUME NEW k \in 1..C PROVE a[k] \in S /\ rank(a[k]) = k - 1
    OBVIOUS
  <2> HIDE DEF a, rank, C
  <2>1. a[k] = CHOOSE x \in S : rank(x) = k - 1
    BY <1>4
  <2> QED BY <1>3, <2>1
<1> HIDE DEF a, rank, C
<1>6. \A x \in S : \E i \in 1..C : a[i] = x
  <2> SUFFICES ASSUME NEW x \in S PROVE \E i \in 1..C : a[i] = x
    OBVIOUS
  <2>1. rank(x) + 1 \in 1..C /\ (rank(x) + 1) - 1 = rank(x)
    BY <1>1, <1>2
  <2>2. a[rank(x) + 1] \in S /\ rank(a[rank(x) + 1]) = rank(x)
    BY <1>5, <2>1
  <2>3. a[rank(x) + 1] = x
    BY <1>2, <2>2
  <2> QED BY <2>1, <2>3
<1>7. ASSUME NEW i \in 1..C, NEW j \in 1..C, i < j PROVE <<a[i], a[j]>> \in R
  <2>1. a[i] \in S /\ a[j] \in S /\ rank(a[i]) = i - 1 /\ rank(a[j]) = j - 1
    BY <1>5
  <2>2. a[i] # a[j] /\ ~(rank(a[j]) < rank(a[i]))
    BY <1>1, <1>7, <2>1
  <2> QED BY <1>2, <2>1, <2>2 DEF Orders
<1>8. DOMAIN a = 1..Cardinality(S)
  BY <1>4 DEF C
<1> QED BY <1>4, <1>5, <1>6, <1>7, <1>8 DEF Lists, a

(* There is only one list of a set in an order: a sequence that lists it, of *)
(* any length, is its arrangement.                                           *)
LEMMA ListIsArranged ==
  ASSUME NEW S, NEW R, Orders(R, S), NEW n \in Nat, NEW s \in [1..n -> S],
         \A x \in S : \E i \in 1..n : s[i] = x,
         \A i, j \in 1..n : i < j => <<s[i], s[j]>> \in R
  PROVE  IsFiniteSet(S) /\ n = Cardinality(S) /\ s = Arranged(S, R)
PROOF
<1> DOMAIN s = 1..n
  OBVIOUS
<1>1. \A i, j \in 1..n : s[i] = s[j] => i = j
  <2> SUFFICES ASSUME NEW i \in 1..n, NEW j \in 1..n, s[i] = s[j], i # j PROVE FALSE
    OBVIOUS
  <2>1. i < j \/ j < i
    OBVIOUS
  <2> QED BY <2>1 DEF Orders
<1>2. ASSUME NEW m \in 0..n
      PROVE  LET T == {s[i] : i \in 1..m} IN IsFiniteSet(T) /\ Cardinality(T) = m
  <2> DEFINE T == {s[i] : i \in 1..m}
             g == [i \in 1..m |-> s[i]]
  <2>1. m \in Nat /\ 1..m \subseteq 1..n
    OBVIOUS
  <2>2. g \in [1..m -> T] /\ \A i \in 1..m : g[i] = s[i]
    OBVIOUS
  <2>3. \A i, j \in 1..m : g[i] = g[j] => i = j
    BY <1>1, <2>1, <2>2
  <2>4. \A t \in T : \E i \in 1..m : g[i] = t
    BY <2>2
  <2>5. g \in Bijection(1..m, T)
    <3> HIDE DEF g, T
    <3> QED BY <2>2, <2>3, <2>4 DEF Bijection, Injection, Surjection, IsInjective
  <2>6. ExistsBijection(1..m, T)
    BY <2>5 DEF ExistsBijection
  <2>7. IsFiniteSet(1..m) /\ Cardinality(1..m) = m
    BY <2>1, FS_Interval
  <2> HIDE DEF T
  <2>8. IsFiniteSet(T) /\ Cardinality(T) = m
    BY <2>6, <2>7, FS_Bijection
  <2> QED BY <2>8 DEF T
<1>3. S = {s[i] : i \in 1..n}
  OBVIOUS
<1>4. IsFiniteSet(S) /\ n = Cardinality(S)
  <2>1. n \in 0..n
    OBVIOUS
  <2>2. IsFiniteSet({s[i] : i \in 1..n}) /\ Cardinality({s[i] : i \in 1..n}) = n
    BY <1>2, <2>1
  <2> QED BY <1>3, <2>2
<1>5. ASSUME NEW k \in 1..n
      PROVE  Before(S, R, s[k]) = {s[i] : i \in 1..(k - 1)}
  <2>1. ASSUME NEW i \in 1..n PROVE <<s[i], s[k]>> \in R <=> i \in 1..(k - 1)
    <3>1. i < k => <<s[i], s[k]>> \in R
      OBVIOUS
    <3>2. k < i => <<s[i], s[k]>> \notin R
      BY DEF Orders
    <3>3. k = i => <<s[i], s[k]>> \notin R
      BY DEF Orders
    <3> QED BY <3>1, <3>2, <3>3
  <2>2. \A i \in 1..(k - 1) : i \in 1..n
    OBVIOUS
  <2>3. \A y \in S : \E i \in 1..n : y = s[i]
    BY <1>3
  <2> QED BY <2>1, <2>2, <2>3 DEF Before
<1>6. \A k \in 1..n : Cardinality(Before(S, R, s[k])) = k - 1
  <2> SUFFICES ASSUME NEW k \in 1..n PROVE Cardinality(Before(S, R, s[k])) = k - 1
    OBVIOUS
  <2>1. k - 1 \in 0..n
    OBVIOUS
  <2> QED BY <1>2, <1>5, <2>1
<1>7. \A x, y \in S : Cardinality(Before(S, R, x)) = Cardinality(Before(S, R, y)) => x = y
  BY <1>4, RanksDiffer
<1>8. Arranged(S, R) = [k \in 1..n |-> s[k]]
  <2>1. ASSUME NEW k \in 1..n
        PROVE  (CHOOSE x \in S : Cardinality(Before(S, R, x)) = k - 1) = s[k]
    <3>1. s[k] \in S /\ Cardinality(Before(S, R, s[k])) = k - 1
      BY <1>6
    <3>2. ASSUME NEW x \in S, Cardinality(Before(S, R, x)) = k - 1 PROVE x = s[k]
      BY <1>7, <3>1, <3>2
    <3> QED BY <3>1, <3>2
  <2> QED BY <1>4, <2>1 DEF Arranged, Before
<1> QED BY <1>4, <1>8

-----------------------------------------------------------------------------
(* Tuples of texts *)

LEMMA Tuple2 == ASSUME NEW a \in Text, NEW b \in Text PROVE <<a, b>> \in [1..2 -> Text]
  OBVIOUS

LEMMA Tuple3 ==
  ASSUME NEW a \in Text, NEW b \in Text, NEW c \in Text
  PROVE  <<a, b, c>> \in [1..3 -> Text]
  OBVIOUS

LEMMA Tuple5 ==
  ASSUME NEW a \in Text, NEW b \in Text, NEW c \in Text, NEW d \in Text, NEW e \in Text
  PROVE  <<a, b, c, d, e>> \in [1..5 -> Text]
  OBVIOUS

(* Tuples of one length are strictly and totally ordered. *)
LEMMA LessOrders ==
  ASSUME NEW n \in Nat, NEW k \in [1..n -> Text], NEW l \in [1..n -> Text],
         NEW m \in [1..n -> Text]
  PROVE  /\ ~Less(k, k)
         /\ Less(k, l) /\ Less(l, m) => Less(k, m)
         /\ k = l \/ Less(k, l) \/ Less(l, k)
PROOF
<1>0. /\ \A t \in Text : Rank[t] \in Nat
      /\ \A t, u \in Text : Rank[t] = Rank[u] => t = u
  BY RankAssumption DEF Text
<1>1. Len(k) = n /\ Len(l) = n /\ Len(m) = n
  OBVIOUS
<1>2. \A i \in 1..n : k[i] \in Text /\ l[i] \in Text /\ m[i] \in Text
  OBVIOUS
<1>3. ~Less(k, k)
  <2> SUFFICES ASSUME NEW i \in 1..n, Rank[k[i]] < Rank[k[i]] PROVE FALSE
    BY <1>1 DEF Less
  <2> QED BY <1>0, <1>2
<1>4. ASSUME Less(k, l), Less(l, m) PROVE Less(k, m)
  <2>1. PICK i \in 1..n : Rank[k[i]] < Rank[l[i]] /\ \A j \in 1..(i - 1) : k[j] = l[j]
    BY <1>1, <1>4 DEF Less
  <2>2. PICK h \in 1..n : Rank[l[h]] < Rank[m[h]] /\ \A j \in 1..(h - 1) : l[j] = m[j]
    BY <1>1, <1>4 DEF Less
  <2>3. CASE i < h
    <3>1. i \in 1..(h - 1) /\ \A j \in 1..(i - 1) : j \in 1..(h - 1)
      BY <2>3
    <3>2. Rank[k[i]] < Rank[m[i]] /\ \A j \in 1..(i - 1) : k[j] = m[j]
      BY <2>1, <2>2, <3>1
    <3> QED BY <1>1, <3>2 DEF Less
  <2>4. CASE i = h
    <3>1. Rank[k[i]] < Rank[m[i]]
      BY <1>0, <1>2, <2>1, <2>2, <2>4
    <3>2. \A j \in 1..(i - 1) : k[j] = m[j]
      BY <2>1, <2>2, <2>4
    <3> QED BY <1>1, <3>1, <3>2 DEF Less
  <2>5. CASE h < i
    <3>1. h \in 1..(i - 1) /\ \A j \in 1..(h - 1) : j \in 1..(i - 1)
      BY <2>5
    <3>2. Rank[k[h]] < Rank[m[h]] /\ \A j \in 1..(h - 1) : k[j] = m[j]
      BY <2>1, <2>2, <3>1
    <3> QED BY <1>1, <3>2 DEF Less
  <2> QED BY <2>3, <2>4, <2>5
<1>5. ASSUME k # l PROVE Less(k, l) \/ Less(l, k)
  <2> DEFINE D == {i \in 1..n : k[i] # l[i]}
  <2>1. D \in SUBSET Nat /\ D # {}
    BY <1>5
  <2>2. PICK i \in D : \A j \in D : i <= j
    <3> HIDE DEF D
    <3> QED BY <2>1, LeastExists
  <2>3. i \in 1..n /\ k[i] # l[i]
    OBVIOUS
  <2>4. \A j \in 1..(i - 1) : k[j] = l[j]
    BY <2>2
  <2>5. Rank[k[i]] < Rank[l[i]] \/ Rank[l[i]] < Rank[k[i]]
    BY <1>0, <1>2, <2>3
  <2> QED BY <1>1, <2>3, <2>4, <2>5 DEF Less
<1> QED BY <1>3, <1>4, <1>5

-----------------------------------------------------------------------------
(* Sorting *)

(* The keys of a sort: tuples of one length, at places of a sequence. *)
Keys(keys, n) == /\ DOMAIN keys \subseteq Nat /\ IsFiniteSet(DOMAIN keys)
                 /\ \A i \in DOMAIN keys : keys[i] \in [1..n -> Text]

(* Sorting by keys, with ties left as they are, is a strict and total order. *)
LEMMA ByKeyOrders ==
  ASSUME NEW n \in Nat, NEW keys, Keys(keys, n)
  PROVE  Orders(ByKey(keys), DOMAIN keys)
PROOF
<1> DEFINE D == DOMAIN keys
<1>1. \A i \in D : i \in Nat /\ keys[i] \in [1..n -> Text]
  BY DEF Keys
<1>2. \A i, j \in D : <<i, j>> \in ByKey(keys) <=>
                        Less(keys[i], keys[j]) \/ (keys[i] = keys[j] /\ i < j)
  BY DEF ByKey, Pairs
<1>3. \A i, j, h \in D : /\ ~Less(keys[i], keys[i])
                         /\ Less(keys[i], keys[j]) /\ Less(keys[j], keys[h]) =>
                              Less(keys[i], keys[h])
                         /\ keys[i] = keys[j] \/ Less(keys[i], keys[j]) \/ Less(keys[j], keys[i])
  BY <1>1, LessOrders
<1> HIDE DEF D
<1>4. \A i \in D : <<i, i>> \notin ByKey(keys)
  BY <1>1, <1>2, <1>3
<1>5. ASSUME NEW i \in D, NEW j \in D, NEW h \in D,
             <<i, j>> \in ByKey(keys), <<j, h>> \in ByKey(keys)
      PROVE  <<i, h>> \in ByKey(keys)
  <2>1. i < j /\ j < h => i < h
    BY <1>1
  <2> QED BY <1>2, <1>3, <1>5, <2>1
<1>6. ASSUME NEW i \in D, NEW j \in D
      PROVE  i = j \/ <<i, j>> \in ByKey(keys) \/ <<j, i>> \in ByKey(keys)
  <2>1. i = j \/ i < j \/ j < i
    BY <1>1
  <2> QED BY <1>2, <1>3, <2>1
<1> QED BY <1>4, <1>5, <1>6 DEF Orders, D

(* A sorted sequence has the members it was made of, one for every place,    *)
(* and their keys do not decrease.                                           *)
SortedBy(t, s, keys, places) ==
  /\ Lists(places, DOMAIN keys, ByKey(keys))
  /\ t = [i \in 1..Cardinality(DOMAIN keys) |-> s[places[i]]]
  /\ {t[i] : i \in DOMAIN t} = {s[i] : i \in DOMAIN keys}
  /\ \A i, j \in DOMAIN t : i < j =>
       Less(keys[places[i]], keys[places[j]]) \/ keys[places[i]] = keys[places[j]]

LEMMA SortedFacts ==
  ASSUME NEW n \in Nat, NEW s, NEW keys, Keys(keys, n)
  PROVE  \E places : SortedBy(Sorted(s, keys), s, keys, places)
PROOF
<1> DEFINE places == Arranged(DOMAIN keys, ByKey(keys))
           t == Sorted(s, keys)
           C == Cardinality(DOMAIN keys)
<1>1. Lists(places, DOMAIN keys, ByKey(keys))
  BY ByKeyOrders, ArrangedLists DEF Keys
<1>2. t = [i \in DOMAIN places |-> s[places[i]]]
  BY DEF Sorted
<1> HIDE DEF places, t
<1>3. DOMAIN places = 1..C
  BY <1>1 DEF Lists
<1>4. t = [i \in 1..C |-> s[places[i]]] /\ DOMAIN t = 1..C
  BY <1>2, <1>3
<1>5. {t[i] : i \in DOMAIN t} = {s[i] : i \in DOMAIN keys}
  <2>1. \A i \in 1..C : places[i] \in DOMAIN keys
    BY <1>1, <1>3 DEF Lists
  <2>2. \A k \in DOMAIN keys : \E i \in 1..C : places[i] = k
    BY <1>1, <1>3 DEF Lists
  <2>3. \A i \in 1..C : t[i] = s[places[i]]
    BY <1>4
  <2> HIDE DEF C
  <2> QED BY <1>4, <2>1, <2>2, <2>3
<1>6. \A i, j \in DOMAIN t : i < j =>
        Less(keys[places[i]], keys[places[j]]) \/ keys[places[i]] = keys[places[j]]
  <2>1. \A i, j \in DOMAIN t : i < j => <<places[i], places[j]>> \in ByKey(keys)
    BY <1>1, <1>3, <1>4 DEF Lists
  <2> QED BY <2>1 DEF ByKey, Pairs
<1> QED BY <1>1, <1>4, <1>5, <1>6 DEF SortedBy, t

-----------------------------------------------------------------------------
(* The keys of records and edges *)

(* Everything an observation says is a text. *)
LEMMA ObservationTexts ==
  ASSUME NEW o \in Observation
  PROVE  /\ o.type \in {"identity", "relationship"} /\ o.type \in Text
         /\ o.subject \in Text /\ o.run \in Text /\ o.at \in Text
         /\ o.source = [provider |-> o.source.provider, method |-> o.source.method]
         /\ o.source.provider \in Text /\ o.source.method \in Text
         /\ o.type = "identity" => o.property \in Text /\ o.value \in Text
         /\ o.type = "relationship" => o.related \in Text /\ o.category \in Text
PROOF
<1>1. "identity" \in Text /\ "relationship" \in Text
  BY RankAssumption
<1> QED BY <1>1 DEF Observation

LEMMA RecordKeyType ==
  ASSUME NEW o \in Observation
  PROVE  RecordKey(o) \in [1..8 -> Text]
PROOF
<1>1. CASE o.type = "identity"
  <2>1. RecordKey(o) = <<o.type, o.subject, o.property, o.value,
                         o.source.provider, o.source.method, o.run, o.at>>
    BY <1>1 DEF RecordKey
  <2>2. /\ o.type \in Text /\ o.subject \in Text /\ o.property \in Text /\ o.value \in Text
        /\ o.source.provider \in Text /\ o.source.method \in Text
        /\ o.run \in Text /\ o.at \in Text
    BY <1>1, ObservationTexts
  <2>3. <<o.type, o.subject, o.property, o.value,
          o.source.provider, o.source.method, o.run, o.at>> \in [1..8 -> Text]
    BY <2>2
  <2> QED BY <2>1, <2>3
<1>2. CASE o.type = "relationship"
  <2>1. RecordKey(o) = <<o.type, o.subject, o.related, o.category,
                         o.source.provider, o.source.method, o.run, o.at>>
    BY <1>2 DEF RecordKey
  <2>2. /\ o.type \in Text /\ o.subject \in Text /\ o.related \in Text /\ o.category \in Text
        /\ o.source.provider \in Text /\ o.source.method \in Text
        /\ o.run \in Text /\ o.at \in Text
    BY <1>2, ObservationTexts
  <2>3. <<o.type, o.subject, o.related, o.category,
          o.source.provider, o.source.method, o.run, o.at>> \in [1..8 -> Text]
    BY <2>2
  <2> QED BY <2>1, <2>3
<1> QED BY <1>1, <1>2, ObservationTexts

(* The same observations in another order, each as often as before. *)
Reordered(obs, other) ==
  \E p \in Bijection(DOMAIN obs, DOMAIN other) : \A i \in DOMAIN obs : other[p[i]] = obs[i]

LEMMA ReorderedBack ==
  ASSUME NEW obs, NEW other, Reordered(obs, other)
  PROVE  Reordered(other, obs)
PROOF
<1> DEFINE S == DOMAIN obs
           T == DOMAIN other
<1>1. PICK p \in Bijection(S, T) : \A i \in S : other[p[i]] = obs[i]
  BY DEF Reordered
<1>2. p \in [S -> T] /\ (\A i, j \in S : p[i] = p[j] => i = j) /\ \A j \in T : \E i \in S : p[i] = j
  BY <1>1 DEF Bijection, Injection, Surjection, IsInjective
<1> DEFINE q == [j \in T |-> CHOOSE i \in S : p[i] = j]
<1>3. \A j \in T : q[j] \in S /\ p[q[j]] = j
  BY <1>2
<1>4. \A i \in S : p[i] \in T /\ q[p[i]] = i
  BY <1>2, <1>3
<1>5. q \in [T -> S]
  BY <1>3
<1> HIDE DEF q, S, T
<1>6. \A j, k \in T : q[j] = q[k] => j = k
  BY <1>3
<1>7. \A i \in S : \E j \in T : q[j] = i
  BY <1>4
<1>8. q \in Bijection(T, S)
  BY <1>5, <1>6, <1>7 DEF Bijection, Injection, Surjection, IsInjective
<1>9. \A j \in T : obs[q[j]] = other[j]
  BY <1>1, <1>3
<1> QED BY <1>8, <1>9 DEF Reordered, S, T

(* The key covers every field: records with one key are one record. *)
LEMMA RecordKeyTells ==
  ASSUME NEW o \in Observation, NEW p \in Observation, RecordKey(o) = RecordKey(p)
  PROVE  o = p
PROOF
<1> DEFINE about(x) == IF x.type = "identity" THEN <<x.property, x.value>>
                                              ELSE <<x.related, x.category>>
<1>1. /\ o.type = p.type /\ o.subject = p.subject
      /\ about(o)[1] = about(p)[1] /\ about(o)[2] = about(p)[2]
      /\ o.source.provider = p.source.provider /\ o.source.method = p.source.method
      /\ o.run = p.run /\ o.at = p.at
  BY DEF RecordKey
<1>2. o.source = p.source
  BY <1>1, ObservationTexts
<1>3. CASE o.type = "identity"
  <2>1. o.property = p.property /\ o.value = p.value
    BY <1>1, <1>3
  <2>2. ASSUME NEW x \in Observation, x.type = "identity"
        PROVE  x = [type |-> x.type, subject |-> x.subject, property |-> x.property, value |-> x.value,
                    source |-> x.source, run |-> x.run, at |-> x.at]
    BY <2>2 DEF Observation
  <2> QED BY <1>1, <1>2, <1>3, <2>1, <2>2
<1>4. CASE o.type = "relationship"
  <2>1. o.related = p.related /\ o.category = p.category
    BY <1>1, <1>4
  <2>2. ASSUME NEW x \in Observation, x.type = "relationship"
        PROVE  x = [type |-> x.type, subject |-> x.subject, related |-> x.related, category |-> x.category,
                    source |-> x.source, run |-> x.run, at |-> x.at]
    BY <2>2 DEF Observation
  <2> QED BY <1>1, <1>2, <1>4, <2>1, <2>2
<1> QED BY <1>3, <1>4, ObservationTexts

(* The artifact lists the observations, each as often as it was observed, by *)
(* their keys.                                                               *)
LEMMA SerializeFacts ==
  ASSUME NEW obs \in Seq(Observation)
  PROVE  LET t == Serialize(obs)
         IN  /\ DOMAIN t = 1..Len(obs) /\ \A i \in 1..Len(obs) : t[i] \in Observation
             /\ Reordered(t, obs)
             /\ \A i, j \in 1..Len(obs) : i < j =>
                  Less(RecordKey(t[i]), RecordKey(t[j])) \/ t[i] = t[j]
PROOF
<1> DEFINE keys == [i \in DOMAIN obs |-> RecordKey(obs[i])]
           t == Sorted(obs, keys)
           n == Len(obs)
<1>1. n \in Nat /\ DOMAIN obs = 1..n /\ \A i \in 1..n : obs[i] \in Observation
  BY LenProperties, ElementOfSeq
<1>2. DOMAIN keys = 1..n /\ IsFiniteSet(1..n) /\ Cardinality(1..n) = n
  <2>1. DOMAIN keys = 1..n
    BY <1>1
  <2> HIDE DEF n
  <2>2. IsFiniteSet(1..n) /\ Cardinality(1..n) = n
    BY <1>1, FS_Interval
  <2> QED BY <2>1, <2>2
<1>3. Keys(keys, 8)
  BY <1>1, <1>2, RecordKeyType DEF Keys
<1>4. t = Serialize(obs)
  BY DEF Serialize
<1>5. \A i \in 1..n : keys[i] = RecordKey(obs[i])
  BY <1>1
<1> HIDE DEF keys, t, n
<1>6. PICK places : SortedBy(t, obs, keys, places)
  BY <1>3, SortedFacts DEF t
<1>7. /\ DOMAIN places = 1..n /\ \A i \in 1..n : places[i] \in 1..n
      /\ \A k \in 1..n : \E i \in 1..n : places[i] = k
      /\ \A i, j \in 1..n : i < j => <<places[i], places[j]>> \in ByKey(keys)
  <2>1. Lists(places, 1..n, ByKey(keys))
    BY <1>2, <1>6 DEF SortedBy
  <2> QED BY <1>2, <2>1 DEF Lists
<1>8. t = [i \in 1..n |-> obs[places[i]]]
  BY <1>2, <1>6 DEF SortedBy
<1>9. \A i \in 1..n : t[i] = obs[places[i]] /\ t[i] \in Observation
  BY <1>1, <1>7, <1>8
<1>10. Reordered(t, obs)
  <2> DEFINE p == [i \in 1..n |-> places[i]]
  <2>1. p \in [1..n -> 1..n] /\ \A i \in 1..n : p[i] = places[i]
    BY <1>7
  <2>2. \A i \in 1..n : <<places[i], places[i]>> \notin ByKey(keys)
    <3>1. Orders(ByKey(keys), 1..n)
      BY <1>2, <1>3, ByKeyOrders
    <3> QED BY <1>7, <3>1 DEF Orders
  <2>3. \A i, j \in 1..n : places[i] = places[j] => i = j
    <3> SUFFICES ASSUME NEW i \in 1..n, NEW j \in 1..n, places[i] = places[j], i # j PROVE FALSE
      OBVIOUS
    <3>1. i < j \/ j < i
      BY <1>1
    <3> QED BY <1>7, <2>2, <3>1
  <2> HIDE DEF p
  <2>4. p \in Bijection(1..n, 1..n)
    BY <1>7, <2>1, <2>3 DEF Bijection, Injection, Surjection, IsInjective
  <2>5. DOMAIN t = 1..n /\ \A i \in 1..n : obs[p[i]] = t[i]
    BY <1>8, <1>9, <2>1
  <2> QED BY <1>1, <2>4, <2>5 DEF Reordered
<1>11. ASSUME NEW i \in 1..n, NEW j \in 1..n, i < j
       PROVE  Less(RecordKey(t[i]), RecordKey(t[j])) \/ t[i] = t[j]
  <2>1. Less(keys[places[i]], keys[places[j]]) \/ keys[places[i]] = keys[places[j]]
    <3>1. i \in DOMAIN t /\ j \in DOMAIN t
      BY <1>8
    <3>2. \A a, b \in DOMAIN t : a < b =>
            Less(keys[places[a]], keys[places[b]]) \/ keys[places[a]] = keys[places[b]]
      BY <1>6 DEF SortedBy
    <3> QED BY <1>11, <3>1, <3>2
  <2>2. keys[places[i]] = RecordKey(t[i]) /\ keys[places[j]] = RecordKey(t[j])
    BY <1>5, <1>7, <1>9
  <2> QED BY <1>9, <2>1, <2>2, RecordKeyTells
<1>12. DOMAIN t = 1..n
  BY <1>8
<1> QED BY <1>4, <1>9, <1>10, <1>11, <1>12 DEF n

(* The artifact holds what was observed, in whatever order that came. *)
LEMMA SerializeKeeps ==
  ASSUME NEW obs \in Seq(Observation)
  PROVE  Serialize(obs) \in Seq(Observation) /\ Observations(Serialize(obs)) = Observations(obs)
PROOF
<1> DEFINE t == Serialize(obs)
<1>1. /\ DOMAIN t = 1..Len(obs) /\ \A i \in 1..Len(obs) : t[i] \in Observation
      /\ Reordered(t, obs)
  BY SerializeFacts
<1>2. Len(obs) \in Nat /\ t = [i \in DOMAIN t |-> t[i]]
  BY LenProperties DEF Serialize, Sorted
<1> HIDE DEF t
<1>3. t \in Seq(Observation)
  BY <1>1, <1>2
<1>4. PICK p \in Bijection(DOMAIN t, DOMAIN obs) : \A i \in DOMAIN t : obs[p[i]] = t[i]
  BY <1>1 DEF Reordered
<1>5. /\ \A i \in DOMAIN t : p[i] \in DOMAIN obs
      /\ \A j \in DOMAIN obs : \E i \in DOMAIN t : p[i] = j
  BY <1>4 DEF Bijection, Injection, Surjection
<1>6. Observations(t) = Observations(obs)
  BY <1>4, <1>5 DEF Observations
<1> QED BY <1>3, <1>6 DEF t

-----------------------------------------------------------------------------
(* The edges *)

EdgeSet(obs) == ResolveRelationships(Observations(obs), Subjects(Observations(obs)))

(* The edges depend on the set of observations alone. *)
LEMMA EdgesFollow ==
  ASSUME NEW obs, NEW other, Observations(obs) = Observations(other)
  PROVE  EdgesOf(obs) = EdgesOf(other)
  BY DEF EdgesOf

(* There are finitely many edges, and one for each of their keys. *)
LEMMA EdgeFacts ==
  ASSUME NEW obs \in Seq(Observation)
  PROVE  /\ IsFiniteSet(EdgeSet(obs))
         /\ \A e \in EdgeSet(obs) : EdgeKey(e) \in [1..3 -> Text]
         /\ \A e, f \in EdgeSet(obs) : EdgeKey(e) = EdgeKey(f) => e = f
PROOF
<1> DEFINE kept == Resolvable(Observations(obs), Subjects(Observations(obs)))
           at == {i \in DOMAIN obs : obs[i] \in kept}
           g == [i \in at |-> Edge(kept, obs[i])]
<1>1. /\ Len(obs) \in Nat /\ DOMAIN obs = 1..Len(obs)
      /\ \A i \in DOMAIN obs : obs[i] \in Observation
  BY LenProperties, ElementOfSeq
<1>2. EdgeSet(obs) = {Edge(kept, o) : o \in kept}
  BY DEF EdgeSet, ResolveRelationships
<1>3. \A o \in kept : o \in Observation /\ o.type = "relationship" /\ \E i \in at : obs[i] = o
  BY <1>1 DEF Resolvable, RelationshipsIn, Observations
<1>4. \A i \in at : obs[i] \in kept
  OBVIOUS
<1> HIDE DEF kept
<1>5. IsFiniteSet(at)
  <2>1. at \in SUBSET (1..Len(obs)) /\ IsFiniteSet(1..Len(obs))
    BY <1>1, FS_Interval
  <2> HIDE DEF at
  <2> QED BY <2>1, FS_Subset
<1>6. g \in Surjection(at, EdgeSet(obs))
  <2>1. \A i \in at : Edge(kept, obs[i]) \in EdgeSet(obs)
    BY <1>2, <1>4
  <2>2. \A e \in EdgeSet(obs) : \E i \in at : Edge(kept, obs[i]) = e
    BY <1>2, <1>3
  <2> HIDE DEF at
  <2> QED BY <2>1, <2>2 DEF Surjection
<1>7. IsFiniteSet(EdgeSet(obs))
  <2> HIDE DEF g, at
  <2> QED BY <1>5, <1>6, FS_Surjection
<1>8. \A o \in kept : EdgeKey(Edge(kept, o)) = <<o.subject, o.category, o.related>>
  BY DEF EdgeKey, Edge
<1>9. \A o \in kept : <<o.subject, o.category, o.related>> \in [1..3 -> Text]
  BY <1>3, ObservationTexts, Tuple3
<1>10. \A e \in EdgeSet(obs) : EdgeKey(e) \in [1..3 -> Text]
  BY <1>2, <1>8, <1>9
<1>11. ASSUME NEW o \in kept, NEW p \in kept, EdgeKey(Edge(kept, o)) = EdgeKey(Edge(kept, p))
       PROVE  Edge(kept, o) = Edge(kept, p)
  <2>1. <<o.subject, o.category, o.related>> = <<p.subject, p.category, p.related>>
    BY <1>8, <1>11
  <2>2. o.subject = p.subject /\ o.category = p.category /\ o.related = p.related
    BY <2>1
  <2> QED BY <2>2 DEF Edge
<1>12. \A e, f \in EdgeSet(obs) : EdgeKey(e) = EdgeKey(f) => e = f
  BY <1>2, <1>11
<1> QED BY <1>7, <1>10, <1>12

(* The resolver returns every edge, in the order of their keys. *)
LEMMA EdgesListed ==
  ASSUME NEW obs \in Seq(Observation)
  PROVE  Lists(EdgesOf(obs), EdgeSet(obs), EdgeOrder(EdgeSet(obs)))
PROOF
<1> DEFINE E == EdgeSet(obs)
<1>1. /\ IsFiniteSet(E)
      /\ \A e \in E : EdgeKey(e) \in [1..3 -> Text]
      /\ \A e, f \in E : EdgeKey(e) = EdgeKey(f) => e = f
  BY EdgeFacts
<1>2. EdgesOf(obs) = Arranged(E, EdgeOrder(E))
  BY DEF EdgesOf, EdgeSet
<1> HIDE DEF E
<1>3. \A e, f \in E : <<e, f>> \in EdgeOrder(E) <=> Less(EdgeKey(e), EdgeKey(f))
  BY DEF EdgeOrder, Pairs
<1>4. \A e, f, g \in E : /\ ~Less(EdgeKey(e), EdgeKey(e))
                         /\ Less(EdgeKey(e), EdgeKey(f)) /\ Less(EdgeKey(f), EdgeKey(g)) =>
                              Less(EdgeKey(e), EdgeKey(g))
                         /\ \/ EdgeKey(e) = EdgeKey(f)
                            \/ Less(EdgeKey(e), EdgeKey(f)) \/ Less(EdgeKey(f), EdgeKey(e))
  BY <1>1, LessOrders, 3 \in Nat
<1>5. Orders(EdgeOrder(E), E)
  BY <1>1, <1>3, <1>4 DEF Orders
<1>6. Lists(EdgesOf(obs), E, EdgeOrder(E))
  BY <1>1, <1>2, <1>5, ArrangedLists
<1> QED BY <1>6 DEF E

-----------------------------------------------------------------------------
(* The provenance of an edge *)

LEMMA AscendingOrders ==
  ASSUME NEW S \in SUBSET Nat
  PROVE  Orders(Ascending(S), S)
PROOF
<1>1. \A i \in S : i \in Nat
  OBVIOUS
<1>2. \A i, j \in S : <<i, j>> \in Ascending(S) <=> i < j
  BY DEF Ascending, Pairs
<1>3. \A i \in S : ~(i < i)
  BY <1>1
<1>4. \A i, j, k \in S : i < j /\ j < k => i < k
  BY <1>1
<1>5. \A i, j \in S : i = j \/ i < j \/ j < i
  BY <1>1
<1> HIDE <1>1
<1> QED BY <1>2, <1>3, <1>4, <1>5 DEF Orders

FirstValues(u) ==
  LET places == Arranged(FirstSeen(u), Ascending(FirstSeen(u)))
  IN  [n \in DOMAIN places |-> u[places[n]]]

(* u runs through S without ever going back in the order R. *)
NeverDecreases(u, m, S, R) ==
  /\ DOMAIN u = 1..m
  /\ \A i \in 1..m : u[i] \in S
  /\ \A x \in S : \E i \in 1..m : u[i] = x
  /\ \A i, j \in 1..m : i < j => <<u[i], u[j]>> \in R \/ u[i] = u[j]

(* In a sequence that does not decrease, the values where they are first     *)
(* seen are the values in their order.                                       *)
LEMMA FirstSeenArranged ==
  ASSUME NEW S, NEW R, Orders(R, S), NEW m \in Nat, NEW u, NeverDecreases(u, m, S, R)
  PROVE  FirstValues(u) = Arranged(S, R)
PROOF
<1> USE DEF NeverDecreases
<1> DEFINE F == FirstSeen(u)
           places == Arranged(F, Ascending(F))
           v == [n \in 1..Cardinality(F) |-> u[places[n]]]
<1>1. F \subseteq 1..m /\ \A i \in F : \A j \in 1..(i - 1) : u[j] # u[i]
  BY DEF FirstSeen
<1>2. IsFiniteSet(F) /\ Cardinality(F) \in Nat
  <2>1. IsFiniteSet(1..m)
    BY 1 \in Int, m \in Int, FS_Interval
  <2> HIDE DEF F
  <2> QED BY <1>1, <2>1, FS_Subset, FS_CardinalityType
<1>3. Lists(places, F, Ascending(F))
  <2>1. F \in SUBSET Nat
    BY <1>1
  <2>2. Orders(Ascending(F), F)
    BY <2>1, AscendingOrders
  <2> QED BY <1>2, <2>2, ArrangedLists
<1>4. FirstValues(u) = [n \in DOMAIN places |-> u[places[n]]]
  BY DEF FirstValues
<1> HIDE DEF places
<1>5. /\ DOMAIN places = 1..Cardinality(F)
      /\ \A n \in 1..Cardinality(F) : places[n] \in F
      /\ \A i \in F : \E n \in 1..Cardinality(F) : places[n] = i
      /\ \A n, k \in 1..Cardinality(F) : n < k => <<places[n], places[k]>> \in Ascending(F)
  BY <1>3 DEF Lists
<1>6. \A n, k \in 1..Cardinality(F) : n < k => places[n] < places[k]
  BY <1>5 DEF Ascending
<1>7. ASSUME NEW x \in S PROVE \E i \in F : u[i] = x
  <2> DEFINE D == {i \in 1..m : u[i] = x}
  <2>1. D \in SUBSET Nat /\ D # {}
    OBVIOUS
  <2>2. PICK i \in D : \A j \in D : i <= j
    <3> HIDE DEF D
    <3> QED BY <2>1, LeastExists
  <2>3. i \in 1..m /\ u[i] = x
    OBVIOUS
  <2>4. \A j \in 1..(i - 1) : u[j] # u[i]
    BY <2>2, <2>3
  <2> QED BY <2>3, <2>4 DEF FirstSeen
<1> HIDE DEF F
<1>8. \A n \in 1..Cardinality(F) : v[n] = u[places[n]] /\ places[n] \in 1..m
  BY <1>1, <1>5
<1>9. \A n \in 1..Cardinality(F) : v[n] \in S
  BY <1>8
<1>10. \A x \in S : \E n \in 1..Cardinality(F) : v[n] = x
  BY <1>5, <1>7, <1>8
<1>11. ASSUME NEW n \in 1..Cardinality(F), NEW k \in 1..Cardinality(F), n < k
       PROVE  <<v[n], v[k]>> \in R
  <2>1. places[n] < places[k] /\ places[n] \in 1..m /\ places[k] \in 1..m
    BY <1>6, <1>8, <1>11
  <2>2. places[n] \in 1..(places[k] - 1)
    BY <2>1
  <2>3. u[places[n]] # u[places[k]]
    BY <1>1, <1>5, <2>2
  <2> QED BY <1>8, <2>1, <2>3
<1>12. v \in [1..Cardinality(F) -> S]
  BY <1>9
<1> HIDE DEF v
<1>13. v = Arranged(S, R)
  BY <1>2, <1>10, <1>11, <1>12, ListIsArranged
<1> QED BY <1>5, <1>13, <1>4 DEF v

SourceKey(source) == <<source.provider, source.method>>

SourceOrder(sources) == {p \in Pairs(sources) : Less(SourceKey(p[1]), SourceKey(p[2]))}

EdgeObservations(obs, e) ==
  {o \in Observations(obs) : o.type = "relationship" /\ EdgeKey(o) = EdgeKey(e)}

(* Observations in their order have their sources in order. *)
LEMMA SourcesInOrder ==
  ASSUME NEW o \in Observation, NEW p \in Observation,
         Less(EdgeObservationKey(o), EdgeObservationKey(p))
  PROVE  Less(SourceKey(o.source), SourceKey(p.source)) \/ o.source = p.source
PROOF
<1> DEFINE k == EdgeObservationKey(o)
           l == EdgeObservationKey(p)
<1>1. /\ Len(k) = 5 /\ k[1] = o.source.provider /\ k[2] = o.source.method
      /\ l[1] = p.source.provider /\ l[2] = p.source.method
  BY DEF EdgeObservationKey
<1> HIDE DEF k, l
<1>2. PICK i \in 1..5 : Rank[k[i]] < Rank[l[i]] /\ \A j \in 1..(i - 1) : k[j] = l[j]
  BY <1>1 DEF Less, k, l
<1>3. /\ Len(SourceKey(o.source)) = 2
      /\ SourceKey(o.source)[1] = k[1] /\ SourceKey(o.source)[2] = k[2]
      /\ SourceKey(p.source)[1] = l[1] /\ SourceKey(p.source)[2] = l[2]
  BY <1>1 DEF SourceKey
<1>4. CASE i = 1
  <2>1. 1 \in 1..2 /\ \A j \in 1..(1 - 1) : SourceKey(o.source)[j] = SourceKey(p.source)[j]
    OBVIOUS
  <2> QED BY <1>2, <1>3, <1>4, <2>1 DEF Less
<1>5. CASE i = 2
  <2>1. 1 \in 1..(i - 1)
    BY <1>5
  <2>2. k[1] = l[1]
    BY <1>2, <2>1
  <2>3. 2 \in 1..2 /\ \A j \in 1..(2 - 1) : SourceKey(o.source)[j] = SourceKey(p.source)[j]
    BY <1>3, <2>2
  <2> QED BY <1>2, <1>3, <1>5, <2>3 DEF Less
<1>6. CASE i \in 3..5
  <2>1. 1 \in 1..(i - 1) /\ 2 \in 1..(i - 1)
    BY <1>6
  <2>2. o.source.provider = p.source.provider /\ o.source.method = p.source.method
    BY <1>1, <1>2, <2>1
  <2> QED BY <2>2, ObservationTexts
<1> QED BY <1>4, <1>5, <1>6

LEMMA SourceOrderIs ==
  ASSUME NEW sources, NEW s \in sources, NEW t \in sources
  PROVE  <<s, t>> \in SourceOrder(sources) <=> Less(SourceKey(s), SourceKey(t))
  BY DEF SourceOrder, Pairs

(* Sources are in order by provider, then by method. *)
LEMMA SourceOrders ==
  ASSUME NEW sources,
         \A s \in sources : /\ s = [provider |-> s.provider, method |-> s.method]
                            /\ s.provider \in Text /\ s.method \in Text
  PROVE  Orders(SourceOrder(sources), sources)
PROOF
<1>1. \A s \in sources : SourceKey(s) \in [1..2 -> Text]
  BY Tuple2 DEF SourceKey
<1>2. \A s, t \in sources : SourceKey(s) = SourceKey(t) => s = t
  BY DEF SourceKey
<1>3. \A s, t \in sources : <<s, t>> \in SourceOrder(sources) <=> Less(SourceKey(s), SourceKey(t))
  BY SourceOrderIs
<1>4. \A s, t, r \in sources :
        /\ ~Less(SourceKey(s), SourceKey(s))
        /\ Less(SourceKey(s), SourceKey(t)) /\ Less(SourceKey(t), SourceKey(r)) =>
             Less(SourceKey(s), SourceKey(r))
        /\ SourceKey(s) = SourceKey(t) \/ Less(SourceKey(s), SourceKey(t))
             \/ Less(SourceKey(t), SourceKey(s))
  BY <1>1, LessOrders, 2 \in Nat
<1> QED BY <1>2, <1>3, <1>4 DEF Orders

(* The provenance of an edge is the set of its sources, in their order: it   *)
(* does not depend on the order of collection.                               *)
LEMMA ProvenanceIs ==
  ASSUME NEW obs \in Seq(Observation), NEW e,
         NEW sources, sources = {o.source : o \in EdgeObservations(obs, e)}
  PROVE  Provenance(Support(obs, e)) = Arranged(sources, SourceOrder(sources))
PROOF
<1> DEFINE P == SupportPlaces(obs, e)
           keys == [i \in P |-> EdgeObservationKey(obs[i])]
           t == Support(obs, e)
           m == Cardinality(P)
           u == [n \in DOMAIN t |-> t[n].source]
<1>1. /\ Len(obs) \in Nat /\ DOMAIN obs = 1..Len(obs)
      /\ \A i \in DOMAIN obs : obs[i] \in Observation
  BY LenProperties, ElementOfSeq
<1>2. P \in SUBSET (1..Len(obs)) /\ \A i \in P : obs[i].type = "relationship"
  BY <1>1 DEF SupportPlaces
<1>3. {obs[i] : i \in P} = EdgeObservations(obs, e)
  BY DEF SupportPlaces, EdgeObservations, Observations
<1>4. t = Sorted(obs, keys)
  BY DEF Support
<1> HIDE DEF P
<1>5. IsFiniteSet(P) /\ m \in Nat
  <2>1. IsFiniteSet(1..Len(obs))
    BY <1>1, FS_Interval
  <2> QED BY <1>2, <2>1, FS_Subset, FS_CardinalityType
<1>6. DOMAIN keys = P /\ \A i \in P : keys[i] = EdgeObservationKey(obs[i])
  OBVIOUS
<1>7. \A i \in P : /\ obs[i] \in Observation
                   /\ EdgeObservationKey(obs[i]) \in [1..5 -> Text]
  <2> SUFFICES ASSUME NEW i \in P
               PROVE  obs[i] \in Observation /\ EdgeObservationKey(obs[i]) \in [1..5 -> Text]
    OBVIOUS
  <2>1. obs[i] \in Observation /\ obs[i].type = "relationship"
    BY <1>1, <1>2
  <2>2. /\ obs[i].source.provider \in Text /\ obs[i].source.method \in Text
        /\ obs[i].related \in Text /\ obs[i].run \in Text /\ obs[i].at \in Text
    BY <2>1, ObservationTexts
  <2> QED BY <2>1, <2>2 DEF EdgeObservationKey
<1> HIDE DEF keys, t
<1>8. Keys(keys, 5)
  <2>1. P \subseteq Nat
    BY <1>1, <1>2
  <2>2. \A i \in DOMAIN keys : keys[i] \in [1..5 -> Text]
    BY <1>6, <1>7
  <2> QED BY <1>5, <1>6, <2>1, <2>2 DEF Keys
<1>9. PICK places : SortedBy(t, obs, keys, places)
  BY <1>4, <1>8, SortedFacts, 5 \in Nat
<1>10. /\ DOMAIN t = 1..m
       /\ \A i \in 1..m : places[i] \in P /\ t[i] = obs[places[i]]
       /\ {t[i] : i \in 1..m} = EdgeObservations(obs, e)
  <2>1. DOMAIN t = 1..m /\ \A i \in 1..m : t[i] = obs[places[i]]
    BY <1>6, <1>9 DEF SortedBy
  <2>2. \A i \in 1..m : places[i] \in P
    BY <1>6, <1>9 DEF SortedBy, Lists
  <2> QED BY <1>3, <1>6, <1>9, <2>1, <2>2 DEF SortedBy
<1> HIDE DEF m
<1>11. DOMAIN u = 1..m /\ \A i \in 1..m : u[i] = t[i].source
  BY <1>10
<1>12. \A i \in 1..m : u[i] \in sources
  BY <1>10, <1>11
<1>13. \A x \in sources : \E i \in 1..m : u[i] = x
  BY <1>10, <1>11
<1>14. ASSUME NEW i \in 1..m, NEW j \in 1..m, i < j
       PROVE  <<u[i], u[j]>> \in SourceOrder(sources) \/ u[i] = u[j]
  <2>1. t[i] \in Observation /\ t[j] \in Observation
    BY <1>7, <1>10
  <2>2. \/ Less(keys[places[i]], keys[places[j]])
        \/ keys[places[i]] = keys[places[j]]
    BY <1>9, <1>10, <1>14 DEF SortedBy
  <2>3. keys[places[i]] = EdgeObservationKey(t[i]) /\ keys[places[j]] = EdgeObservationKey(t[j])
    BY <1>6, <1>10
  <2>4. CASE keys[places[i]] = keys[places[j]]
    <3>1. EdgeObservationKey(t[i]) = EdgeObservationKey(t[j])
      BY <2>3, <2>4
    <3>2. /\ t[i].source.provider = t[j].source.provider
          /\ t[i].source.method = t[j].source.method
      BY <3>1 DEF EdgeObservationKey
    <3> QED BY <1>11, <2>1, <3>2, ObservationTexts
  <2>5. CASE Less(keys[places[i]], keys[places[j]])
    <3>1. Less(EdgeObservationKey(t[i]), EdgeObservationKey(t[j]))
      BY <2>3, <2>5
    <3>2. Less(SourceKey(u[i]), SourceKey(u[j])) \/ u[i] = u[j]
      BY <1>11, <2>1, <3>1, SourcesInOrder
    <3>3. u[i] \in sources /\ u[j] \in sources
      BY <1>12
    <3>4. Less(SourceKey(u[i]), SourceKey(u[j])) => <<u[i], u[j]>> \in SourceOrder(sources)
      BY <3>3, SourceOrderIs
    <3> QED BY <3>2, <3>4
  <2> QED BY <2>2, <2>4, <2>5
<1>15. Orders(SourceOrder(sources), sources)
  <2>1. \A o \in EdgeObservations(obs, e) : o \in Observation
    BY <1>1 DEF EdgeObservations, Observations
  <2>2. \A s \in sources : /\ s = [provider |-> s.provider, method |-> s.method]
                           /\ s.provider \in Text /\ s.method \in Text
    BY <2>1, ObservationTexts
  <2> QED BY <2>2, SourceOrders
<1>16. Provenance(t) = FirstValues(u)
  BY DEF Provenance, FirstValues
<1> HIDE DEF u
<1>17. NeverDecreases(u, m, sources, SourceOrder(sources))
  BY <1>11, <1>12, <1>13, <1>14 DEF NeverDecreases
<1>18. FirstValues(u) = Arranged(sources, SourceOrder(sources))
  <2>1. m \in Nat
    BY <1>5 DEF m
  <2> QED BY <1>15, <1>17, <2>1, FirstSeenArranged
<1> QED BY <1>16, <1>18 DEF t

(* Two sequences of the same observations give an edge the same row. *)
LEMMA RowsFollow ==
  ASSUME NEW obs \in Seq(Observation), NEW other \in Seq(Observation),
         Observations(obs) = Observations(other), NEW e
  PROVE  Row(obs, e) = Row(other, e)
PROOF
<1> DEFINE sources == {o.source : o \in EdgeObservations(obs, e)}
<1>1. sources = {o.source : o \in EdgeObservations(other, e)}
  BY DEF EdgeObservations
<1> HIDE DEF sources
<1>2. Provenance(Support(obs, e)) = Arranged(sources, SourceOrder(sources))
  BY ProvenanceIs DEF sources
<1>3. Provenance(Support(other, e)) = Arranged(sources, SourceOrder(sources))
  BY <1>1, ProvenanceIs
<1> QED BY <1>2, <1>3 DEF Row

-----------------------------------------------------------------------------
(* The order of the rows *)

(* A key between two keys of one group is of that group. *)
LEMMA GroupsContiguous ==
  ASSUME NEW a \in [1..3 -> Text], NEW b \in [1..3 -> Text], NEW c \in [1..3 -> Text],
         Less(a, b), Less(b, c), a[1] = c[1], a[2] = c[2]
  PROVE  b[1] = a[1] /\ b[2] = a[2]
PROOF
<1>1. PICK i \in 1..3 : Rank[a[i]] < Rank[b[i]] /\ \A j \in 1..(i - 1) : a[j] = b[j]
  <2>1. Len(a) = 3
    OBVIOUS
  <2> QED BY <2>1 DEF Less
<1>2. PICK h \in 1..3 : Rank[b[h]] < Rank[c[h]] /\ \A j \in 1..(h - 1) : b[j] = c[j]
  <2>1. Len(b) = 3
    OBVIOUS
  <2> QED BY <2>1 DEF Less
<1>3. \A k \in 1..3 : Rank[a[k]] \in Nat /\ Rank[b[k]] \in Nat /\ Rank[c[k]] \in Nat
  BY RankAssumption
<1>4. (h > 1 => b[1] = c[1]) /\ (h > 2 => b[2] = c[2])
  BY <1>2
<1>5. (i > 1 => a[1] = b[1]) /\ (i > 2 => a[2] = b[2])
  BY <1>1
<1>6. i # 1
  <2> SUFFICES ASSUME i = 1 PROVE FALSE
    OBVIOUS
  <2>1. Rank[a[1]] < Rank[b[1]] /\ (h = 1 => Rank[b[1]] < Rank[c[1]])
    BY <1>1, <1>2
  <2>2. h = 1 \/ h > 1
    OBVIOUS
  <2> QED BY <1>3, <1>4, <2>1, <2>2
<1>7. i # 2
  <2> SUFFICES ASSUME i = 2 PROVE FALSE
    OBVIOUS
  <2>1. /\ a[1] = b[1] /\ Rank[a[2]] < Rank[b[2]]
        /\ (h = 1 => Rank[b[1]] < Rank[c[1]]) /\ (h = 2 => Rank[b[2]] < Rank[c[2]])
    BY <1>1, <1>2, <1>5
  <2>2. h = 1 \/ h = 2 \/ h > 2
    OBVIOUS
  <2> QED BY <1>3, <1>4, <2>1, <2>2
<1> QED BY <1>5, <1>6, <1>7

(* The group of a row is seen first at that row or before it. *)
LEMMA FirstOfGroupIs ==
  ASSUME NEW m \in Nat, NEW edges, DOMAIN edges = 1..m, NEW i \in 1..m
  PROVE  /\ FirstOfGroup(edges, i) \in 1..i
         /\ Group(edges[FirstOfGroup(edges, i)]) = Group(edges[i])
         /\ \A j \in 1..m : Group(edges[j]) = Group(edges[i]) => FirstOfGroup(edges, i) <= j
PROOF
<1> DEFINE D == {k \in 1..m : Group(edges[k]) = Group(edges[i])}
           f == FirstOfGroup(edges, i)
<1>1. D \in SUBSET Nat /\ D # {}
  OBVIOUS
<1>2. PICK l \in D : \A j \in D : l <= j
  <2> HIDE DEF D
  <2> QED BY <1>1, LeastExists
<1>3. /\ l \in DOMAIN edges /\ Group(edges[l]) = Group(edges[i])
      /\ \A j \in 1..(l - 1) : Group(edges[j]) # Group(edges[i])
  BY <1>2
<1>4. /\ f \in DOMAIN edges /\ Group(edges[f]) = Group(edges[i])
      /\ \A j \in 1..(f - 1) : Group(edges[j]) # Group(edges[i])
  BY <1>3 DEF FirstOfGroup
<1> HIDE DEF f
<1>5. ASSUME NEW j \in 1..m, Group(edges[j]) = Group(edges[i]) PROVE f <= j
  <2>1. j < f => j \in 1..(f - 1)
    BY <1>4
  <2> QED BY <1>4, <1>5, <2>1
<1>6. f \in 1..i
  BY <1>4, <1>5
<1> QED BY <1>4, <1>5, <1>6 DEF f

(* The exporter writes the edges in the order of the resolver: grouping them *)
(* moves none, because the order puts the edges of a group side by side.     *)
LEMMA GroupingMovesNothing ==
  ASSUME NEW obs \in Seq(Observation)
  PROVE  CsvRows(obs) = ReplayedRows(obs)
PROOF
<1> DEFINE edges == EdgesOf(obs)
           E == EdgeSet(obs)
           m == Cardinality(E)
           f == [i \in 1..m |-> FirstOfGroup(edges, i)]
           R == GroupOrder(edges)
           id == [i \in 1..m |-> i]
<1>1. /\ IsFiniteSet(E)
      /\ \A e \in E : EdgeKey(e) \in [1..3 -> Text]
  BY EdgeFacts
<1>2. Lists(edges, E, EdgeOrder(E))
  BY EdgesListed
<1>3. CsvRows(obs) = [n \in DOMAIN Arranged(DOMAIN edges, R) |->
                        Row(obs, edges[Arranged(DOMAIN edges, R)[n]])]
  BY DEF CsvRows
<1>4. ReplayedRows(obs) = [n \in DOMAIN edges |-> Row(obs, edges[n])]
  BY DEF ReplayedRows
<1> HIDE DEF edges, E
<1>5. m \in Nat
  BY <1>1, FS_CardinalityType
<1> HIDE DEF m
<1>6. DOMAIN edges = 1..m /\ \A i \in 1..m : edges[i] \in E
  BY <1>2 DEF Lists, m
<1>7. \A i \in 1..m : /\ f[i] \in 1..i /\ Group(edges[f[i]]) = Group(edges[i])
                      /\ \A j \in 1..m : Group(edges[j]) = Group(edges[i]) => f[i] <= j
  BY <1>5, <1>6, FirstOfGroupIs
<1>8. \A i, j \in 1..m : <<i, j>> \in R <=> f[i] < f[j] \/ (f[i] = f[j] /\ i < j)
  BY <1>6 DEF GroupOrder, Pairs
<1> HIDE DEF f, R
<1>9. \A i, j \in 1..m : i < j => Less(EdgeKey(edges[i]), EdgeKey(edges[j]))
  <2>1. \A i, j \in 1..m : i < j => <<edges[i], edges[j]>> \in EdgeOrder(E)
    BY <1>2, <1>6 DEF Lists
  <2> QED BY <2>1 DEF EdgeOrder
<1>10. ASSUME NEW i \in 1..m, NEW j \in 1..m, i < j PROVE f[i] <= f[j]
  <2> SUFFICES ASSUME f[j] < f[i] PROVE FALSE
    BY <1>5, <1>7
  <2> DEFINE k == f[j]
  <2>1. k \in 1..m /\ k < i /\ Group(edges[k]) = Group(edges[j])
    BY <1>5, <1>7, <1>10
  <2> HIDE DEF k
  <2>2. Less(EdgeKey(edges[k]), EdgeKey(edges[i])) /\ Less(EdgeKey(edges[i]), EdgeKey(edges[j]))
    BY <1>9, <1>10, <2>1
  <2>3. \A e \in E : /\ EdgeKey(e)[1] = e.subject /\ EdgeKey(e)[2] = e.category
                     /\ Group(e) = <<e.subject, e.category>>
    BY DEF EdgeKey, Group
  <2>4. edges[k] \in E /\ edges[i] \in E /\ edges[j] \in E
    BY <1>6, <2>1
  <2>5. /\ EdgeKey(edges[k])[1] = EdgeKey(edges[j])[1]
        /\ EdgeKey(edges[k])[2] = EdgeKey(edges[j])[2]
    BY <2>1, <2>3, <2>4
  <2>6. /\ EdgeKey(edges[i])[1] = EdgeKey(edges[k])[1]
        /\ EdgeKey(edges[i])[2] = EdgeKey(edges[k])[2]
    BY <1>1, <2>2, <2>4, <2>5, GroupsContiguous
  <2>7. Group(edges[k]) = Group(edges[i])
    BY <2>3, <2>4, <2>6
  <2>8. f[i] <= k
    BY <1>7, <2>1, <2>7
  <2> QED BY <1>5, <1>7, <2>8 DEF k
<1>11. Orders(R, 1..m)
  <2>1. \A i \in 1..m : f[i] \in Nat
    BY <1>7
  <2>2. \A i \in 1..m : <<i, i>> \notin R
    BY <1>8, <2>1
  <2>3. \A i, j, k \in 1..m : <<i, j>> \in R /\ <<j, k>> \in R => <<i, k>> \in R
    <3> SUFFICES ASSUME NEW i \in 1..m, NEW j \in 1..m, NEW k \in 1..m,
                        <<i, j>> \in R, <<j, k>> \in R
                 PROVE  <<i, k>> \in R
      OBVIOUS
    <3>1. f[i] < f[j] \/ (f[i] = f[j] /\ i < j)
      BY <1>8
    <3>2. f[j] < f[k] \/ (f[j] = f[k] /\ j < k)
      BY <1>8
    <3>3. f[i] \in Nat /\ f[j] \in Nat /\ f[k] \in Nat
      BY <2>1
    <3>4. f[i] < f[k] \/ (f[i] = f[k] /\ i < k)
      BY <3>1, <3>2, <3>3
    <3> QED BY <1>8, <3>4
  <2>4. \A i, j \in 1..m : i = j \/ <<i, j>> \in R \/ <<j, i>> \in R
    <3> SUFFICES ASSUME NEW i \in 1..m, NEW j \in 1..m, i # j
                 PROVE  <<i, j>> \in R \/ <<j, i>> \in R
      OBVIOUS
    <3>1. f[i] \in Nat /\ f[j] \in Nat /\ (i < j \/ j < i)
      BY <2>1
    <3> QED BY <1>8, <3>1
  <2> QED BY <2>2, <2>3, <2>4 DEF Orders
<1>12. id \in [1..m -> 1..m] /\ \A i \in 1..m : id[i] = i
  OBVIOUS
<1> HIDE DEF id
<1>13. \A i, j \in 1..m : i < j => <<id[i], id[j]>> \in R
  <2> SUFFICES ASSUME NEW i \in 1..m, NEW j \in 1..m, i < j PROVE <<i, j>> \in R
    BY <1>12
  <2>1. f[i] <= f[j] /\ f[i] \in Nat /\ f[j] \in Nat
    BY <1>7, <1>10
  <2> QED BY <1>8, <2>1
<1>14. id = Arranged(1..m, R)
  BY <1>5, <1>11, <1>12, <1>13, ListIsArranged
<1>15. CsvRows(obs) = [n \in 1..m |-> Row(obs, edges[n])]
  BY <1>3, <1>6, <1>12, <1>14
<1> QED BY <1>4, <1>6, <1>15

-----------------------------------------------------------------------------
(* The artifact and the table, whatever the order of collection *)

(* Of two sequences with the same members in order of their keys, neither is *)
(* ahead of the other anywhere: the members up to a place would have to go   *)
(* into fewer places.                                                        *)
InOrder(t, n) ==
  /\ DOMAIN t = 1..n /\ \A i \in 1..n : t[i] \in Observation
  /\ \A i, j \in 1..n : i < j => Less(RecordKey(t[i]), RecordKey(t[j])) \/ t[i] = t[j]

LEMMA NoneAhead ==
  ASSUME NEW n \in Nat, NEW t, NEW u, InOrder(t, n), InOrder(u, n), Reordered(u, t),
         NEW k \in 1..n
  PROVE  ~Less(RecordKey(u[k]), RecordKey(t[k]))
PROOF
<1> SUFFICES ASSUME Less(RecordKey(u[k]), RecordKey(t[k])) PROVE FALSE
  OBVIOUS
<1> DEFINE K(x) == RecordKey(x)
<1>1. PICK q \in Bijection(1..n, 1..n) : \A i \in 1..n : t[q[i]] = u[i]
  BY DEF Reordered, InOrder
<1>2. q \in [1..n -> 1..n] /\ \A i, j \in 1..n : q[i] = q[j] => i = j
  BY <1>1 DEF Bijection, Injection, IsInjective
<1>3. \A o, p, r \in Observation : /\ ~Less(K(o), K(o))
                                   /\ Less(K(o), K(p)) /\ Less(K(p), K(r)) => Less(K(o), K(r))
  BY RecordKeyType, LessOrders, 8 \in Nat
<1> HIDE DEF K
<1>4. \A i \in 1..n : t[i] \in Observation /\ u[i] \in Observation
  BY DEF InOrder
<1>5. Less(K(u[k]), K(t[k]))
  BY DEF K
<1>6. \A i, j \in 1..n : i < j => /\ Less(K(t[i]), K(t[j])) \/ t[i] = t[j]
                                  /\ Less(K(u[i]), K(u[j])) \/ u[i] = u[j]
  BY DEF InOrder, K
<1>7. ASSUME NEW i \in 1..k PROVE q[i] \in 1..(k - 1)
  <2>1. i \in 1..n /\ q[i] \in 1..n /\ (i < k \/ i = k)
    BY <1>2
  <2>2. Less(K(u[i]), K(t[k]))
    BY <1>3, <1>4, <1>5, <1>6, <2>1
  <2>3. Less(K(t[q[i]]), K(t[k]))
    BY <1>1, <2>1, <2>2
  <2>4. ~(k < q[i]) /\ k # q[i]
    BY <1>3, <1>4, <1>6, <2>1, <2>3
  <2> QED BY <2>1, <2>4
<1> DEFINE S == 1..k
           T == 1..(k - 1)
           g == [i \in S |-> q[i]]
<1>8. g \in [S -> T]
  BY <1>7
<1>9. \A i, j \in S : g[i] = g[j] => i = j
  <2>1. \A i \in S : i \in 1..n /\ g[i] = q[i]
    OBVIOUS
  <2> HIDE DEF g, S
  <2> QED BY <1>2, <2>1
<1>10. IsFiniteSet(S) /\ IsFiniteSet(T) /\ Cardinality(T) < Cardinality(S)
  <2>1. k \in Int /\ k - 1 \in Int /\ 1 \in Int /\ k >= 1
    OBVIOUS
  <2>2. IsFiniteSet(S) /\ Cardinality(S) = k
    BY <2>1, FS_Interval
  <2>3. IsFiniteSet(T) /\ Cardinality(T) = k - 1
    BY <2>1, FS_Interval
  <2> QED BY <2>1, <2>2, <2>3
<1> HIDE DEF g, S, T
<1> QED BY <1>8, <1>9, <1>10, FS_PigeonHole

LEMMA ReorderedOnce ==
  ASSUME NEW a, NEW b, NEW c, Reordered(a, b), Reordered(b, c)
  PROVE  Reordered(a, c)
PROOF
<1> DEFINE A == DOMAIN a
           B == DOMAIN b
           C == DOMAIN c
<1>1. PICK p \in Bijection(A, B) : \A i \in A : b[p[i]] = a[i]
  BY DEF Reordered
<1>2. PICK q \in Bijection(B, C) : \A i \in B : c[q[i]] = b[i]
  BY DEF Reordered
<1> DEFINE r == [i \in A |-> q[p[i]]]
<1>3. p \in [A -> B] /\ (\A i, j \in A : p[i] = p[j] => i = j) /\ \A j \in B : \E i \in A : p[i] = j
  BY <1>1 DEF Bijection, Injection, Surjection, IsInjective
<1>4. q \in [B -> C] /\ (\A i, j \in B : q[i] = q[j] => i = j) /\ \A j \in C : \E i \in B : q[i] = j
  BY <1>2 DEF Bijection, Injection, Surjection, IsInjective
<1> HIDE DEF A, B, C
<1>5. r \in [A -> C]
  BY <1>3, <1>4
<1>6. \A i, j \in A : r[i] = r[j] => i = j
  BY <1>3, <1>4
<1>7. \A k \in C : \E i \in A : r[i] = k
  <2> SUFFICES ASSUME NEW k \in C PROVE \E i \in A : r[i] = k
    OBVIOUS
  <2>1. PICK j \in B : q[j] = k
    BY <1>4
  <2>2. PICK i \in A : p[i] = j
    BY <1>3
  <2> QED BY <2>1, <2>2
<1>8. \A i \in A : c[r[i]] = a[i]
  BY <1>1, <1>2, <1>3
<1> HIDE DEF r
<1>9. r \in Bijection(A, C)
  BY <1>5, <1>6, <1>7 DEF Bijection, Injection, Surjection, IsInjective
<1> QED BY <1>8, <1>9 DEF Reordered, A, C

(* The artifact is lossless: it holds every observation, each as often as it *)
(* was observed, and nothing else (replay_format.py:18).                     *)
THEOREM ArtifactIsLossless ==
  ASSUME NEW obs \in Seq(Observation)
  PROVE  Serialize(obs) \in Seq(Observation) /\ Reordered(Serialize(obs), obs)
  BY SerializeKeeps, SerializeFacts

(* The artifact is deterministic: the same observations, collected in        *)
(* another order, give the same artifact (replay_format.py:21).              *)
THEOREM ArtifactIsDeterministic ==
  ASSUME NEW obs \in Seq(Observation), NEW other \in Seq(Observation), Reordered(obs, other)
  PROVE  Serialize(obs) = Serialize(other)
PROOF
<1> DEFINE t == Serialize(obs)
           u == Serialize(other)
           n == Len(obs)
<1>1. n \in Nat /\ DOMAIN obs = 1..n /\ Len(other) \in Nat /\ DOMAIN other = 1..Len(other)
  BY LenProperties
<1>2. Len(other) = n
  <2>1. ExistsBijection(1..n, 1..Len(other))
    BY <1>1 DEF Reordered, ExistsBijection
  <2>2. /\ IsFiniteSet(1..n) /\ Cardinality(1..n) = n
        /\ Cardinality(1..Len(other)) = Len(other)
    <3>1. \A m \in Nat : IsFiniteSet(1..m) /\ Cardinality(1..m) = m
      BY FS_Interval
    <3> QED BY <1>1, <3>1
  <2>3. Cardinality(1..Len(other)) = Cardinality(1..n)
    BY <2>1, <2>2, FS_Bijection
  <2> QED BY <2>2, <2>3
<1>3. InOrder(t, n) /\ Reordered(t, obs)
  BY SerializeFacts DEF InOrder
<1>4. InOrder(u, n) /\ Reordered(u, other)
  BY <1>2, SerializeFacts DEF InOrder
<1>5. t \in Seq(Observation) /\ u \in Seq(Observation)
  BY SerializeKeeps
<1> HIDE DEF t, u, n
<1>6. Reordered(t, u) /\ Reordered(u, t)
  BY <1>3, <1>4, ReorderedOnce, ReorderedBack
<1>7. ASSUME NEW k \in 1..n PROVE t[k] = u[k]
  <2>1. t[k] \in Observation /\ u[k] \in Observation
    BY <1>3, <1>4 DEF InOrder
  <2>2. ~Less(RecordKey(u[k]), RecordKey(t[k]))
    BY <1>1, <1>3, <1>4, <1>6, NoneAhead
  <2>3. ~Less(RecordKey(t[k]), RecordKey(u[k]))
    BY <1>1, <1>3, <1>4, <1>6, NoneAhead
  <2>4. RecordKey(t[k]) = RecordKey(u[k])
    BY <2>1, <2>2, <2>3, RecordKeyType, LessOrders, 8 \in Nat
  <2> QED BY <2>1, <2>4, RecordKeyTells
<1>8. DOMAIN t = 1..n /\ DOMAIN u = 1..n
  BY <1>3, <1>4 DEF InOrder
<1>9. t = [k \in 1..n |-> t[k]] /\ u = [k \in 1..n |-> u[k]]
  BY <1>5, <1>8
<1> QED BY <1>7, <1>9 DEF t, u

(* Resolution does not depend on the order of collection, nor on how often   *)
(* a thing was observed: the same set of observations gives the same table   *)
(* (resolver.py:84).                                                         *)
THEOREM ResolutionIgnoresOrder ==
  ASSUME NEW obs \in Seq(Observation), NEW other \in Seq(Observation),
         Observations(obs) = Observations(other)
  PROVE  CsvRows(obs) = CsvRows(other) /\ ReplayedRows(obs) = ReplayedRows(other)
PROOF
<1>1. EdgesOf(obs) = EdgesOf(other)
  BY EdgesFollow
<1>2. \A e : Row(obs, e) = Row(other, e)
  BY RowsFollow
<1>3. ReplayedRows(obs) = ReplayedRows(other)
  BY <1>1, <1>2 DEF ReplayedRows
<1> QED BY <1>3, GroupingMovesNothing

-----------------------------------------------------------------------------
(* Replaying whole files *)

(* A replay is exact: it matches the table the run wrote and no other, so a  *)
(* lost row, a row too many or a lost source is always seen                  *)
(* (replay_observations.py:238).                                             *)
THEOREM ReplayIsExact ==
  ASSUME NEW obs \in Seq(Observation), NEW rows
  PROVE  Compared(ReplayedRows(Serialize(obs)), Table(rows)) = "match" <=> rows = CsvRows(obs)
PROOF
<1>1. Serialize(obs) \in Seq(Observation) /\ Observations(Serialize(obs)) = Observations(obs)
  BY SerializeKeeps
<1>2. ReplayedRows(Serialize(obs)) = ReplayedRows(obs)
  BY <1>1, ResolutionIgnoresOrder
<1>3. ReplayedRows(Serialize(obs)) = CsvRows(obs)
  BY <1>2, GroupingMovesNothing
<1> QED BY <1>3 DEF Compared, Table

(* Whatever was observed, replaying files that were written whole matches. *)
LEMMA WholeFilesMatch ==
  ASSUME NEW obs \in Seq(Observation)
  PROVE  WholeResults(obs) = {"match"}
  BY ReplayIsExact DEF WholeResults

(* Whatever a run may have observed, its whole files match. *)
LEMMA IfWholeMatches == IfWhole = {"match"}
PROOF
<1>1. \A obs \in Observed : WholeResults(obs) = {"match"}
  BY WholeFilesMatch, ObservedAssumption
<1>2. Observed # {}
  BY ObservedAssumption
<1> QED BY <1>1, <1>2 DEF IfWhole

-----------------------------------------------------------------------------
(* Replaying a run's directory *)

(* What the files of a run hold, where its directory is its own. *)
LEMMA FilesAsFound ==
  ASSUME ReportAssumption, TypeOK, Owned, NEW r \in Runs, directory[r] # None
  PROVE  /\ exported[r] > 2 => Found(r, "observations") = "whole" /\ Found(r, "relationships") = "whole"
         /\ At(<<directory[r], "relationships">>) = NoFile => Found(r, "relationships") = "none"
         /\ Found(r, "relationships") = "torn" =>
              At(<<directory[r], "relationships">>) = Torn(r) /\ exported[r] = 2
PROOF
<1>1. Artifacts[1] = "observations" /\ Artifacts[3] = "relationships"
  BY DEF Artifacts
<1>2. exported[r] \in 0..4
  BY ArtifactNames DEF TypeOK
<1>3. \A j \in 1..4 : j <= exported[r] => At(<<directory[r], Artifacts[j]>>) = Whole(r)
  BY Zenon DEF Owned, Kept
<1>4. \A artifact : At(<<directory[r], artifact>>) = Whole(r) => Found(r, artifact) = "whole"
  BY DEF At, Found, Whole, NoFile
<1>5. exported[r] > 2 =>
        /\ At(<<directory[r], "observations">>) = Whole(r)
        /\ At(<<directory[r], "relationships">>) = Whole(r)
  BY <1>1, <1>2, <1>3
<1>6. ASSUME At(<<directory[r], "relationships">>) = NoFile
      PROVE  Found(r, "relationships") = "none"
  <2>1. \A f \in DOMAIN files : files[f].by \in Runs
    BY DEF Owned, Mine
  <2>2. NoFile.by \notin Runs
    BY DEF NoFile, ReportAssumption
  <2>3. <<directory[r], "relationships">> \notin DOMAIN files
    BY <1>6, <2>1, <2>2 DEF At
  <2> QED BY <2>3 DEF Found
<1>7. ASSUME Found(r, "relationships") = "torn"
      PROVE  At(<<directory[r], "relationships">>) = Torn(r) /\ exported[r] = 2
  <2> DEFINE file == <<directory[r], "relationships">>
  <2>1. file \in DOMAIN files /\ files[file] # Whole(r)
    BY <1>7 DEF Found
  <2>2. files[file].by = r
    BY <2>1, OwnFile DEF Owned
  <2>3. files[file] = Torn(r)
    <3>1. files[file] \in Content
      BY <2>1 DEF TypeOK
    <3> QED BY <2>1, <2>2, <3>1 DEF Content, Torn, Whole
  <2>4. PICK i \in 1..4 : i <= exported[r] + 1 /\ file = <<directory[r], Artifacts[i]>>
    BY <2>1, <2>2 DEF Owned, Mine
  <2>5. i = 3
    BY <2>4, ArtifactNames, <1>1
  <2>6. ~(exported[r] > 2)
    BY <1>4, <1>5, <1>7
  <2>7. exported[r] = 2
    BY <1>2, <2>4, <2>5, <2>6
  <2> QED BY <2>1, <2>3, <2>7 DEF At
<1> QED BY <1>4, <1>5, <1>6, <1>7

(* Whatever a run observed and in whatever order, replaying its directory    *)
(* matches from the moment its relationships are on disk, cannot be done     *)
(* before there are any, and reports a mismatch only of a run that was cut   *)
(* off while it wrote them (ReplayVouches).                                  *)
THEOREM ReplaysVouch ==
  ReportAssumption /\ DistinctSeconds => (Spec => []ReplayVouches)
PROOF
<1> SUFFICES ASSUME ReportAssumption, DistinctSeconds PROVE Spec => []ReplayVouches
  OBVIOUS
<1>1. TypeOK /\ Owned => ReplayVouches
  <2> SUFFICES ASSUME TypeOK, Owned, NEW r \in Runs, directory[r] # None
               PROVE  LET csv == At(<<directory[r], "relationships">>)
                      IN /\ exported[r] > 2 => Replayed(r) = {"match"}
                         /\ csv = NoFile => Replayed(r) = {"cannot replay"}
                         /\ "mismatch" \in Replayed(r) => csv = Torn(r) /\ exported[r] = 2
    BY DEF ReplayVouches
  <2>1. Found(r, "relationships") \in {"none", "whole", "torn"}
    BY DEF Found
  <2>2. ASSUME exported[r] > 2 PROVE Replayed(r) = {"match"}
    <3>1. Found(r, "observations") = "whole" /\ Found(r, "relationships") = "whole"
      BY <2>2, FilesAsFound
    <3> QED BY <3>1, IfWholeMatches DEF Replayed
  <2>3. ASSUME At(<<directory[r], "relationships">>) = NoFile
        PROVE  Replayed(r) = {"cannot replay"}
    <3>1. Found(r, "relationships") = "none"
      BY <2>3, FilesAsFound
    <3> QED BY <3>1 DEF Replayed
  <2>4. ASSUME "mismatch" \in Replayed(r) PROVE Found(r, "relationships") = "torn"
    BY <2>4, IfWholeMatches DEF Replayed
  <2>5. "mismatch" \in Replayed(r) =>
          At(<<directory[r], "relationships">>) = Torn(r) /\ exported[r] = 2
    BY <2>4, FilesAsFound
  <2> QED BY <2>2, <2>3, <2>5
<1> QED
  BY <1>1, FilesOwned, PTL
=============================================================================
