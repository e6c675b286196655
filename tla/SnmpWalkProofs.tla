--------------------------- MODULE SnmpWalkProofs ---------------------------
(***************************************************************************)
(* A table query never reports what the device did not say, whatever its   *)
(* tables are, however they change, and whatever the row limits are.       *)
(***************************************************************************)
EXTENDS SnmpWalk, SequenceTheorems, FiniteSetTheorems, TLAPS

(* At least two columns are walked, and the required ones are among them. *)
LEMMA ColumnsType ==
  ASSUME NEW q \in Queries
  PROVE  Len(Columns(q)) \in Nat /\ Len(Columns(q)) > 1 /\ Required(q) \in 1..Len(Columns(q))
<1>1. CASE q = "arp"
  <2>1. Columns(q) = <<"PhysAddress", "Type">> /\ Required(q) = 1
    BY <1>1 DEF Columns, Required
  <2> QED BY <2>1
<1>2. CASE q = "fdb"
  <2>1. Columns(q) = <<"Port", "Status">> /\ Required(q) = 1
    BY <1>2 DEF Columns, Required
  <2> QED BY <2>1
<1>3. CASE q = "lldp"
  <2> DEFINE chassis == <<"ChassisIdSubtype", "ChassisId">>
             last    == <<"ManAddr">>
  <2>1. Columns(q) = chassis \o LldpDetails \o last /\ Required(q) = 2
    BY <1>3 DEF Columns, Required
  <2>2. \E S : chassis \in Seq(S) /\ LldpDetails \in Seq(S) /\ last \in Seq(S)
    <3> DEFINE S == {"ChassisIdSubtype", "ChassisId", "ManAddr", "PortIdSubtype", "PortId",
                     "PortDesc", "SysName", "SysDesc", "SysCapSupported", "SysCapEnabled"}
    <3>1. chassis \in Seq(S) /\ last \in Seq(S)
      OBVIOUS
    <3>2. LldpDetails \in Seq(S)
      BY WalkAssumption
    <3> QED BY <3>1, <3>2
  <2>3. Len(chassis) = 2 /\ Len(last) = 1
    OBVIOUS
  <2> HIDE DEF chassis, last
  <2>4. Len(chassis \o LldpDetails \o last) = 3 + Len(LldpDetails) /\ Len(LldpDetails) \in Nat
    <3>1. PICK S : chassis \in Seq(S) /\ LldpDetails \in Seq(S) /\ last \in Seq(S)
      BY <2>2
    <3>2. /\ chassis \o LldpDetails \in Seq(S)
          /\ Len(chassis \o LldpDetails) = Len(chassis) + Len(LldpDetails)
      BY <3>1, ConcatProperties
    <3>3. Len(chassis \o LldpDetails \o last) = Len(chassis \o LldpDetails) + Len(last)
      BY <3>1, <3>2, ConcatProperties
    <3>4. Len(LldpDetails) \in Nat
      BY <3>1
    <3> QED BY <2>3, <3>2, <3>3, <3>4
  <2> QED BY <2>1, <2>4
<1> QED BY <1>1, <1>2, <1>3, WalkAssumption

(* The values collected are a sequence with one element for each column done. *)
CollectedType ==
  /\ collected \in Seq({collected[k] : k \in DOMAIN collected})
  /\ Len(collected) \in 0..Len(Columns(query))
  /\ Running => Len(collected) < Len(Columns(query))

(* The device's tables are among those it may have. *)
TablesType ==
  query \in Queries /\ mib \in past /\ past \subseteq Tables[query]

(* Among the tables of a history is one whose row r had this value in the    *)
(* k-th column of query q.                                                   *)
Held(q, history, k, r, value) ==
  IF Columns(q)[k] = "ManAddr"
  THEN \A a \in value : \E t \in history : <<r, a>> \in DOMAIN t[Columns(q)[k]]
  ELSE \E t \in history : /\ <<r, 0>> \in DOMAIN t[Columns(q)[k]]
                          /\ t[Columns(q)[k]][<<r, 0>>] = value

(* What makes EntriesWereHeld inductive: everything read so far was held.    *)
ReadWasHeld ==
  /\ \A k \in 1..Len(collected) : \A r \in DOMAIN collected[k] : Held(query, past, k, r, collected[k][r])
  /\ Running => \A r \in DOMAIN gathered : Held(query, past, Len(collected) + 1, r, gathered[r])

Honest == TablesType /\ CollectedType /\ ReadWasHeld /\ EntriesWereHeld

-----------------------------------------------------------------------------
(* One more column collected leaves the others as they were. *)
LEMMA AppendCollected ==
  ASSUME CollectedType, NEW values, collected' = Append(collected, values)
  PROVE  /\ collected' \in Seq({collected'[k] : k \in DOMAIN collected'})
         /\ Len(collected') = Len(collected) + 1 /\ Len(collected) \in Nat
         /\ \A k \in 1..Len(collected) : collected'[k] = collected[k]
         /\ collected'[Len(collected) + 1] = values
<1> DEFINE S == {collected[k] : k \in DOMAIN collected} \cup {values}
           R == {collected'[k] : k \in DOMAIN collected'}
<1>1. collected \in Seq(S)
  <2>1. collected \in Seq({collected[k] : k \in DOMAIN collected})
    BY DEF CollectedType
  <2> QED BY <2>1
<1>2. values \in S
  OBVIOUS
<1> HIDE DEF S
<1>3. /\ collected' \in Seq(S) /\ Len(collected') = Len(collected) + 1
      /\ \A k \in 1..Len(collected) : collected'[k] = collected[k]
      /\ collected'[Len(collected) + 1] = values
  BY <1>1, <1>2, AppendProperties
<1>4. collected' \in [1..Len(collected') -> S] /\ Len(collected') \in Nat
  <2>1. collected' \in Seq(S)
    BY <1>3
  <2> QED BY <2>1, LenProperties
<1>5. collected' \in [1..Len(collected') -> R]
  BY <1>4
<1> HIDE DEF R
<1>6. collected' \in Seq(R)
  BY <1>4, <1>5, SeqDef
<1>7. Len(collected) \in Nat
  BY <1>1
<1> QED BY <1>3, <1>6, <1>7 DEF R

(* What was held stays held: the history only grows. *)
LEMMA HeldStays ==
  ASSUME NEW q, NEW history, NEW more, NEW k, NEW r, NEW value,
         Held(q, history, k, r, value), history \subseteq more
  PROVE  Held(q, more, k, r, value)
BY DEF Held

(* What EntriesWereHeld says of one entry. *)
EntryHeld(q, history, e) ==
  \A k \in 1..Len(Columns(q)) :
    \/ Columns(q)[k] # "ManAddr" /\ k > Required(q) /\ e.fields[k] = None
    \/ Held(q, history, k, e.row, e.fields[k])

LEMMA HeldEntries ==
  /\ EntriesWereHeld <=> \A e \in entries : EntryHeld(query, past, e)
  /\ EntriesWereHeld' <=> \A e \in entries' : EntryHeld(query', past', e)
BY DEF EntriesWereHeld, EntryHeld, Held, Cell

LEMMA EntryStays ==
  ASSUME NEW q, NEW history, NEW more, NEW e,
         EntryHeld(q, history, e), history \subseteq more
  PROVE  EntryHeld(q, more, e)
BY HeldStays DEF EntryHeld

(* The join reports of a row what was read of that row. *)
LEMMA JoinHeld ==
  ASSUME query \in Queries, NEW columns,
         \A k \in 1..Len(Columns(query)) : \A r \in DOMAIN columns[k] :
           Held(query, past, k, r, columns[k][r])
  PROVE  \A e \in Join(columns) : EntryHeld(query, past, e)
<1> SUFFICES ASSUME NEW r \in JoinedRows(columns), NEW k \in 1..Len(Columns(query))
             PROVE  LET e == Entry(columns, r)
                    IN  \/ /\ Columns(query)[k] # "ManAddr"
                           /\ k > Required(query) /\ e.fields[k] = None
                        \/ Held(query, past, k, e.row, e.fields[k])
  BY DEF Join, EntryHeld
<1>1. Entry(columns, r).row = r /\ Entry(columns, r).fields[k] = Field(columns, k, r)
  BY DEF Entry
<1>2. CASE r \notin DOMAIN columns[k]
  <2>1. k > Required(query)
    <3> SUFFICES ASSUME k <= Required(query) PROVE r \in DOMAIN columns[k]
      <4>1. Required(query) \in 1..Len(Columns(query)) /\ Len(Columns(query)) \in Nat
        BY ColumnsType
      <4> QED BY <1>2, <4>1
    <3>1. k = 1 \/ (k = 2 /\ query = "lldp")
      BY ColumnsType DEF Required
    <3> QED BY <3>1 DEF JoinedRows
  <2>2. Field(columns, k, r) = Absent(Columns(query)[k])
    BY <1>2 DEF Field
  <2> QED BY <1>1, <2>1, <2>2 DEF Absent, Held
<1>3. CASE r \in DOMAIN columns[k]
  BY <1>1, <1>3 DEF Field, Absent, Held
<1> QED BY <1>2, <1>3

(* A response of the device is of the row it is gathered under. *)
LEMMA GatherHeld ==
  ASSUME TablesType, CollectedType, ReadWasHeld, Running, NEW i \in DOMAIN mib[Column]
  PROVE  \A r \in DOMAIN Gather(i, mib[Column][i]) :
           Held(query, past, Len(collected) + 1, r, Gather(i, mib[Column][i])[r])
<1> DEFINE n == Len(collected) + 1
           value == mib[Column][i]
<1>1. n \in 1..Len(Columns(query)) /\ Column = Columns(query)[n]
  BY ColumnsType DEF TablesType, CollectedType, Column
<1>2. i \in Index /\ (Column # "ManAddr" => i[2] = 0)
  BY <1>1, WalkAssumption DEF TablesType
<1>3. i = <<i[1], i[2]>>
  BY <1>2 DEF Index
<1>4. Cell(mib, n) = mib[Column]
  BY <1>1 DEF Cell
<1>5. \A r \in DOMAIN gathered : Held(query, past, n, r, gathered[r])
  BY DEF ReadWasHeld
<1> SUFFICES ASSUME NEW r \in DOMAIN gathered \cup {i[1]}
             PROVE  Held(query, past, n, r, Gather(i, value)[r])
  BY DEF Gather
<1> HIDE DEF n, value
<1>6. CASE r # i[1]
  BY <1>5, <1>6 DEF Gather
<1>7. CASE r = i[1] /\ Column # "ManAddr"
  <2>1. Gather(i, value)[r] = value
    BY <1>7 DEF Gather
  <2>2. <<r, 0>> = i
    BY <1>2, <1>3, <1>7
  <2> QED BY <1>1, <1>4, <1>7, <2>1, <2>2 DEF Held, TablesType, value
<1>8. CASE r = i[1] /\ Column = "ManAddr"
  <2>1. Gather(i, value)[r] = {i[2]} \cup (IF r \in DOMAIN gathered THEN gathered[r] ELSE {})
    BY <1>8 DEF Gather
  <2>2. <<r, i[2]>> \in DOMAIN Cell(mib, n)
    BY <1>3, <1>4, <1>8
  <2>3. \A a \in Gather(i, value)[r] : \E t \in past :
          <<r, a>> \in DOMAIN t[Columns(query)[n]]
    <3> SUFFICES ASSUME NEW a \in Gather(i, value)[r]
                 PROVE  \E t \in past : <<r, a>> \in DOMAIN t[Columns(query)[n]]
      OBVIOUS
    <3>1. CASE a = i[2]
      BY <2>2, <3>1 DEF Cell, TablesType
    <3>2. CASE r \in DOMAIN gathered /\ a \in gathered[r]
      BY <1>1, <1>5, <1>8, <3>2 DEF Held
    <3> QED BY <2>1, <3>1, <3>2
  <2> QED BY <1>1, <1>8, <2>3 DEF Held
<1> QED BY <1>6, <1>7, <1>8

-----------------------------------------------------------------------------
(* The end of a column, whatever it is taken to have given. *)
LEMMA EndColumnHonest ==
  ASSUME Honest, Running, NEW values, EndColumn(values), UNCHANGED <<query, mib, past>>,
         \A r \in DOMAIN values : Held(query, past, Len(collected) + 1, r, values[r])
  PROVE  Honest'
<1> DEFINE n == Len(collected) + 1
<1>1. /\ collected' = Append(collected, values) /\ gathered' = Nothing
      /\ IF Len(collected') = Len(Columns(query))
         THEN outcome' = "responded" /\ entries' = Join(collected')
         ELSE UNCHANGED <<outcome, entries>>
  BY DEF EndColumn
<1>2. /\ collected' \in Seq({collected'[k] : k \in DOMAIN collected'})
      /\ Len(collected') = n /\ Len(collected) \in Nat
      /\ \A k \in 1..Len(collected) : collected'[k] = collected[k]
      /\ collected'[n] = values
  BY <1>1, AppendCollected DEF Honest
<1>3. /\ Len(Columns(query)) \in Nat /\ query \in Queries
      /\ Len(collected) < Len(Columns(query))
  BY ColumnsType DEF Honest, TablesType, CollectedType
<1>4. \A k \in 1..n : \A r \in DOMAIN collected'[k] : Held(query, past, k, r, collected'[k][r])
  <2> SUFFICES ASSUME NEW k \in 1..n, NEW r \in DOMAIN collected'[k]
               PROVE  Held(query, past, k, r, collected'[k][r])
    OBVIOUS
  <2>1. CASE k = n
    BY <1>2, <2>1
  <2>2. CASE k # n
    <3>1. k \in 1..Len(collected)
      BY <1>2, <2>2
    <3> QED BY <1>2, <3>1 DEF Honest, ReadWasHeld
  <2> QED BY <2>1, <2>2
<1>5. query' = query /\ past' = past
  OBVIOUS
<1>6. TablesType'
  BY DEF Honest, TablesType
<1>7. CollectedType'
  BY <1>1, <1>2, <1>3 DEF CollectedType, Running
<1>8. ReadWasHeld'
  <2>1. \A k \in 1..n : \A r \in DOMAIN collected'[k] :
          Held(query', past', k, r, collected'[k][r])
    BY <1>4, <1>5
  <2>2. DOMAIN gathered' = {}
    BY <1>1 DEF Nothing
  <2> QED BY <1>2, <2>1, <2>2 DEF ReadWasHeld
<1>9. EntriesWereHeld'
  <2>1. CASE Len(collected') = Len(Columns(query))
    <3>1. \A e \in Join(collected') : EntryHeld(query, past, e)
      BY <1>2, <1>3, <1>4, <2>1, JoinHeld
    <3> QED BY <1>1, <1>5, <2>1, <3>1, HeldEntries
  <2>2. CASE Len(collected') # Len(Columns(query))
    BY <1>1, <1>5, <2>2, HeldEntries DEF Honest
  <2> QED BY <2>1, <2>2
<1> QED BY <1>6, <1>7, <1>8, <1>9 DEF Honest

(* A query that stops, or nothing at all. *)
LEMMA HonestUnchanged ==
  ASSUME Honest, UNCHANGED <<query, mib, past, gathered, collected, entries>>,
         Running' => Running
  PROVE  Honest'
<1>1. TablesType' /\ CollectedType'
  BY DEF Honest, TablesType, CollectedType
<1>2. ReadWasHeld'
  BY DEF Honest, ReadWasHeld
<1>3. EntriesWereHeld'
  BY HeldEntries DEF Honest
<1> QED BY <1>1, <1>2, <1>3 DEF Honest

LEMMA HonestStep == Honest /\ [Next]_vars => Honest'
<1> SUFFICES ASSUME Honest, [Next]_vars PROVE Honest'
  OBVIOUS
<1>1. CASE NextRow
  <2>1. UNCHANGED <<query, mib, past, collected, outcome, entries>>
    BY <1>1 DEF NextRow
  <2>3. PICK i \in DOMAIN mib[Column] :
          gathered' = gathered \/ gathered' = Gather(i, mib[Column][i])
    BY <1>1 DEF NextRow, Ahead
  <2>4. Running
    BY <1>1 DEF NextRow
  <2>5. \A r \in DOMAIN gathered' : Held(query, past, Len(collected) + 1, r, gathered'[r])
    BY <2>3, <2>4, GatherHeld DEF Honest, ReadWasHeld
  <2>6. ReadWasHeld'
    BY <2>1, <2>4, <2>5 DEF Honest, ReadWasHeld
  <2>7. TablesType' /\ CollectedType' /\ EntriesWereHeld'
    BY <2>1 DEF Honest, TablesType, CollectedType, EntriesWereHeld, Running, Cell
  <2> QED BY <2>6, <2>7 DEF Honest
<1>2. CASE ColumnEnds
  <2>1. \A r \in DOMAIN gathered : Held(query, past, Len(collected) + 1, r, gathered[r])
    BY <1>2 DEF ColumnEnds, Honest, ReadWasHeld
  <2> QED BY <1>2, <2>1, EndColumnHonest DEF ColumnEnds
<1>3. CASE WalkFails
  <2>1. CASE Len(collected) < Required(query)
    <3>1. UNCHANGED <<query, mib, past, gathered, collected, entries>> /\ Running
      BY <1>3, <2>1 DEF WalkFails
    <3> QED BY <3>1, HonestUnchanged
  <2>2. CASE ~(Len(collected) < Required(query))
    <3>1. \A r \in DOMAIN Nothing : Held(query, past, Len(collected) + 1, r, Nothing[r])
      BY DEF Nothing
    <3>2. Running /\ EndColumn(Nothing) /\ UNCHANGED <<query, mib, past>>
      BY <1>3, <2>2 DEF WalkFails
    <3> QED BY <3>1, <3>2, EndColumnHonest
  <2> QED BY <2>1, <2>2
<1>4. CASE Raises
  <2>1. UNCHANGED <<query, mib, past, gathered, collected, entries>> /\ Running
    BY <1>4 DEF Raises
  <2> QED BY <2>1, HonestUnchanged
<1>5. CASE TableChanges
  <2>1. /\ UNCHANGED <<query, cursor, rows, gathered, collected, outcome, entries>>
        /\ mib' \in Tables[query] /\ past' = past \cup {mib'}
    BY <1>5 DEF TableChanges
  <2>2. past \subseteq past'
    BY <2>1
  <2>4. ReadWasHeld'
    <3>1. \A k \in 1..Len(collected) : \A r \in DOMAIN collected[k] :
            Held(query, past', k, r, collected[k][r])
      BY <2>2, HeldStays DEF Honest, ReadWasHeld
    <3>2. Running => \A r \in DOMAIN gathered :
                       Held(query, past', Len(collected) + 1, r, gathered[r])
      BY <2>2, HeldStays DEF Honest, ReadWasHeld
    <3> QED BY <2>1, <3>1, <3>2 DEF ReadWasHeld, Running
  <2>5. EntriesWereHeld'
    BY <2>1, <2>2, HeldEntries, EntryStays DEF Honest
  <2>6. TablesType' /\ CollectedType'
    BY <2>1 DEF Honest, TablesType, CollectedType, Running
  <2> QED BY <2>4, <2>5, <2>6 DEF Honest
<1>6. CASE Ended \/ UNCHANGED vars
  <2>1. UNCHANGED <<query, mib, past, gathered, collected, entries>> /\ outcome' = outcome
    BY <1>6 DEF Ended, vars
  <2> QED BY <2>1, HonestUnchanged DEF Running
<1> QED BY <1>1, <1>2, <1>3, <1>4, <1>5, <1>6 DEF Next, Walks

(* Whatever the device does to its table between two requests, a reported    *)
(* entry has in every field a value that the very row had in that column at  *)
(* some time during the query (_get_arp_table, _get_lldp_neighbors and       *)
(* _get_bridge_fdb).                                                         *)
THEOREM EntriesAlwaysWereHeld == Spec => []EntriesWereHeld
<1>1. Init => Honest
  <2> SUFFICES ASSUME Init PROVE Honest
    OBVIOUS
  <2>1. TablesType /\ CollectedType
    BY ColumnsType DEF Init, TablesType, CollectedType
  <2>2. DOMAIN gathered = {} /\ Len(collected) = 0 /\ entries = {}
    BY DEF Init, Nothing
  <2>3. ReadWasHeld /\ EntriesWereHeld
    BY <2>2 DEF ReadWasHeld, EntriesWereHeld
  <2> QED BY <2>1, <2>3 DEF Honest
<1>2. Honest => EntriesWereHeld
  BY DEF Honest
<1> QED BY <1>1, <1>2, HonestStep, PTL DEF Spec

-----------------------------------------------------------------------------
(* What makes TypeOK inductive: the rows gathered are finitely many.         *)
Typed == TypeOK /\ CollectedType /\ IsFiniteSet(DOMAIN gathered)

(* One response adds at most one row. *)
LEMMA GatherGrows ==
  ASSUME NEW i, NEW value, IsFiniteSet(DOMAIN gathered), NEW limit \in Nat,
         Cardinality(DOMAIN gathered) <= limit
  PROVE  /\ IsFiniteSet(DOMAIN Gather(i, value))
         /\ Cardinality(DOMAIN Gather(i, value)) <= limit + 1
<1>1. DOMAIN Gather(i, value) = DOMAIN gathered \cup {i[1]}
  BY DEF Gather
<1>2. /\ IsFiniteSet(DOMAIN gathered \cup {i[1]})
      /\ Cardinality(DOMAIN gathered \cup {i[1]}) =
           IF i[1] \in DOMAIN gathered THEN Cardinality(DOMAIN gathered)
           ELSE Cardinality(DOMAIN gathered) + 1
  BY FS_AddElement
<1>3. Cardinality(DOMAIN gathered) \in Nat
  BY FS_CardinalityType
<1> QED BY <1>1, <1>2, <1>3

LEMMA LimitType == Typed => query \in Queries /\ MaxRows[query] \in Nat
<1>1. Typed => query \in Queries
  BY DEF Typed, TypeOK
<1>2. \A q \in Queries : MaxRows[q] \in Nat
  BY WalkAssumption
<1> QED BY <1>1, <1>2

LEMMA TypedEndColumn ==
  ASSUME Typed, Running, NEW values, EndColumn(values), UNCHANGED <<query, mib, past>>
  PROVE  Typed'
<1>1. /\ collected' = Append(collected, values) /\ gathered' = Nothing
      /\ cursor' = Start /\ rows' = 0
      /\ IF Len(collected') = Len(Columns(query))
         THEN outcome' = "responded" /\ entries' = Join(collected')
         ELSE UNCHANGED <<outcome, entries>>
  BY DEF EndColumn
<1>2. /\ collected' \in Seq({collected'[k] : k \in DOMAIN collected'})
      /\ Len(collected') = Len(collected) + 1 /\ Len(collected) \in Nat
  BY <1>1, AppendCollected DEF Typed
<1>3. Len(Columns(query)) \in Nat /\ Len(collected) < Len(Columns(query))
  BY ColumnsType DEF Typed, TypeOK, CollectedType
<1>4. CollectedType'
  BY <1>1, <1>2, <1>3 DEF CollectedType, Running
<1>5. IsFiniteSet(DOMAIN gathered') /\ Cardinality(DOMAIN gathered') = 0
  BY <1>1, FS_EmptySet DEF Nothing
<1>6. rows' \in 0..MaxRows[query] /\ cursor' \in Index \cup {Start}
  BY <1>1, LimitType DEF Typed
<1>7. TypeOK'
  <2>1. query' \in Queries /\ mib' \in past' /\ past' \subseteq Tables[query']
    BY DEF Typed, TypeOK
  <2>2. /\ outcome' \in {"running", "responded", "timeout", "malformed response"}
        /\ outcome' = "running" => Len(collected') < Len(Columns(query'))
        /\ outcome' = "responded" => Len(collected') = Len(Columns(query'))
        /\ outcome' # "responded" => entries' = {}
    <3>1. outcome = "running" /\ entries = {} /\ query' = query
      BY DEF Typed, TypeOK, Running
    <3>2. CASE Len(collected') = Len(Columns(query))
      <4>1. outcome' = "responded"
        BY <1>1, <3>2
      <4> QED BY <3>1, <3>2, <4>1
    <3>3. CASE Len(collected') # Len(Columns(query))
      <4>1. outcome' = outcome /\ entries' = entries
        BY <1>1, <3>3
      <4>2. Len(collected') < Len(Columns(query))
        BY <1>2, <1>3, <3>3
      <4> QED BY <3>1, <4>1, <4>2
    <3> QED BY <3>2, <3>3
  <2>3. Len(collected') \in 0..Len(Columns(query'))
    BY <1>2, <1>3
  <2>4. rows' \in 0..MaxRows[query'] /\ Cardinality(DOMAIN gathered') <= rows'
    BY <1>1, <1>5, <1>6
  <2>5. cursor' \in Index \cup {Start}
    BY <1>6
  <2> QED BY <2>1, <2>2, <2>3, <2>4, <2>5 DEF TypeOK
<1> QED BY <1>4, <1>5, <1>7 DEF Typed

LEMMA TypedStep == Typed /\ [Next]_vars => Typed'
<1> SUFFICES ASSUME Typed, [Next]_vars PROVE Typed'
  OBVIOUS
<1>1. CASE NextRow
  <2>1. UNCHANGED <<query, mib, past, collected, outcome, entries>>
    BY <1>1 DEF NextRow
  <2>2. PICK i \in DOMAIN mib[Column] :
          /\ cursor' = i /\ rows' = rows + 1
          /\ gathered' = gathered \/ gathered' = Gather(i, mib[Column][i])
    BY <1>1 DEF NextRow, Ahead
  <2>3. Running /\ rows < MaxRows[query]
    BY <1>1 DEF NextRow
  <2>4. MaxRows[query] \in Nat /\ rows \in Nat
    <3>1. rows \in 0..MaxRows[query]
      BY DEF Typed, TypeOK
    <3> QED BY <3>1, LimitType
  <2>5. rows' \in 0..MaxRows[query]
    BY <2>2, <2>3, <2>4
  <2>6. cursor' \in Index
    <3>1. Len(collected) + 1 \in 1..Len(Columns(query))
      <4>1. Len(Columns(query)) \in Nat
        BY LimitType, ColumnsType
      <4> QED BY <2>3, <4>1 DEF Typed, CollectedType
    <3> QED BY <2>2, <3>1, WalkAssumption DEF Typed, TypeOK, Column
  <2>7. IsFiniteSet(DOMAIN gathered') /\ Cardinality(DOMAIN gathered') <= rows'
    <3>1. IsFiniteSet(DOMAIN gathered) /\ Cardinality(DOMAIN gathered) <= rows
      BY DEF Typed, TypeOK
    <3>2. Cardinality(DOMAIN gathered) \in Nat
      BY <3>1, FS_CardinalityType
    <3>3. CASE gathered' = gathered
      BY <2>2, <2>4, <3>1, <3>2, <3>3
    <3>4. CASE gathered' = Gather(i, mib[Column][i])
      BY <2>2, <2>4, <3>1, <3>4, GatherGrows
    <3> QED BY <2>2, <3>3, <3>4
  <2> QED BY <2>1, <2>5, <2>6, <2>7 DEF Typed, TypeOK, CollectedType, Running
<1>2. CASE ColumnEnds
  BY <1>2, TypedEndColumn DEF ColumnEnds
<1>3. CASE WalkFails
  <2>1. CASE Len(collected) < Required(query)
    <3>1. /\ UNCHANGED <<query, mib, past, cursor, rows, gathered, collected, entries>>
          /\ outcome' = "timeout" /\ Running
      BY <1>3, <2>1 DEF WalkFails
    <3> QED BY <3>1 DEF Typed, TypeOK, CollectedType, Running
  <2>2. CASE ~(Len(collected) < Required(query))
    BY <1>3, <2>2, TypedEndColumn DEF WalkFails
  <2> QED BY <2>1, <2>2
<1>4. CASE Raises
  BY <1>4 DEF Raises, Typed, TypeOK, CollectedType, Running
<1>5. CASE TableChanges
  BY <1>5 DEF TableChanges, Typed, TypeOK, CollectedType, Running
<1>6. CASE Ended \/ UNCHANGED vars
  BY <1>6 DEF Ended, vars, Typed, TypeOK, CollectedType, Running
<1> QED BY <1>1, <1>2, <1>3, <1>4, <1>5, <1>6 DEF Next, Walks

LEMMA TypedInit == Init => Typed
<1> SUFFICES ASSUME Init PROVE Typed
  OBVIOUS
<1>1. IsFiniteSet(DOMAIN gathered) /\ Cardinality(DOMAIN gathered) = 0
  BY FS_EmptySet DEF Init, Nothing
<1>2. query \in Queries /\ Len(Columns(query)) \in Nat /\ Len(Columns(query)) > 1
  BY ColumnsType DEF Init
<1>3. collected = <<>> /\ outcome = "running" /\ entries = {} /\ rows = 0 /\ cursor = Start
  BY DEF Init
<1>4. MaxRows[query] \in Nat
  BY <1>2, WalkAssumption
<1> QED BY <1>1, <1>2, <1>3, <1>4 DEF Init, Typed, TypeOK, CollectedType

(* Every variable of a query keeps its type; in particular no column gives   *)
(* more rows than its limit (maxRows), and a query that did not respond has  *)
(* no entries.                                                               *)
THEOREM TypeCorrect == Spec => []TypeOK
<1>1. Typed => TypeOK
  BY DEF Typed
<1> QED BY <1>1, TypedInit, TypedStep, PTL DEF Spec

-----------------------------------------------------------------------------
(* Steady rows *)

InstancesSeen(k) == UNION {DOMAIN Cell(t, k) : t \in past}

(* The instances at or before the cursor: what a walk has passed.            *)
Passed(i) == ~Precedes(cursor, i)

OfRow(k, r) == {i \in Readable(mib, k) : i[1] = r}
PassedOfRow(k, r) == {i \in OfRow(k, r) : Passed(i)}

(* These values have of row r what the instances say, and nothing else.      *)
Keeps(values, instances, cells, column, r) ==
  /\ r \in DOMAIN values <=> instances # {}
  /\ instances # {} =>
       values[r] = IF column = "ManAddr" THEN {i[2] : i \in instances} ELSE cells[<<r, 0>>]

(* A column that was walked has the steady row as the table has it now; one  *)
(* that failed, and only a best-effort column can, has no row at all.        *)
ColumnKeeps(k, r) ==
  \/ Keeps(collected[k], OfRow(k, r), Cell(mib, k), Columns(query)[k], r)
  \/ k > Required(query) /\ collected[k] = Nothing

(* What makes SteadyRowsReported inductive.  A walk has passed at least as   *)
(* many instances as it has had responses, so the row limit cannot stop it   *)
(* before a row within the limit; and of a steady row it has gathered what   *)
(* the instances it has passed say.                                          *)
Current == Len(collected) + 1

RowsCounted == rows <= Cardinality({i \in InstancesSeen(Current) : Passed(i)})

SteadyGathered ==
  \A r \in Nat : Steady(r) =>
    Keeps(gathered, PassedOfRow(Current, r), Cell(mib, Current), Columns(query)[Current], r)

SteadyCollected ==
  \A r \in Nat : Steady(r) /\ WithinLimit(r) =>
    \A k \in 1..Len(collected) : ColumnKeeps(k, r)

FinitelySeen == \A k \in 1..Len(Columns(query)) : IsFiniteSet(InstancesSeen(k))

Tracked ==
  /\ Typed /\ FinitelySeen
  /\ Running => RowsCounted /\ SteadyGathered /\ SteadyCollected
  /\ SteadyRowsReported

-----------------------------------------------------------------------------
(* The order of the instances. *)
LEMMA PrecedesOrder ==
  ASSUME NEW a \in Int \X Int, NEW b \in Int \X Int, NEW c \in Int \X Int
  PROVE  /\ ~Precedes(a, a)
         /\ a # b => Precedes(a, b) \/ Precedes(b, a)
         /\ Precedes(a, b) /\ Precedes(b, c) => Precedes(a, c)
         /\ Precedes(a, b) => ~Precedes(b, a) /\ a[1] <= b[1]
BY DEF Precedes

(* The column being walked, and where the instances of a column are.         *)
LEMMA CurrentColumn ==
  ASSUME Typed, Running
  PROVE  /\ Current \in 1..Len(Columns(query)) /\ Column = Columns(query)[Current]
         /\ Cell(mib, Current) = mib[Column] /\ Len(collected) \in Nat
         /\ cursor \in Int \X Int
<1>1. query \in Queries /\ Len(collected) \in 0..Len(Columns(query))
  BY DEF Typed, TypeOK
<1>2. Len(Columns(query)) \in Nat
  BY <1>1, ColumnsType
<1>3. Len(collected) < Len(Columns(query))
  BY DEF Typed, CollectedType
<1>4. cursor \in Int \X Int
  <2>1. cursor \in Index \/ cursor = Start
    BY DEF Typed, TypeOK
  <2>2. Index \subseteq Int \X Int /\ Start \in Int \X Int
    BY DEF Index, Start
  <2> QED BY <2>1, <2>2
<1> QED BY <1>1, <1>2, <1>3, <1>4 DEF Current, Column, Cell

LEMMA InstancesIndexed ==
  ASSUME Typed, NEW k \in 1..Len(Columns(query)), NEW t \in past, NEW i \in DOMAIN Cell(t, k)
  PROVE  /\ i \in Index /\ i \in Int \X Int /\ i[1] \in Nat /\ i = <<i[1], i[2]>>
         /\ Columns(query)[k] # "ManAddr" => i = <<i[1], 0>>
<1>1. query \in Queries /\ t \in Tables[query]
  BY DEF Typed, TypeOK
<1>2. i \in Index /\ (Columns(query)[k] # "ManAddr" => i[2] = 0)
  BY <1>1, WalkAssumption DEF Cell
<1> QED BY <1>2 DEF Index

LEMMA SeenIndexed ==
  ASSUME Typed, NEW k \in 1..Len(Columns(query)), NEW i \in InstancesSeen(k)
  PROVE  i \in Int \X Int /\ i[1] \in Nat
<1>1. PICK t \in past : i \in DOMAIN Cell(t, k)
  BY DEF InstancesSeen
<1> QED BY <1>1, InstancesIndexed

(* A row that stays as it is stays so when the history was shorter.          *)
LEMMA SteadyBefore ==
  ASSUME NEW r, UNCHANGED query, mib \in past, past \subseteq past', mib' \in past', Steady(r)'
  PROVE  /\ Steady(r)
         /\ \A k \in 1..Len(Columns(query)) :
              /\ \A i : i[1] = r => (i \in DOMAIN Cell(mib, k) <=> i \in DOMAIN Cell(mib', k))
              /\ \A i \in DOMAIN Cell(mib, k) : i[1] = r => Cell(mib', k)[i] = Cell(mib, k)[i]
<1>1. \A t \in past' : \A k \in 1..Len(Columns(query)) :
        \A i \in DOMAIN Cell(t, k) \cup DOMAIN Cell(mib', k) :
          i[1] = r => /\ i \in DOMAIN Cell(t, k) /\ i \in DOMAIN Cell(mib', k)
                      /\ Cell(t, k)[i] = Cell(mib', k)[i]
  BY DEF Steady, Cell
<1>2. mib \in past'
  OBVIOUS
<1> QED BY <1>1, <1>2 DEF Steady

LEMMA WithinLimitBefore ==
  ASSUME NEW r, UNCHANGED query, past \subseteq past', FinitelySeen', WithinLimit(r)',
         query \in Queries
  PROVE  WithinLimit(r)
<1> SUFFICES ASSUME NEW k \in 1..Len(Columns(query))
             PROVE  Cardinality({i \in InstancesSeen(k) : i[1] <= r}) <= MaxRows[query]
  BY DEF WithinLimit, InstancesSeen
<1> DEFINE now    == {i \in InstancesSeen(k) : i[1] <= r}
           later  == {i \in InstancesSeen(k)' : i[1] <= r}
<1>1. InstancesSeen(k) \subseteq InstancesSeen(k)'
  BY DEF InstancesSeen, Cell
<1>2. IsFiniteSet(InstancesSeen(k)')
  BY DEF FinitelySeen
<1>3. Cardinality(later) <= MaxRows[query]
  BY DEF WithinLimit, InstancesSeen
<1>4. IsFiniteSet(later)
  BY <1>2, FS_Subset
<1>5. now \subseteq later
  BY <1>1
<1> HIDE DEF now, later
<1>6. /\ Cardinality(now) <= Cardinality(later)
      /\ Cardinality(now) \in Nat /\ Cardinality(later) \in Nat
  BY <1>4, <1>5, FS_Subset, FS_CardinalityType
<1>7. MaxRows[query] \in Nat
  BY WalkAssumption
<1>8. Cardinality(now) <= MaxRows[query]
  BY <1>3, <1>6, <1>7
<1> QED BY <1>8 DEF now

-----------------------------------------------------------------------------
(* One response. *)

(* It is the next instance, so nothing is skipped and one more is passed.    *)
LEMMA NextPassed ==
  ASSUME Tracked, Running, NEW i \in Ahead, \A j \in Ahead \ {i} : Precedes(i, j),
         cursor' = i, UNCHANGED <<query, mib, past, collected>>
  PROVE  /\ i \in DOMAIN Cell(mib, Current) /\ i \in InstancesSeen(Current)
         /\ ~Passed(i) /\ Passed(i)'
         /\ \A j \in DOMAIN Cell(mib, Current) : Precedes(i, j) <=> ~Passed(j) /\ j # i
         /\ \A j \in InstancesSeen(Current) : Passed(j) => ~Precedes(i, j)
<1>1. /\ Current \in 1..Len(Columns(query)) /\ Cell(mib, Current) = mib[Column]
      /\ cursor \in Int \X Int /\ mib \in past
  BY CurrentColumn DEF Tracked, Typed, TypeOK
<1>2. i \in DOMAIN Cell(mib, Current) /\ Precedes(cursor, i)
  BY <1>1 DEF Ahead
<1>3. i \in InstancesSeen(Current)
  BY <1>1, <1>2 DEF InstancesSeen
<1>4. \A j \in InstancesSeen(Current) : j \in Int \X Int
  BY <1>1, SeenIndexed DEF Tracked
<1>5. \A j \in DOMAIN Cell(mib, Current) : j \in InstancesSeen(Current)
  BY <1>1 DEF InstancesSeen
<1>6. ~Precedes(i, i)
  BY <1>3, <1>4, PrecedesOrder
<1>7. \A j \in InstancesSeen(Current) : Precedes(i, j) => Precedes(cursor, j)
  BY <1>1, <1>2, <1>3, <1>4, PrecedesOrder
<1>8. \A j \in DOMAIN Cell(mib, Current) : Precedes(cursor, j) /\ j # i => Precedes(i, j)
  BY <1>1 DEF Ahead
<1>9. \A j \in DOMAIN Cell(mib, Current) : Precedes(i, j) <=> ~Passed(j) /\ j # i
  BY <1>5, <1>6, <1>7, <1>8 DEF Passed
<1>10. ~Passed(i) /\ Passed(i)'
  BY <1>2, <1>6 DEF Passed
<1>11. \A j \in InstancesSeen(Current) : Passed(j) => ~Precedes(i, j)
  BY <1>7 DEF Passed
<1> QED BY <1>2, <1>3, <1>9, <1>10, <1>11

LEMMA NextCounted ==
  ASSUME Tracked, Running, NEW i \in Ahead, \A j \in Ahead \ {i} : Precedes(i, j),
         cursor' = i, rows' = rows + 1, UNCHANGED <<query, mib, past, collected>>
  PROVE  RowsCounted'
<1> DEFINE seen  == InstancesSeen(Current)
           old   == {j \in seen : Passed(j)}
           new   == {j \in seen : ~Precedes(i, j)}
<1>1. IsFiniteSet(seen)
  BY CurrentColumn DEF Tracked, FinitelySeen
<1>2. i \in new /\ i \notin old /\ old \subseteq new
  <2>1. ~Precedes(i, i)
    BY NextPassed DEF Passed
  <2> QED BY <2>1, NextPassed
<1>3. rows <= Cardinality(old) /\ rows \in Nat
  <2>1. rows \in 0..MaxRows[query] /\ MaxRows[query] \in Nat
    BY LimitType DEF Tracked, Typed, TypeOK
  <2> QED BY <2>1 DEF Tracked, RowsCounted
<1>4. new = {j \in InstancesSeen(Current) : Passed(j)}'
  BY DEF Current, InstancesSeen, Cell, Passed
<1>5. IsFiniteSet(old) /\ IsFiniteSet(new)
  BY <1>1, FS_Subset
<1> HIDE DEF old, new, seen
<1>6. /\ IsFiniteSet(old \cup {i}) /\ Cardinality(old \cup {i}) = Cardinality(old) + 1
      /\ Cardinality(old \cup {i}) <= Cardinality(new)
  <2>1. old \cup {i} \in SUBSET new
    BY <1>2
  <2> QED BY <1>2, <1>5, <2>1, FS_AddElement, FS_Subset
<1>7. Cardinality(old) \in Nat /\ Cardinality(new) \in Nat
  BY <1>5, FS_CardinalityType
<1>8. rows' <= Cardinality(new)
  BY <1>3, <1>6, <1>7
<1> QED BY <1>4, <1>8 DEF RowsCounted

(* What is gathered of a steady row goes on saying what was passed.          *)
LEMMA NextGathered ==
  ASSUME Tracked, Running, NEW i \in Ahead, \A j \in Ahead \ {i} : Precedes(i, j),
         cursor' = i, UNCHANGED <<query, mib, past, collected>>,
         gathered' = IF i \in Unparsed \/ mib[Column][i] = None
                     THEN gathered ELSE Gather(i, mib[Column][i])
  PROVE  SteadyGathered'
<1> SUFFICES ASSUME NEW r \in Nat, Steady(r)'
             PROVE  Keeps(gathered, PassedOfRow(Current, r), Cell(mib, Current),
                          Columns(query)[Current], r)'
  BY DEF SteadyGathered
<1> DEFINE old    == PassedOfRow(Current, r)
           new    == {j \in OfRow(Current, r) : ~Precedes(i, j)}
           cells  == Cell(mib, Current)
           column == Columns(query)[Current]
<1>1. Steady(r)
  BY DEF Steady, Cell
<1>2. Keeps(gathered, old, cells, column, r)
  BY <1>1 DEF Tracked, SteadyGathered
<1>3. /\ Current \in 1..Len(Columns(query)) /\ Column = column /\ cells = mib[Column]
      /\ mib \in past
  BY CurrentColumn DEF Tracked, Typed, TypeOK
<1>4. PassedOfRow(Current, r)' = new /\ cells' = cells /\ column' = column
  BY DEF PassedOfRow, OfRow, Readable, Current, Cell, Passed
<1>5. \A j \in OfRow(Current, r) : j \in new <=> j \in old \/ j = i
  <2>1. \A j \in OfRow(Current, r) : j \in DOMAIN cells
    BY DEF OfRow, Readable
  <2> QED BY <2>1, NextPassed DEF PassedOfRow
<1>6. i \in OfRow(Current, r) <=> i[1] = r /\ i \notin Unparsed /\ mib[Column][i] # None
  BY <1>3, NextPassed DEF OfRow, Readable
<1>7. /\ i \in Int \X Int /\ i[1] \in Nat /\ i = <<i[1], i[2]>>
      /\ column # "ManAddr" => i = <<i[1], 0>>
  BY <1>3, NextPassed, InstancesIndexed DEF Tracked
<1>8. CASE i \notin OfRow(Current, r)
  <2>1. new = old
    BY <1>5, <1>8 DEF PassedOfRow
  <2>2. r \in DOMAIN gathered' <=> r \in DOMAIN gathered
    BY <1>6, <1>8 DEF Gather
  <2>3. r \in DOMAIN gathered => gathered'[r] = gathered[r]
    BY <1>6, <1>8 DEF Gather
  <2> QED BY <1>2, <1>4, <2>1, <2>2, <2>3 DEF Keeps
<1>9. CASE i \in OfRow(Current, r)
  <2>1. new = old \cup {i} /\ i[1] = r
    BY <1>5, <1>6, <1>9 DEF PassedOfRow
  <2>2. gathered' = Gather(i, mib[Column][i])
    BY <1>6, <1>9
  <2>3. r \in DOMAIN gathered'
    BY <2>1, <2>2 DEF Gather
  <2>4. CASE column # "ManAddr"
    <3>1. gathered'[r] = cells[<<r, 0>>]
      BY <1>3, <1>7, <2>1, <2>2, <2>4 DEF Gather
    <3> QED BY <1>4, <2>1, <2>3, <2>4, <3>1 DEF Keeps
  <2>5. CASE column = "ManAddr"
    <3>1. gathered'[r] = {i[2]} \cup (IF r \in DOMAIN gathered THEN gathered[r] ELSE {})
      BY <1>3, <2>1, <2>2, <2>5 DEF Gather
    <3>2. (IF r \in DOMAIN gathered THEN gathered[r] ELSE {}) = {j[2] : j \in old}
      BY <1>2, <2>5 DEF Keeps
    <3>3. gathered'[r] = {j[2] : j \in new}
      BY <2>1, <3>1, <3>2
    <3> QED BY <1>4, <2>1, <2>3, <2>5, <3>3 DEF Keeps
  <2> QED BY <2>4, <2>5
<1> QED BY <1>8, <1>9

-----------------------------------------------------------------------------
(* The end of a column. *)

(* A walk that ran out of instances, or into the row limit, has passed every *)
(* instance of a steady row within the limit.                                *)
LEMMA SteadyRowPassed ==
  ASSUME Tracked, Running, rows = MaxRows[query] \/ Ahead = {},
         NEW r \in Nat, Steady(r), WithinLimit(r)
  PROVE  PassedOfRow(Current, r) = OfRow(Current, r)
<1>1. /\ Current \in 1..Len(Columns(query)) /\ Cell(mib, Current) = mib[Column]
      /\ cursor \in Int \X Int /\ mib \in past
  BY CurrentColumn DEF Tracked, Typed, TypeOK
<1> SUFFICES ASSUME NEW i \in OfRow(Current, r), Precedes(cursor, i) PROVE FALSE
  BY DEF PassedOfRow, Passed
<1>2. i \in DOMAIN Cell(mib, Current) /\ i[1] = r
  BY DEF OfRow, Readable
<1>3. i \in Ahead
  BY <1>1, <1>2 DEF Ahead
<1> DEFINE seen    == InstancesSeen(Current)
           passed  == {j \in seen : Passed(j)}
           upTo    == {j \in seen : j[1] <= r}
<1>4. i \in seen /\ IsFiniteSet(seen)
  BY <1>1, <1>2 DEF InstancesSeen, Tracked, FinitelySeen
<1>5. \A j \in seen : j \in Int \X Int /\ j[1] \in Nat
  BY <1>1, SeenIndexed DEF Tracked
<1>6. i \in upTo /\ i \notin passed
  BY <1>2, <1>4 DEF Passed
<1>7. passed \subseteq upTo
  <2> SUFFICES ASSUME NEW j \in seen, Passed(j) PROVE j[1] <= r
    OBVIOUS
  <2>1. ~Precedes(i, j)
    BY <1>1, <1>4, <1>5, PrecedesOrder DEF Passed
  <2>2. i \in Int \X Int /\ j \in Int \X Int
    BY <1>4, <1>5
  <2>3. j = i \/ Precedes(j, i)
    BY <2>1, <2>2, PrecedesOrder
  <2>4. j = i \/ j[1] <= i[1]
    BY <2>2, <2>3, PrecedesOrder
  <2> QED BY <1>2, <2>4
<1>8. IsFiniteSet(upTo)
  BY <1>4, FS_Subset
<1>9. Cardinality(upTo) <= MaxRows[query]
  BY <1>1 DEF WithinLimit, InstancesSeen
<1>10. rows <= Cardinality(passed)
  BY DEF Tracked, RowsCounted
<1> HIDE DEF seen, passed, upTo
<1>11. /\ Cardinality(passed) <= Cardinality(upTo)
       /\ Cardinality(passed) # Cardinality(upTo)
       /\ Cardinality(passed) \in Nat /\ Cardinality(upTo) \in Nat
  <2>1. passed \in SUBSET upTo
    BY <1>7
  <2> QED BY <1>6, <1>8, <2>1, FS_Subset, FS_CardinalityType
<1>12. MaxRows[query] \in Nat /\ rows = MaxRows[query]
  BY <1>3, LimitType DEF Tracked
<1> QED BY <1>9, <1>10, <1>11, <1>12

(* The join of columns that keep a steady row reports it as it is.           *)
LEMMA KeptAsRead ==
  ASSUME NEW columns, NEW k \in 1..Len(Columns(query)), NEW r,
         Keeps(columns[k], OfRow(k, r), Cell(mib, k), Columns(query)[k], r)
  PROVE  /\ r \in DOMAIN columns[k] <=> r \in DOMAIN Reading(mib)[k]
         /\ r \in DOMAIN columns[k] => columns[k][r] = Reading(mib)[k][r]
<1>1. DOMAIN Reading(mib)[k] = {i[1] : i \in Readable(mib, k)}
  BY DEF Reading
<1>2. r \in DOMAIN Reading(mib)[k] <=> OfRow(k, r) # {}
  BY <1>1 DEF OfRow
<1>3. r \in DOMAIN Reading(mib)[k] =>
        Reading(mib)[k][r] = IF Columns(query)[k] = "ManAddr" THEN {i[2] : i \in OfRow(k, r)}
                             ELSE Cell(mib, k)[<<r, 0>>]
  BY <1>1 DEF Reading, OfRow
<1> QED BY <1>2, <1>3 DEF Keeps

LEMMA SteadyJoin ==
  ASSUME query \in Queries, NEW columns, NEW r \in JoinedRows(Reading(mib)),
         \A k \in 1..Len(Columns(query)) :
           \/ Keeps(columns[k], OfRow(k, r), Cell(mib, k), Columns(query)[k], r)
           \/ k > Required(query) /\ columns[k] = Nothing
  PROVE  \E e \in Join(columns) :
           /\ e.row = r
           /\ \A k \in 1..Len(Columns(query)) :
                \/ e.fields[k] = Field(Reading(mib), k, r)
                \/ /\ k > Required(query)
                   /\ \A f \in Join(columns) : f.fields[k] = Absent(Columns(query)[k])
<1>1. /\ Len(Columns(query)) \in Nat /\ Len(Columns(query)) > 1
      /\ Required(query) \in 1..Len(Columns(query))
  BY ColumnsType
<1>2. \A k \in 1..Required(query) :
        /\ r \in DOMAIN columns[k] <=> r \in DOMAIN Reading(mib)[k]
        /\ r \in DOMAIN columns[k] => columns[k][r] = Reading(mib)[k][r]
  BY <1>1, KeptAsRead
<1>3. r \in JoinedRows(columns)
  <2>1. 1 \in 1..Required(query) /\ (query = "lldp" => 2 \in 1..Required(query))
    BY <1>1 DEF Required
  <2> QED BY <1>2, <2>1 DEF JoinedRows
<1>4. Entry(columns, r) \in Join(columns) /\ Entry(columns, r).row = r
  BY <1>3 DEF Join, Entry
<1>5. \A k \in 1..Len(Columns(query)) : \A s : Entry(columns, s).fields[k] = Field(columns, k, s)
  BY DEF Entry
<1>6. ASSUME NEW k \in 1..Len(Columns(query))
      PROVE  \/ Entry(columns, r).fields[k] = Field(Reading(mib), k, r)
             \/ /\ k > Required(query)
                /\ \A f \in Join(columns) : f.fields[k] = Absent(Columns(query)[k])
  <2>1. CASE Keeps(columns[k], OfRow(k, r), Cell(mib, k), Columns(query)[k], r)
    <3>1. Field(columns, k, r) = Field(Reading(mib), k, r)
      BY <2>1, KeptAsRead DEF Field
    <3> QED BY <1>5, <3>1
  <2>2. CASE k > Required(query) /\ columns[k] = Nothing
    <3>1. \A s : Field(columns, k, s) = Absent(Columns(query)[k])
      BY <2>2 DEF Field, Nothing
    <3> QED BY <1>5, <2>2, <3>1 DEF Join
  <2> QED BY <2>1, <2>2
<1> QED BY <1>4, <1>6

(* The next column starts with nothing gathered and nothing passed.          *)
LEMMA FreshColumn ==
  ASSUME Typed, Running, NEW k \in 1..Len(Columns(query)), NEW r
  PROVE  /\ {i \in OfRow(k, r) : ~Precedes(Start, i)} = {}
         /\ Keeps(Nothing, {}, Cell(mib, k), Columns(query)[k], r)
<1>1. \A i \in OfRow(k, r) : i[1] \in Nat
  <2>1. mib \in past
    BY DEF Typed, TypeOK
  <2> QED BY <2>1, InstancesIndexed DEF OfRow, Readable
<1>2. \A i \in OfRow(k, r) : Precedes(Start, i)
  BY <1>1 DEF Precedes, Start
<1>3. DOMAIN Nothing = {}
  BY DEF Nothing
<1> QED BY <1>2, <1>3 DEF Keeps

LEMMA TrackedEndColumn ==
  ASSUME Tracked, Running, NEW values, EndColumn(values), UNCHANGED <<query, mib, past>>,
         \A r \in Nat : Steady(r) /\ WithinLimit(r) =>
           \/ Keeps(values, OfRow(Current, r), Cell(mib, Current), Columns(query)[Current], r)
           \/ Current > Required(query) /\ values = Nothing
  PROVE  Tracked'
<1>1. /\ collected' = Append(collected, values) /\ gathered' = Nothing
      /\ cursor' = Start /\ rows' = 0
      /\ IF Len(collected') = Len(Columns(query))
         THEN outcome' = "responded" /\ entries' = Join(collected')
         ELSE UNCHANGED <<outcome, entries>>
  BY DEF EndColumn
<1>2. /\ Len(collected') = Current /\ Len(collected) \in Nat
      /\ \A k \in 1..Len(collected) : collected'[k] = collected[k]
      /\ collected'[Current] = values
  BY <1>1, AppendCollected DEF Tracked, Typed, Current
<1>3. Typed'
  BY TypedEndColumn DEF Tracked
<1>4. FinitelySeen'
  BY DEF Tracked, FinitelySeen, InstancesSeen, Cell
<1>5. \A r : (Steady(r)' <=> Steady(r)) /\ (WithinLimit(r)' <=> WithinLimit(r))
  BY DEF Steady, WithinLimit, Cell
<1>6. \A k, r : OfRow(k, r)' = OfRow(k, r) /\ Cell(mib, k)' = Cell(mib, k)
  BY DEF OfRow, Readable, Cell
<1>7. \A r \in Nat : Steady(r) /\ WithinLimit(r) => \A k \in 1..Len(collected') :
        \/ Keeps(collected'[k], OfRow(k, r), Cell(mib, k), Columns(query)[k], r)
        \/ k > Required(query) /\ collected'[k] = Nothing
  <2> SUFFICES ASSUME NEW r \in Nat, Steady(r), WithinLimit(r), NEW k \in 1..Current
               PROVE  \/ Keeps(collected'[k], OfRow(k, r), Cell(mib, k), Columns(query)[k], r)
                      \/ k > Required(query) /\ collected'[k] = Nothing
    BY <1>2
  <2>1. CASE k = Current
    BY <1>2, <2>1
  <2>2. CASE k # Current
    <3>1. k \in 1..Len(collected)
      BY <1>2, <2>2 DEF Current
    <3>2. ColumnKeeps(k, r)
      BY <3>1 DEF Tracked, SteadyCollected
    <3> QED BY <1>2, <3>1, <3>2 DEF ColumnKeeps
  <2> QED BY <2>1, <2>2
<1>8. SteadyCollected'
  BY <1>5, <1>6, <1>7 DEF SteadyCollected, ColumnKeeps, Nothing
<1>9. Running' => Current + 1 \in 1..Len(Columns(query)) /\ Current' = Current + 1
  <2> SUFFICES ASSUME Running'
               PROVE  Current + 1 \in 1..Len(Columns(query)) /\ Current' = Current + 1
    OBVIOUS
  <2>1. Current' = Current + 1
    BY <1>2 DEF Current
  <2>2. Len(collected') < Len(Columns(query))
    BY <1>3 DEF Typed, CollectedType
  <2>3. Len(Columns(query)) \in Nat
    BY ColumnsType DEF Tracked, Typed, TypeOK
  <2> QED BY <1>2, <2>1, <2>2, <2>3
<1>10. Running' => RowsCounted'
  <2> SUFFICES ASSUME Running' PROVE RowsCounted'
    OBVIOUS
  <2>1. IsFiniteSet(InstancesSeen(Current)')
    BY <1>4, <1>9 DEF FinitelySeen
  <2>2. IsFiniteSet({i \in InstancesSeen(Current) : Passed(i)}')
    BY <2>1, FS_Subset
  <2>3. Cardinality({i \in InstancesSeen(Current) : Passed(i)}') \in Nat
    BY <2>2, FS_CardinalityType
  <2> QED BY <1>1, <2>3 DEF RowsCounted
<1>11. Running' => SteadyGathered'
  <2> SUFFICES ASSUME Running', NEW r \in Nat
               PROVE  Keeps(gathered, PassedOfRow(Current, r), Cell(mib, Current),
                            Columns(query)[Current], r)'
    BY DEF SteadyGathered
  <2>1. /\ {i \in OfRow(Current + 1, r) : ~Precedes(Start, i)} = {}
        /\ Keeps(Nothing, {}, Cell(mib, Current + 1), Columns(query)[Current + 1], r)
    BY <1>9, FreshColumn DEF Tracked
  <2>2. PassedOfRow(Current, r)' = {}
    <3>1. OfRow(Current, r)' = OfRow(Current + 1, r)
      BY <1>9 DEF OfRow, Readable, Cell
    <3> QED BY <1>1, <2>1, <3>1 DEF PassedOfRow, Passed
  <2>3. Cell(mib, Current)' = Cell(mib, Current + 1)
    BY <1>9 DEF Cell
  <2>4. gathered' = Nothing /\ Columns(query)[Current]' = Columns(query)[Current + 1]
    BY <1>1, <1>9
  <2> QED BY <2>1, <2>2, <2>3, <2>4 DEF Keeps
<1>12. SteadyRowsReported'
  <2>1. CASE Len(collected') # Len(Columns(query))
    BY <1>1, <2>1 DEF SteadyRowsReported, Running
  <2>2. CASE Len(collected') = Len(Columns(query))
    <3> SUFFICES ASSUME NEW r \in JoinedRows(Reading(mib)), Steady(r), WithinLimit(r)
                 PROVE  \E e \in Join(collected') :
                          /\ e.row = r
                          /\ \A k \in 1..Len(Columns(query)) :
                               \/ e.fields[k] = Field(Reading(mib), k, r)
                               \/ /\ k > Required(query)
                                  /\ \A f \in Join(collected') :
                                       f.fields[k] = Absent(Columns(query)[k])
      <4>1. /\ JoinedRows(Reading(mib))' = JoinedRows(Reading(mib))
            /\ Reading(mib)' = Reading(mib)
        BY DEF JoinedRows, Reading, Readable, Cell
      <4>2. \A k, r : Field(Reading(mib), k, r)' = Field(Reading(mib), k, r)
        BY <4>1 DEF Field
      <4> QED BY <1>1, <1>5, <2>2, <4>1, <4>2 DEF SteadyRowsReported
    <3>1. query \in Queries
      BY DEF Tracked, Typed, TypeOK
    <3>2. r \in Nat
      <4>1. r \in DOMAIN Reading(mib)[1] /\ 1 \in 1..Len(Columns(query))
        BY <3>1, ColumnsType DEF JoinedRows
      <4>2. PICK i \in Readable(mib, 1) : r = i[1]
        BY <4>1 DEF Reading
      <4>3. mib \in past
        BY DEF Tracked, Typed, TypeOK
      <4> QED BY <4>1, <4>2, <4>3, InstancesIndexed DEF Readable, Tracked
    <3> QED BY <1>7, <2>2, <3>1, <3>2, SteadyJoin
  <2> QED BY <2>1, <2>2
<1> QED BY <1>3, <1>4, <1>8, <1>10, <1>11, <1>12 DEF Tracked

(* A query that has ended stays as it is.                                    *)
LEMMA TrackedUnchanged ==
  ASSUME Tracked, Typed', UNCHANGED <<query, mib, past, cursor, rows, gathered, collected, entries>>,
         Running' => Running, outcome' = outcome \/ outcome' # "responded"
  PROVE  Tracked'
<1>1. FinitelySeen'
  BY DEF Tracked, FinitelySeen, InstancesSeen, Cell
<1>2. \A r : (Steady(r)' <=> Steady(r)) /\ (WithinLimit(r)' <=> WithinLimit(r))
  BY DEF Steady, WithinLimit, Cell
<1>3. \A k, r : OfRow(k, r)' = OfRow(k, r) /\ Cell(mib, k)' = Cell(mib, k)
  BY DEF OfRow, Readable, Cell
<1>4. Running' => RowsCounted'
  BY DEF Tracked, RowsCounted, InstancesSeen, Cell, Passed, Current
<1>5. Running' => SteadyGathered'
  BY <1>2, <1>3 DEF Tracked, SteadyGathered, PassedOfRow, Passed, Current, Keeps
<1>6. Running' => SteadyCollected'
  BY <1>2, <1>3 DEF Tracked, SteadyCollected, ColumnKeeps, Keeps, Nothing
<1>7. SteadyRowsReported'
  <2>1. /\ JoinedRows(Reading(mib))' = JoinedRows(Reading(mib))
        /\ Reading(mib)' = Reading(mib)
    BY DEF JoinedRows, Reading, Readable, Cell
  <2>2. \A k, r : Field(Reading(mib), k, r)' = Field(Reading(mib), k, r)
    BY <2>1 DEF Field
  <2> QED BY <1>2, <2>1, <2>2 DEF Tracked, SteadyRowsReported
<1> QED BY <1>1, <1>4, <1>5, <1>6, <1>7 DEF Tracked

-----------------------------------------------------------------------------
(* The device changes its table: a steady row's instances stay.              *)
LEMMA SteadyInstances ==
  ASSUME Typed, TableChanges, NEW k \in 1..Len(Columns(query)), NEW r, Steady(r)'
  PROVE  /\ Steady(r) /\ OfRow(k, r)' = OfRow(k, r)
         /\ \A values, instances :
              instances \subseteq OfRow(k, r)
              /\ Keeps(values, instances, Cell(mib, k), Columns(query)[k], r)
                => Keeps(values, instances, Cell(mib', k), Columns(query)[k], r)
<1>1. /\ query' = query /\ mib \in past /\ past \subseteq past' /\ mib' \in past'
  BY DEF Typed, TypeOK, TableChanges
<1>2. /\ Steady(r)
      /\ \A i : i[1] = r => (i \in DOMAIN Cell(mib, k) <=> i \in DOMAIN Cell(mib', k))
      /\ \A i \in DOMAIN Cell(mib, k) : i[1] = r => Cell(mib', k)[i] = Cell(mib, k)[i]
  BY <1>1, SteadyBefore
<1>3. OfRow(k, r)' = {i \in Readable(mib', k) : i[1] = r}
  BY <1>1 DEF OfRow, Readable, Cell
<1>4. OfRow(k, r)' = OfRow(k, r)
  BY <1>2, <1>3 DEF OfRow, Readable
<1>5. ASSUME NEW i \in OfRow(k, r), Columns(query)[k] # "ManAddr"
      PROVE  Cell(mib', k)[<<r, 0>>] = Cell(mib, k)[<<r, 0>>]
  <2>1. i \in DOMAIN Cell(mib, k) /\ i[1] = r
    BY DEF OfRow, Readable
  <2>2. i = <<r, 0>>
    BY <1>1, <1>5, <2>1, InstancesIndexed
  <2> QED BY <1>2, <2>1, <2>2
<1> QED BY <1>2, <1>4, <1>5 DEF Keeps

LEMMA TrackedTableChanges ==
  ASSUME Tracked, Typed', TableChanges
  PROVE  Tracked'
<1>1. /\ UNCHANGED <<query, cursor, rows, gathered, collected, outcome, entries>>
      /\ Running /\ past' = past \cup {mib'} /\ mib' \in Tables[query] /\ query \in Queries
  BY DEF TableChanges, Tracked, Typed, TypeOK
<1>2. /\ Current \in 1..Len(Columns(query)) /\ Current' = Current /\ Len(collected) \in Nat
      /\ Current = Len(collected) + 1
  BY <1>1, CurrentColumn DEF Tracked, Current
<1>3. FinitelySeen'
  <2> SUFFICES ASSUME NEW k \in 1..Len(Columns(query))
               PROVE  IsFiniteSet(InstancesSeen(k)')
    BY <1>1 DEF FinitelySeen
  <2>1. InstancesSeen(k)' = InstancesSeen(k) \cup DOMAIN mib'[Columns(query)[k]]
    BY <1>1 DEF InstancesSeen, Cell
  <2>2. IsFiniteSet(InstancesSeen(k)) /\ IsFiniteSet(DOMAIN mib'[Columns(query)[k]])
    BY <1>1, WalkAssumption DEF Tracked, FinitelySeen
  <2> QED BY <2>1, <2>2, FS_Union
<1>4. RowsCounted'
  <2> DEFINE old == {i \in InstancesSeen(Current) : Passed(i)}
             new == {i \in InstancesSeen(Current)' : Passed(i)}
  <2>1. old \subseteq new
    BY <1>1, <1>2 DEF InstancesSeen, Cell
  <2>2. IsFiniteSet(new)
    <3>1. IsFiniteSet(InstancesSeen(Current)')
      BY <1>1, <1>2, <1>3 DEF FinitelySeen
    <3> QED BY <3>1, FS_Subset
  <2>3. rows \in Nat /\ rows <= Cardinality(old)
    <3>1. rows \in 0..MaxRows[query] /\ MaxRows[query] \in Nat
      BY LimitType DEF Tracked, Typed, TypeOK
    <3> QED BY <1>1, <3>1 DEF Tracked, RowsCounted
  <2>4. new = {i \in InstancesSeen(Current) : Passed(i)}'
    BY <1>1 DEF Passed
  <2> HIDE DEF old, new
  <2>5. /\ Cardinality(old) <= Cardinality(new)
        /\ Cardinality(old) \in Nat /\ Cardinality(new) \in Nat
    BY <2>1, <2>2, FS_Subset, FS_CardinalityType
  <2>6. rows <= Cardinality(new)
    BY <2>3, <2>5
  <2> QED BY <1>1, <2>4, <2>6 DEF RowsCounted
<1>5. SteadyGathered'
  <2> SUFFICES ASSUME NEW r \in Nat, Steady(r)'
               PROVE  Keeps(gathered, PassedOfRow(Current, r), Cell(mib, Current),
                            Columns(query)[Current], r)'
    BY DEF SteadyGathered
  <2>1. /\ Steady(r) /\ OfRow(Current, r)' = OfRow(Current, r)
        /\ \A values, instances :
              instances \subseteq OfRow(Current, r)
              /\ Keeps(values, instances, Cell(mib, Current), Columns(query)[Current], r)
                => Keeps(values, instances, Cell(mib', Current), Columns(query)[Current], r)
    <3>1. Typed
      BY DEF Tracked
    <3> QED BY <1>2, <3>1, SteadyInstances
  <2>2. Keeps(gathered, PassedOfRow(Current, r), Cell(mib, Current), Columns(query)[Current], r)
    BY <1>1, <2>1 DEF Tracked, SteadyGathered
  <2>3. Keeps(gathered, PassedOfRow(Current, r), Cell(mib', Current), Columns(query)[Current], r)
    <3>1. PassedOfRow(Current, r) \subseteq OfRow(Current, r)
      BY DEF PassedOfRow
    <3> QED BY <2>1, <2>2, <3>1
  <2>4. /\ PassedOfRow(Current, r)' = PassedOfRow(Current, r)
        /\ Cell(mib, Current)' = Cell(mib', Current)
    BY <1>1, <1>2, <2>1 DEF PassedOfRow, Passed, Cell
  <2> QED BY <1>1, <1>2, <2>3, <2>4 DEF Keeps
<1>6. SteadyCollected'
  <2> SUFFICES ASSUME NEW r \in Nat, Steady(r)', WithinLimit(r)', NEW k \in 1..Len(collected)
               PROVE  ColumnKeeps(k, r)'
    BY <1>1 DEF SteadyCollected
  <2>1. k \in 1..Len(Columns(query))
    <3>1. Len(Columns(query)) \in Nat
      BY <1>1, ColumnsType
    <3> QED BY <1>2, <3>1
  <2>2. /\ Steady(r) /\ OfRow(k, r)' = OfRow(k, r)
        /\ \A values, instances :
              instances \subseteq OfRow(k, r)
              /\ Keeps(values, instances, Cell(mib, k), Columns(query)[k], r)
                => Keeps(values, instances, Cell(mib', k), Columns(query)[k], r)
    <3>1. Typed
      BY DEF Tracked
    <3> QED BY <2>1, <3>1, SteadyInstances
  <2>3. WithinLimit(r)
    <3>1. past \subseteq past'
      BY <1>1
    <3> QED BY <1>1, <1>3, <3>1, WithinLimitBefore
  <2>4. ColumnKeeps(k, r)
    BY <1>1, <2>2, <2>3 DEF Tracked, SteadyCollected
  <2>5. Cell(mib, k)' = Cell(mib', k)
    BY <1>1 DEF Cell
  <2>6. \/ Keeps(collected[k], OfRow(k, r), Cell(mib', k), Columns(query)[k], r)
        \/ k > Required(query) /\ collected[k] = Nothing
    BY <2>2, <2>4 DEF ColumnKeeps
  <2> QED BY <1>1, <2>2, <2>5, <2>6 DEF ColumnKeeps, Keeps, Nothing
<1>7. SteadyRowsReported'
  BY <1>1 DEF SteadyRowsReported, Running
<1> QED BY <1>3, <1>4, <1>5, <1>6, <1>7 DEF Tracked

LEMMA TrackedStep == Tracked /\ [Next]_vars => Tracked'
<1> SUFFICES ASSUME Tracked, [Next]_vars PROVE Tracked'
  OBVIOUS
<1>1. Typed'
  BY TypedStep DEF Tracked
<1>2. CASE NextRow
  <2>1. /\ Running /\ UNCHANGED <<query, mib, past, collected, outcome, entries>>
        /\ Running' = Running
    BY <1>2 DEF NextRow, Running
  <2>2. PICK i \in Ahead :
          /\ \A j \in Ahead \ {i} : Precedes(i, j)
          /\ cursor' = i /\ rows' = rows + 1
          /\ gathered' = IF i \in Unparsed \/ mib[Column][i] = None
                         THEN gathered ELSE Gather(i, mib[Column][i])
    BY <1>2 DEF NextRow
  <2>3. RowsCounted'
    BY <2>1, <2>2, NextCounted
  <2>4. SteadyGathered'
    BY <2>1, <2>2, NextGathered
  <2>5. SteadyCollected'
    <3>1. \A r : (Steady(r)' <=> Steady(r)) /\ (WithinLimit(r)' <=> WithinLimit(r))
      BY <2>1 DEF Steady, WithinLimit, Cell
    <3>2. \A k, r : OfRow(k, r)' = OfRow(k, r) /\ Cell(mib, k)' = Cell(mib, k)
      BY <2>1 DEF OfRow, Readable, Cell
    <3> QED BY <2>1, <3>1, <3>2 DEF Tracked, SteadyCollected, ColumnKeeps, Keeps, Nothing
  <2>6. FinitelySeen'
    BY <2>1 DEF Tracked, FinitelySeen, InstancesSeen, Cell
  <2>7. SteadyRowsReported'
    BY <2>1 DEF SteadyRowsReported, Running
  <2> QED BY <1>1, <2>3, <2>4, <2>5, <2>6, <2>7 DEF Tracked
<1>3. CASE ColumnEnds
  <2>1. /\ Running /\ EndColumn(gathered) /\ UNCHANGED <<query, mib, past>>
        /\ rows = MaxRows[query] \/ Ahead = {}
    BY <1>3 DEF ColumnEnds
  <2>2. ASSUME NEW r \in Nat, Steady(r), WithinLimit(r)
        PROVE  Keeps(gathered, OfRow(Current, r), Cell(mib, Current), Columns(query)[Current], r)
    <3>1. PassedOfRow(Current, r) = OfRow(Current, r)
      BY <2>1, <2>2, SteadyRowPassed
    <3> QED BY <2>1, <2>2, <3>1 DEF Tracked, SteadyGathered
  <2> QED BY <2>1, <2>2, TrackedEndColumn
<1>4. CASE WalkFails
  <2>1. CASE Len(collected) < Required(query)
    <3>1. /\ UNCHANGED <<query, mib, past, cursor, rows, gathered, collected, entries>>
          /\ outcome' = "timeout" /\ Running
      BY <1>4, <2>1 DEF WalkFails
    <3> QED BY <1>1, <3>1, TrackedUnchanged
  <2>2. CASE ~(Len(collected) < Required(query))
    <3>1. Running /\ EndColumn(Nothing) /\ UNCHANGED <<query, mib, past>>
      BY <1>4, <2>2 DEF WalkFails
    <3>2. Current > Required(query)
      <4>1. Required(query) \in Nat /\ Len(collected) \in Nat
        <5>1. query \in Queries
          BY DEF Tracked, Typed, TypeOK
        <5> QED BY <3>1, <5>1, ColumnsType, CurrentColumn DEF Tracked
      <4> QED BY <2>2, <4>1 DEF Current
    <3> QED BY <3>1, <3>2, TrackedEndColumn
  <2> QED BY <2>1, <2>2
<1>5. CASE Raises
  <2>1. /\ UNCHANGED <<query, mib, past, cursor, rows, gathered, collected, entries>>
        /\ outcome' = "malformed response" /\ Running
    BY <1>5 DEF Raises
  <2> QED BY <1>1, <2>1, TrackedUnchanged
<1>6. CASE TableChanges
  BY <1>1, <1>6, TrackedTableChanges
<1>7. CASE Ended \/ UNCHANGED vars
  <2>1. UNCHANGED <<query, mib, past, cursor, rows, gathered, collected, entries, outcome>>
    BY <1>7 DEF Ended, vars
  <2> QED BY <1>1, <2>1, TrackedUnchanged DEF Running
<1> QED BY <1>2, <1>3, <1>4, <1>5, <1>6, <1>7 DEF Next, Walks

LEMMA TrackedInit == Init => Tracked
<1> SUFFICES ASSUME Init PROVE Tracked
  OBVIOUS
<1>1. Typed
  BY TypedInit
<1>2. /\ query \in Queries /\ mib \in Tables[query] /\ past = {mib} /\ cursor = Start
      /\ rows = 0 /\ gathered = Nothing /\ Len(collected) = 0 /\ Running
  BY DEF Init, Running
<1>3. Current = 1 /\ Current \in 1..Len(Columns(query))
  BY <1>2, ColumnsType DEF Current
<1>4. FinitelySeen
  <2> SUFFICES ASSUME NEW k \in 1..Len(Columns(query)) PROVE IsFiniteSet(InstancesSeen(k))
    BY DEF FinitelySeen
  <2>1. InstancesSeen(k) = DOMAIN mib[Columns(query)[k]]
    BY <1>2 DEF InstancesSeen, Cell
  <2> QED BY <1>2, <2>1, WalkAssumption
<1>5. RowsCounted
  <2>1. IsFiniteSet({i \in InstancesSeen(Current) : Passed(i)})
    BY <1>3, <1>4, FS_Subset DEF FinitelySeen
  <2>2. Cardinality({i \in InstancesSeen(Current) : Passed(i)}) \in Nat
    BY <2>1, FS_CardinalityType
  <2> QED BY <1>2, <2>2 DEF RowsCounted
<1>6. SteadyGathered
  <2> SUFFICES ASSUME NEW r \in Nat
               PROVE  Keeps(Nothing, PassedOfRow(Current, r), Cell(mib, Current),
                            Columns(query)[Current], r)
    BY <1>2 DEF SteadyGathered
  <2>1. PassedOfRow(Current, r) = {}
    BY <1>1, <1>2, <1>3, FreshColumn DEF PassedOfRow, Passed
  <2> QED BY <1>1, <1>2, <1>3, <2>1, FreshColumn
<1>7. SteadyCollected /\ SteadyRowsReported
  BY <1>2 DEF SteadyCollected, SteadyRowsReported, Running
<1> QED BY <1>1, <1>4, <1>5, <1>6, <1>7 DEF Tracked

(* A row that stays as it is while a table is walked, and whose place is     *)
(* within the row limit, is in the answer exactly as the table has it, but   *)
(* for best-effort columns that failed for every row: the rows that come and *)
(* go around it never hide it, and never mix into it (ARCH-023 section 7).   *)
THEOREM SteadyRowsAlwaysReported == Spec => []SteadyRowsReported
<1>1. Tracked => SteadyRowsReported
  BY DEF Tracked
<1> QED BY <1>1, TrackedInit, TrackedStep, PTL DEF Spec
=============================================================================
