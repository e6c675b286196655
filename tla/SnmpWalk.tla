------------------------------ MODULE SnmpWalk ------------------------------
(***************************************************************************)
(* One table query of the SNMP client: get_arp_table, get_lldp_neighbors   *)
(* or get_bridge_fdb.  A table is read column after column, a column row   *)
(* after row with GETNEXT, and the columns are joined by their index at    *)
(* the end.  The device goes on changing the table in the meantime.        *)
(***************************************************************************)
EXTENDS Integers, Sequences, FiniteSets

CONSTANTS Queries,      \* the queries modelled: "arp", "lldp", "fdb"
          Tables,       \* query -> the contents the device's table may have
          LldpDetails,  \* the best-effort columns of lldpRemTable that are walked
          MaxRows,      \* query -> the row limit: ARP_TABLE_MAX_ROWS and the others
          Unparsed,     \* the indices the parser rejects: not IPv4, wrong length
          Blank,        \* the values that convert to nothing: blank text, unknown codes
          None

(* The columns in the order they are walked; the first ones are required.   *)
Columns(q) ==
  [arp  |-> <<"PhysAddress", "Type">>,
   lldp |-> <<"ChassisIdSubtype", "ChassisId">> \o LldpDetails \o <<"ManAddr">>,
   fdb  |-> <<"Port", "Status">>][q]

Required(q) == IF q = "lldp" THEN 2 ELSE 1

(***************************************************************************)
(* The device's table: for each column the instances it has, by index.  An *)
(* index is <<row, 0>>, and <<row, address>> in the management address     *)
(* table, whose rows repeat the neighbour's.                               *)
(***************************************************************************)
Index == Nat \X Nat

ASSUME WalkAssumption ==
  /\ Queries \subseteq {"arp", "lldp", "fdb"}
  /\ LldpDetails \in Seq({"PortIdSubtype", "PortId", "PortDesc", "SysName", "SysDesc",
                          "SysCapSupported", "SysCapEnabled"})
  /\ MaxRows \in [Queries -> Nat \ {0}]
  /\ \A q \in Queries : \A t \in Tables[q] :
       \A k \in 1..Len(Columns(q)) :
         /\ IsFiniteSet(DOMAIN t[Columns(q)[k]])
         /\ \A i \in DOMAIN t[Columns(q)[k]] :
              i \in Index /\ (Columns(q)[k] # "ManAddr" => i[2] = 0)

VARIABLES query,      \* which table is asked for
          mib,        \* the device's table now
          past,       \* history: every content the table has had during the query
          cursor,     \* the index of the last GETNEXT response in this column
          rows,       \* how many responses this column has given
          gathered,   \* values_by_key of the column being walked
          collected,  \* values_by_key of the columns done
          outcome,    \* "running", "responded", "timeout" or "malformed response"
          entries     \* the result's rows

vars == <<query, mib, past, cursor, rows, gathered, collected, outcome, entries>>

Column == Columns(query)[Len(collected) + 1]
Running == outcome = "running"
Start   == <<-1, 0>>
Nothing == [r \in {} |-> None]

Precedes(i, j) == i[1] < j[1] \/ (i[1] = j[1] /\ i[2] < j[2])

Ahead == {i \in DOMAIN mib[Column] : Precedes(cursor, i)}

Init ==
  /\ query \in Queries /\ mib \in Tables[query] /\ past = {mib}
  /\ cursor = Start /\ rows = 0 /\ gathered = Nothing /\ collected = <<>>
  /\ outcome = "running" /\ entries = {}

-----------------------------------------------------------------------------
(* The join. *)

(* _format_lldp_chassis_id: the length must suit what the subtype claims.   *)
Fits(subtype, chassis) ==
  /\ subtype = "macAddress" => chassis.shape = "six octets"
  /\ subtype = "networkAddress" => chassis.shape \notin {"empty", "IPv4 of wrong length"}

(* What a field without a value is. *)
Absent(column) == IF column = "ManAddr" THEN {} ELSE None

JoinedRows(columns) ==
  {r \in DOMAIN columns[1] :
     query = "lldp" => r \in DOMAIN columns[2] /\ Fits(columns[1][r], columns[2][r])}

Field(columns, k, r) ==
  IF r \notin DOMAIN columns[k] \/ (k > Required(query) /\ columns[k][r] \in Blank)
  THEN Absent(Columns(query)[k])
  ELSE columns[k][r]

Entry(columns, r) ==
  [row |-> r, fields |-> [k \in 1..Len(Columns(query)) |-> Field(columns, k, r)]]

Join(columns) == {Entry(columns, r) : r \in JoinedRows(columns)}

-----------------------------------------------------------------------------
(* The walk. *)

(* A value replaces what the row had; addresses add up. *)
Gather(i, value) ==
  [r \in DOMAIN gathered \cup {i[1]} |->
     IF r # i[1] THEN gathered[r]
     ELSE IF Column # "ManAddr" THEN value
     ELSE {i[2]} \cup (IF r \in DOMAIN gathered THEN gathered[r] ELSE {})]

(* Mutations: one row more than the limit; rows are numbered as they come,   *)
(* not keyed by their index.                                                  *)
NextRow_OffByOne ==
  /\ Running /\ rows <= MaxRows[query]
  /\ \E i \in Ahead :
       /\ \A j \in Ahead \ {i} : Precedes(i, j)
       /\ cursor' = i /\ rows' = rows + 1
       /\ gathered' = IF i \in Unparsed \/ mib[Column][i] = None
                      THEN gathered ELSE Gather(i, mib[Column][i])
  /\ UNCHANGED <<query, mib, past, collected, outcome, entries>>

NextRow_Positional ==
  /\ Running /\ rows < MaxRows[query]
  /\ \E i \in Ahead :
       /\ \A j \in Ahead \ {i} : Precedes(i, j)
       /\ cursor' = i /\ rows' = rows + 1
       /\ gathered' = IF i \in Unparsed \/ mib[Column][i] = None
                      THEN gathered ELSE Gather(<<rows, i[2]>>, mib[Column][i])
  /\ UNCHANGED <<query, mib, past, collected, outcome, entries>>

(* One response of walk_cmd: the first instance after the cursor, in the     *)
(* table as it is now.  What does not resolve or parse is skipped.            *)
NextRow ==
  /\ Running /\ rows < MaxRows[query]
  /\ \E i \in Ahead :
       /\ \A j \in Ahead \ {i} : Precedes(i, j)
       /\ cursor' = i /\ rows' = rows + 1
       /\ gathered' = IF i \in Unparsed \/ mib[Column][i] = None
                      THEN gathered ELSE Gather(i, mib[Column][i])
  /\ UNCHANGED <<query, mib, past, collected, outcome, entries>>

(* The walk of a column is over with these values; the last one is joined.   *)
EndColumn(values) ==
  /\ collected' = Append(collected, values)
  /\ cursor' = Start /\ rows' = 0 /\ gathered' = Nothing
  /\ IF Len(collected') = Len(Columns(query))
     THEN outcome' = "responded" /\ entries' = Join(collected')
     ELSE UNCHANGED <<outcome, entries>>

ColumnEnds ==
  /\ Running /\ (rows = MaxRows[query] \/ Ahead = {})
  /\ EndColumn(gathered)
  /\ UNCHANGED <<query, mib, past>>

(* Mutations: what a best-effort column has given so far is kept; a          *)
(* required column is walked again.                                          *)
WalkFails_KeepsPart ==
  /\ Running
  /\ IF Len(collected) < Required(query)
     THEN outcome' = "timeout" /\ UNCHANGED <<cursor, rows, gathered, collected, entries>>
     ELSE EndColumn(gathered)
  /\ UNCHANGED <<query, mib, past>>

WalkFails_Retries ==
  /\ Running
  /\ IF Len(collected) < Required(query)
     THEN /\ cursor' = Start /\ rows' = 0 /\ gathered' = Nothing
          /\ UNCHANGED <<collected, outcome, entries>>
     ELSE EndColumn(Nothing)
  /\ UNCHANGED <<query, mib, past>>

(* No answer within timeout and retries, or an error in the response: the    *)
(* end of the query in a required column, no values in another.              *)
WalkFails ==
  /\ Running
  /\ IF Len(collected) < Required(query)
     THEN outcome' = "timeout" /\ UNCHANGED <<cursor, rows, gathered, collected, entries>>
     ELSE EndColumn(Nothing)
  /\ UNCHANGED <<query, mib, past>>

(* Anything raised is caught around the whole query. *)
Raises ==
  /\ Running /\ outcome' = "malformed response"
  /\ UNCHANGED <<query, mib, past, cursor, rows, gathered, collected, entries>>

(* The device learns, forgets or moves an entry. *)
TableChanges ==
  /\ Running /\ mib' \in Tables[query] \ {mib}
  /\ past' = past \cup {mib'}
  /\ UNCHANGED <<query, cursor, rows, gathered, collected, outcome, entries>>

Walks == NextRow \/ ColumnEnds \/ WalkFails \/ Raises
Ended == ~Running /\ UNCHANGED vars

Next == Walks \/ TableChanges \/ Ended

Spec == Init /\ [][Next]_vars

(* Every request is answered or times out. *)
FairSpec == Spec /\ WF_vars(Walks)

-----------------------------------------------------------------------------
(* Properties *)

(* The types, the row limit, and results only in a query that responded.     *)
TypeOK ==
  /\ query \in Queries /\ mib \in past /\ past \subseteq Tables[query]
  /\ rows \in 0..MaxRows[query] /\ Cardinality(DOMAIN gathered) <= rows
  /\ cursor \in Index \cup {Start}
  /\ outcome \in {"running", "responded", "timeout", "malformed response"}
  /\ Len(collected) \in 0..Len(Columns(query))
  /\ outcome = "running" => Len(collected) < Len(Columns(query))
  /\ outcome = "responded" => Len(collected) = Len(Columns(query))
  /\ outcome # "responded" => entries = {}

Cell(table, k) == table[Columns(query)[k]]

(* Whatever the device does to its table between two requests, a reported    *)
(* entry has in every field a value that the very row had in that column at  *)
(* some time during the query: the join never mixes rows, and no row that    *)
(* was not there is reported (snmp_client.py:182, "this client only reports  *)
(* what the device said").                                                   *)
EntriesWereHeld ==
  \A e \in entries : \A k \in 1..Len(Columns(query)) :
    LET value == e.fields[k]
    IN  IF Columns(query)[k] = "ManAddr"
        THEN \A a \in value : \E t \in past : <<e.row, a>> \in DOMAIN Cell(t, k)
        ELSE \/ k > Required(query) /\ value = None
             \/ \E t \in past : /\ <<e.row, 0>> \in DOMAIN Cell(t, k)
                               /\ Cell(t, k)[<<e.row, 0>>] = value

(* What one column of a table would give if it were read at once.            *)
Readable(table, k) ==
  {i \in DOMAIN Cell(table, k) : i \notin Unparsed /\ Cell(table, k)[i] # None}

Reading(table) ==
  [k \in 1..Len(Columns(query)) |->
     [r \in {i[1] : i \in Readable(table, k)} |->
        IF Columns(query)[k] = "ManAddr"
        THEN {i[2] : i \in {j \in Readable(table, k) : j[1] = r}}
        ELSE Cell(table, k)[<<r, 0>>]]]

Steady(r) ==
  \A t \in past : \A k \in 1..Len(Columns(query)) :
    \A i \in DOMAIN Cell(t, k) \cup DOMAIN Cell(mib, k) :
      i[1] = r => /\ i \in DOMAIN Cell(t, k) /\ i \in DOMAIN Cell(mib, k)
                  /\ Cell(t, k)[i] = Cell(mib, k)[i]

WithinLimit(r) ==
  \A k \in 1..Len(Columns(query)) :
    Cardinality({i \in UNION {DOMAIN Cell(t, k) : t \in past} : i[1] <= r}) <= MaxRows[query]

(* A row that stays as it is during a query, within the row limit, is        *)
(* reported exactly if the query responds, however the rows around it come   *)
(* and go; only a best-effort column that failed is missing, and then for    *)
(* every row (ARCH-023 section 7).                                           *)
SteadyRowsReported ==
  outcome = "responded" =>
    \A r \in JoinedRows(Reading(mib)) : Steady(r) /\ WithinLimit(r) =>
      \E e \in entries :
        /\ e.row = r
        /\ \A k \in 1..Len(Columns(query)) :
             \/ e.fields[k] = Field(Reading(mib), k, r)
             \/ /\ k > Required(query)
                /\ \A f \in entries : f.fields[k] = Absent(Columns(query)[k])

(* A query ends, also over a table that never stops changing: the index      *)
(* only grows, and the row limit bounds each column (snmp_client.py:37).     *)
QueryEnds == <>~Running
=============================================================================
