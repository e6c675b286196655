----------------------------- MODULE MCSnmpWalk -----------------------------
(***************************************************************************)
(* Small tables of each kind, and what they may change into: a row moves   *)
(* to another neighbour, a row goes and another comes before or after it,  *)
(* a table grows beyond the row limit.                                     *)
(***************************************************************************)
EXTENDS SnmpWalk, TLC

CONSTANTS m1, m2, blank

MCQueries == {"arp", "lldp", "fdb"}
MCMaxRows == [arp |-> 3, lldp |-> 3, fdb |-> 2]

(* A table from its rows: one value for each column, None where it has none. *)
Rows2(c, d, rows2) ==
  LET Of(n) == {r \in DOMAIN rows2 : rows2[r][n] # None}
  IN  c :> [i \in {<<r, 0>> : r \in Of(1)} |-> rows2[i[1]][1]]
      @@ d :> [i \in {<<r, 0>> : r \in Of(2)} |-> rows2[i[1]][2]]

Arp(rows2) == Rows2("PhysAddress", "Type", rows2)
Fdb(rows2) == Rows2("Port", "Status", rows2)

(* Row 9 of the address table is not IPv4. *)
ArpTables ==
  {Arp(1 :> <<m1, "dynamic">> @@ 2 :> <<m2, blank>> @@ 9 :> <<m1, "static">>),
   Arp(1 :> <<m1, "dynamic">> @@ 2 :> <<m1, "static">> @@ 3 :> <<m2, None>>),
   Arp(2 :> <<m2, blank>> @@ 3 :> <<m2, "static">>),
   Arp(0 :> <<m2, "static">> @@ 1 :> <<m1, "dynamic">> @@ 2 :> <<m2, blank>>
       @@ 3 :> <<m2, "dynamic">>)}

FdbTables ==
  {Fdb(1 :> <<1, "learned">> @@ 2 :> <<2, "self">>),
   Fdb(2 :> <<1, "learned">> @@ 3 :> <<2, None>>),
   Fdb(1 :> <<1, "learned">> @@ 2 :> <<2, "self">> @@ 3 :> <<1, "learned">>)}

Six    == [shape |-> "six octets", id |-> m1]
Other6 == [shape |-> "six octets", id |-> m2]
IPv4   == [shape |-> "IPv4", id |-> m1]
Short  == [shape |-> "IPv4 of wrong length", id |-> m2]
Text   == [shape |-> "text", id |-> m2]

Lldp(rows2, names, addresses) ==
  Rows2("ChassisIdSubtype", "ChassisId", rows2)
  @@ "SysName" :> [i \in {<<r, 0>> : r \in DOMAIN names} |-> names[i[1]]]
  @@ "ManAddr" :> [i \in addresses |-> "ifIndex"]

MCLldpDetails == <<"SysName">>

(* Address 6 of the management table is not IPv4. *)
LldpTables ==
  {Lldp(1 :> <<"macAddress", Six>> @@ 2 :> <<"networkAddress", IPv4>>,
        1 :> "sw1" @@ 2 :> blank, {<<1, 4>>, <<1, 6>>, <<2, 5>>}),
   Lldp(1 :> <<"macAddress", Other6>> @@ 2 :> <<"networkAddress", IPv4>>,
        2 :> blank, {<<1, 6>>, <<2, 4>>}),
   Lldp(1 :> <<"local", Text>> @@ 2 :> <<"networkAddress", Short>>,
        1 :> "sw2", {<<1, 4>>, <<1, 5>>}),
   Lldp(2 :> <<"networkAddress", IPv4>> @@ 3 :> <<"macAddress", Text>>,
        2 :> blank @@ 3 :> "sw1", {<<2, 5>>})}

MCTables == [arp |-> ArpTables, lldp |-> LldpTables, fdb |-> FdbTables]
MCUnparsed == {<<9, 0>>, <<1, 6>>}
=============================================================================
