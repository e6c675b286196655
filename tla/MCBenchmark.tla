---------------------------- MODULE MCBenchmark ----------------------------
(***************************************************************************)
(* Two datasets.  The first holds devices whose evidence fits two rules at *)
(* least, in several editions; the second is small and may be damaged.     *)
(***************************************************************************)
EXTENDS Benchmark

CONSTANTS h1, h2, h3

Entry(signals, product, title, identity) ==
  [signals |-> signals, product |-> product, title |-> title, identity |-> identity]
Host(hostname, vendor, os, services) ==
  [hostname |-> hostname, vendor |-> vendor, os |-> os, descr |-> {}, services |-> services]

(* A hypervisor on Windows Server; a phone and a switch of printer vendors; *)
(* an access point whose redirect names a printer vendor; a server and a    *)
(* desktop that spool print jobs; a Meraki switch; a printer.               *)
HyperV    == Host({"hypervisor name"}, {"dell"}, {"windows server"}, {})
Phone     == Host({}, {"voice vendor", "cisco", "printer vendor"}, {}, {})
ProCurve  == Host({}, {"printer vendor"}, {}, {Entry({"device management"}, {"switch model"}, {}, {})})
UniFi     == Host({}, {"is ubiquiti"}, {},
                    {Entry({"web management"}, {}, {"redirect notice", "printer vendor"}, {})})
Spooler   == Entry({"printing"}, {"microsoft"}, {}, {})
PrintHost == Host({}, {"dell"}, {"windows server"}, {Spooler})
Desktop   == Host({}, {}, {"client edition"}, {Spooler})
Meraki    == Host({"switch name"}, {"cisco", "meraki"}, {}, {Entry({"device management"}, {}, {}, {})})
LaserJet  == Host({}, {}, {}, {Entry({"printing"}, {"printer vendor"}, {}, {})})

Case(ip, evidence) == [ip |-> ip, evidence |-> evidence]
Good(cases, expected) == [state |-> "good", cases |-> cases, expected |-> expected]
Bad(state) == [state |-> state, cases |-> <<>>, expected |-> [ip \in {} |-> "UNKNOWN"]]

Field == {Good(<<Case(h1, x[1]), Case(h2, x[2]), Case(h3, HyperV)>>,
               [ip \in {h1, h2, h3} |-> IF ip = h3 THEN "HYPERVISOR" ELSE "SWITCH"]) :
            x \in {<<Phone, UniFi>>, <<ProCurve, Desktop>>, <<PrintHost, Meraki>>,
                  <<ProCurve, Meraki>>}}
Lab   == {Good(<<Case(h1, LaserJet), Case(h2, Phone)>>, [ip \in {h1} |-> "PRINTER"]),
          Bad("absent"), Bad("invalid"), Bad("incomplete")}

MCDatasets == <<"field", "lab">>
MCContents == [field |-> Field, lab |-> Lab]
MCOutputs  == <<"default", "other">>
=============================================================================
