---------------------------- MODULE ScanContract ----------------------------
(***************************************************************************)
(* What the engine may rely on when it calls a discovery provider: the     *)
(* call returns devices of the subnet together with the observations of    *)
(* exactly those devices, or it raises and leaves nothing.  The engine's   *)
(* Discover action is this step, projected to what the engine looks at.    *)
(***************************************************************************)
EXTENDS HostScan

CONSTANT Subnet  \* the addresses the provider scans

VARIABLES outcome,  \* "running", "returned" or "raised"
          found,    \* the devices returned: address -> host report
          claims,   \* the observations of host discovery
          details   \* the observations that go beyond host discovery

contractVars == <<outcome, found, claims, details>>

ScanRun == <<"nmap", 0>>   \* the uuid of this call

ContractInit ==
  /\ outcome = "running"
  /\ found = [ip \in {} |-> None] /\ claims = {} /\ details = {}

Returns ==
  /\ outcome = "running" /\ outcome' = "returned"
  /\ \E up \in SUBSET Subnet : found' \in [up -> HostReports]
  /\ claims' = ScanObservations(found', ScanRun)
  /\ \A o \in details' : /\ o.type = "identity" /\ o.run = ScanRun
                         /\ o.subject \in DOMAIN found'
                         /\ o.property \in {"computer_name", "domain"}

Raises ==
  /\ outcome = "running" /\ outcome' = "raised"
  /\ UNCHANGED <<found, claims, details>>

ContractSpec == ContractInit /\ [][Returns \/ Raises]_contractVars
=============================================================================
