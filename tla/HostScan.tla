------------------------------ MODULE HostScan ------------------------------
(***************************************************************************)
(* What Nmap's host discovery says of a live host, and the observations    *)
(* the provider retains of it.  The engine and the provider share these.   *)
(***************************************************************************)
EXTENDS Evidence

CONSTANT HostReports  \* what a scan can say of a live host

HostReport == [hostname : Name \cup {None}, mac : Mac \cup {None}]

ASSUME HostReportsAssumption == HostReports \subseteq HostReport

NmapSource == Source("nmap", "host-discovery")

ScanObservations(scan, run) ==
  {IdentityObservation(ip, "hostname", scan[ip].hostname, NmapSource, run) :
     ip \in {x \in DOMAIN scan : scan[x].hostname # None}}
  \cup
  {IdentityObservation(ip, "mac_address", scan[ip].mac, NmapSource, run) :
     ip \in {x \in DOMAIN scan : scan[x].mac # None}}
=============================================================================
