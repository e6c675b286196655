--------------------------- MODULE MCNmapProvider ---------------------------
(***************************************************************************)
(* A subnet of two addresses.  The second scan may miss a host, answer     *)
(* with SMB and RDP evidence that agrees, disagrees or is partial, show    *)
(* closed ports only, or report another host name.                         *)
(***************************************************************************)
EXTENDS NmapProvider

CONSTANTS a, b, m1, n1, n2

MCIp == {a, b}
MCReports == {[hostname |-> None, mac |-> None], [hostname |-> n1, mac |-> m1]}
MCPolicy  == [k \in {} |-> "single"]

Smb(os, computer, domain, workgroup, signing) ==
  [operating_system |-> os, computer_name |-> computer, domainName |-> domain,
   workgroup |-> workgroup, smb_signing |-> signing]
Rdp(os, computer, domain) ==
  [operating_system |-> os, computer_name |-> computer, domain |-> domain]
Open(number, service, scripts) ==
  [number |-> number, open |-> TRUE, service |-> service, scripts |-> scripts]
Closed(number) == [number |-> number, open |-> FALSE, service |-> None, scripts |-> {}]

Silent == Smb(None, None, None, None, None)
NoRdp  == Rdp(None, None, None)

Seen(hostname, ports, smb, rdp) ==
  [report |-> [hostname |-> hostname, mac |-> None], ports |-> ports,
   smb |-> smb, rdp |-> rdp]

SmbPort == Open(445, "other", {})
RdpPort == Open(3389, "ssl", {"ssl-cert"})

MCHostData ==
  {Seen(None, {Closed(80)}, Silent, NoRdp),
   Seen(n2, {Open(80, "http", {"http-title"}), Open(443, "https", {})}, Silent, NoRdp),
   Seen(None, {SmbPort, RdpPort}, Smb(n1, n1, n2, n1, n1), Rdp(n2, n2, n2)),
   Seen(None, {SmbPort, RdpPort}, Smb(None, n1, None, n1, None), Rdp(n2, n1, n2)),
   Seen(n1, {RdpPort, Closed(445)}, Silent, Rdp(n1, None, n2)),
   Seen(None, {Open(445, None, {})}, Smb(None, None, None, None, n1), NoRdp)}
=============================================================================
