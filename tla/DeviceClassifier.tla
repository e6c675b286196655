-------------------------- MODULE DeviceClassifier --------------------------
(***************************************************************************)
(* DeviceClassifier: fourteen rules in a fixed order, the first that       *)
(* matches gives the device its type.  The rules look for keywords in      *)
(* free text.  A text is modelled by the set of keyword classes found in   *)
(* it, a class being a list the rules treat alike ("voice vendor" is       *)
(* "yealink", "polycom", ...); an absent text is the empty set, and a text  *)
(* that a rule compares as a whole has a class of its own ("is sonicwall").*)
(*                                                                         *)
(*   device:  hostname, vendor, os, descr (SNMP sysDescr), services        *)
(*   service: signals, the classes of its port number and service name;    *)
(*            product; title, its HTTP title; identity, its TLS subject,   *)
(*            TLS issuer and HTTP realm together                           *)
(*                                                                         *)
(* What only words the explanation of a verdict is left out.               *)
(***************************************************************************)
EXTENDS Integers, Sequences

Text     == SUBSET STRING
Service  == [signals : Text, product : Text, title : Text, identity : Text]
Evidence == [hostname : Text, vendor : Text, os : Text, descr : Text,
             services : SUBSET Service]

(* first_matching_port / first_matching_service: one entry's port or name   *)
(* is of the class.                                                         *)
Signals(d, class) == \E e \in d.services : class \in e.signals

(* first_matching_identifier: product, title, certificate and realm of every *)
(* entry, then the SNMP description.                                         *)
Identified(d, class) ==
  \/ \E e \in d.services : class \in e.product \cup e.title \cup e.identity
  \/ class \in d.descr

-----------------------------------------------------------------------------
(* The rules *)

ServerHostname(d)    == "server name" \in d.hostname
NetworkAppliance(d)  == Identified(d, "readynas")
HypervisorHostname(d) == "hypervisor name" \in d.hostname

UbiquitiAccessPoint(d) ==
  /\ "is ubiquiti" \in d.vendor
  /\ \/ "access point name" \in d.hostname
     \/ \E e \in d.services : "guest portal" \in e.title

EdgeRouter(d) == Identified(d, "edgeos")

SonicWallFirewall(d) ==
  \/ "is sonicwall" \in d.vendor
  \/ Identified(d, "sonicwall")
  \/ "sonicwall name" \in d.hostname /\ Signals(d, "web management")

PfSenseFirewall(d) == Identified(d, "pfsense")

VoiceVendor(d) ==
  \/ "voice vendor" \in d.vendor
  \/ "voice name" \in d.hostname /\ Signals(d, "sip")

SwitchVendor(d) ==
  \/ "cisco" \in d.vendor /\ "meraki" \notin d.vendor
  \/ Identified(d, "switch model")
  \/ "switch name" \in d.hostname /\ Signals(d, "device management")

CameraVendor(d) ==
  "axis communications" \in d.vendor /\ Identified(d, "camera product")

WindowsServer(d) == "windows server" \in d.os \/ "is server 2022 build" \in d.os

(* A title that only reports a redirect is nmap's text, not the device's. *)
WithoutRedirectNotices(d) ==
  [d EXCEPT !.services =
     {[e EXCEPT !.title = IF "redirect notice" \in e.title THEN {} ELSE e.title]
        : e \in d.services}]

(* An entry that names a Microsoft product is a Windows print spooler. *)
PrinterNetworking(d) ==
  \E e \in d.services : "printing" \in e.signals /\ "microsoft" \notin e.product

PrinterVendor(d) ==
  \/ "printer vendor" \in d.vendor
  \/ Identified(WithoutRedirectNotices(d), "printer vendor")
  \/ PrinterNetworking(d)

DellWorkstation(d)    == "dell" \in d.vendor \/ "dell model name" \in d.hostname
WindowsWorkstation(d) == "client edition" \in d.os

Matches(rule, d) ==
  \/ rule = "ServerHostname" /\ ServerHostname(d)
  \/ rule = "NetworkAppliance" /\ NetworkAppliance(d)
  \/ rule = "HypervisorHostname" /\ HypervisorHostname(d)
  \/ rule = "UbiquitiAccessPoint" /\ UbiquitiAccessPoint(d)
  \/ rule = "EdgeRouter" /\ EdgeRouter(d)
  \/ rule = "SonicWallFirewall" /\ SonicWallFirewall(d)
  \/ rule = "PfSenseFirewall" /\ PfSenseFirewall(d)
  \/ rule = "VoiceVendor" /\ VoiceVendor(d)
  \/ rule = "SwitchVendor" /\ SwitchVendor(d)
  \/ rule = "CameraVendor" /\ CameraVendor(d)
  \/ rule = "WindowsServer" /\ WindowsServer(d)
  \/ rule = "PrinterVendor" /\ PrinterVendor(d)
  \/ rule = "DellWorkstation" /\ DellWorkstation(d)
  \/ rule = "WindowsWorkstation" /\ WindowsWorkstation(d)

(* suggested_device_type of each rule *)
Suggests ==
  [ServerHostname |-> "SERVER", NetworkAppliance |-> "SERVER",
   HypervisorHostname |-> "HYPERVISOR", UbiquitiAccessPoint |-> "ACCESS_POINT",
   EdgeRouter |-> "ROUTER", SonicWallFirewall |-> "FIREWALL",
   PfSenseFirewall |-> "FIREWALL", VoiceVendor |-> "PHONE",
   SwitchVendor |-> "SWITCH", CameraVendor |-> "CAMERA",
   WindowsServer |-> "SERVER", PrinterVendor |-> "PRINTER",
   DellWorkstation |-> "WORKSTATION", WindowsWorkstation |-> "WORKSTATION"]

-----------------------------------------------------------------------------
(* The pipeline *)

(* Mutation: the printer rule is asked before the switch and voice rules. *)
Rules_PrinterEarly ==
  <<"ServerHostname", "NetworkAppliance", "HypervisorHostname", "UbiquitiAccessPoint",
    "EdgeRouter", "SonicWallFirewall", "PfSenseFirewall", "PrinterVendor",
    "VoiceVendor", "SwitchVendor", "CameraVendor", "WindowsServer",
    "DellWorkstation", "WindowsWorkstation">>

Rules ==
  <<"ServerHostname", "NetworkAppliance", "HypervisorHostname", "UbiquitiAccessPoint",
    "EdgeRouter", "SonicWallFirewall", "PfSenseFirewall", "VoiceVendor",
    "SwitchVendor", "CameraVendor", "WindowsServer", "PrinterVendor",
    "DellWorkstation", "WindowsWorkstation">>

DeviceTypes == {Suggests[r] : r \in DOMAIN Suggests} \cup {"UNKNOWN"}

(* The places of the rules that match, and the first of them; one past the  *)
(* last rule when none does.                                                *)
Hits(d)     == {i \in 1..Len(Rules) : Matches(Rules[i], d)}
FirstHit(d) == IF Hits(d) = {} THEN Len(Rules) + 1
               ELSE CHOOSE i \in Hits(d) : \A j \in Hits(d) : i <= j

Classify(d) == IF Hits(d) = {} THEN "UNKNOWN" ELSE Suggests[Rules[FirstHit(d)]]

-----------------------------------------------------------------------------
(* Precedence: what the comments of the rules and of their order promise of *)
(* a verdict t on the evidence d, whatever else d holds.                     *)

(* device_classifier.py:61: a Windows host named as a hypervisor stays one. *)
HypervisorStays(d, t) ==
  /\ HypervisorHostname(d) /\ ~ServerHostname(d) /\ ~NetworkAppliance(d)
  => t = "HYPERVISOR"

(* device_classifier.py:68: Windows Server evidence is not lost to the      *)
(* vendor of the machine or to a print service it runs.                     *)
ServerNotLost(d, t) == WindowsServer(d) => t \notin {"PRINTER", "WORKSTATION", "UNKNOWN"}

(* device_classifier.py:28, switch_vendor_rule.py:83: a switch that names   *)
(* its model or a phone that names its vendor is not taken for a printer;   *)
(* a phone of a switch vendor stays a phone.                                *)
SwitchOrPhoneNotLost(d, t) ==
  /\ Identified(d, "switch model") \/ VoiceVendor(d) =>
       t \notin {"PRINTER", "CAMERA", "WORKSTATION", "UNKNOWN"}
  /\ VoiceVendor(d) => t # "SWITCH"

(* printer_vendor_rule.py:44 and :155: a printer has evidence other than    *)
(* redirect notices and Microsoft's print spooler.                          *)
PrinterEvidence(d, t) ==
  t = "PRINTER" =>
    \/ "printer vendor" \in d.vendor \cup d.descr
    \/ \E e \in d.services :
         \/ "printer vendor" \in e.product \cup e.identity
         \/ "printer vendor" \in e.title /\ "redirect notice" \notin e.title
         \/ "printing" \in e.signals /\ "microsoft" \notin e.product

(* camera_vendor_rule.py:17, switch_vendor_rule.py:83, edge_router_rule.py: *)
(* 20: the name of a manufacturer of many kinds is no verdict by itself.    *)
VendorAloneDecidesNothing(d, t) ==
  /\ d.vendor \in {{"axis communications"}, {"cisco", "meraki"}, {"is ubiquiti"}}
  /\ d.hostname = {} /\ d.os = {} /\ d.descr = {} /\ d.services = {}
  => t = "UNKNOWN"

KeepsPrecedence(d, t) ==
  /\ HypervisorStays(d, t)
  /\ ServerNotLost(d, t)
  /\ SwitchOrPhoneNotLost(d, t)
  /\ PrinterEvidence(d, t)
  /\ VendorAloneDecidesNothing(d, t)

-----------------------------------------------------------------------------
(* What SNMP adds to a device before it is classified (SnmpProvider._merge): *)
(* a hostname or a description, each only where there is none.  (A hostname  *)
(* that is there but holds no keyword is {} too: nothing is merged into it,  *)
(* which is the merge of {}.)                                                *)
SnmpMerged(d, hostname, descr) ==
  [d EXCEPT !.hostname = IF d.hostname = {} THEN hostname ELSE d.hostname,
            !.descr    = IF d.descr = {} THEN descr ELSE d.descr]
=============================================================================
