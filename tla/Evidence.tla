------------------------------ MODULE Evidence ------------------------------
(***************************************************************************)
(* The retained observations of a scan: what a provider claims about one   *)
(* subject (an identity observation) or about a pair of subjects (a        *)
(* relationship observation), with its provenance.  Subjects are IP        *)
(* addresses.  Timestamps and collection order are left out: the resolvers *)
(* use them to sort their output only.                                     *)
(***************************************************************************)
CONSTANTS Ip,      \* addresses a scan or a neighbour table can name
          Mac,     \* colon-hex MAC addresses
          Name,    \* host names, system names
          None     \* Python's None: the value was not reported

ASSUME NoneIsNoValue == None \notin Ip \cup Mac \cup Name

(***************************************************************************)
(* Provenance.  Independence is judged by (provider, collection_method);   *)
(* source_run tells two calls of one provider apart.                       *)
(***************************************************************************)
Source(provider, method) == [provider |-> provider, method |-> method]

IdentityObservation(subject, property, value, source, run) ==
  [type |-> "identity", subject |-> subject, property |-> property,
   value |-> value, source |-> source, run |-> run]

(***************************************************************************)
(* "via" is a history field: the MAC address a provider looked up in the   *)
(* MAC index to find the related subject, None when it looked up none.     *)
(***************************************************************************)
RelationshipObservation(subject, related, category, source, run, via) ==
  [type |-> "relationship", subject |-> subject, related |-> related,
   category |-> category, source |-> source, run |-> run, via |-> via]

IdentitiesIn(obs)      == {o \in obs : o.type = "identity"}
RelationshipsIn(obs)   == {o \in obs : o.type = "relationship"}
Subjects(obs)          == {o.subject : o \in IdentitiesIn(obs)}

(***************************************************************************)
(* build_mac_index(observations)[mac]: every subject some observation      *)
(* gives this MAC address.  A caller uses it only when it is one subject.  *)
(***************************************************************************)
MacSubjects(obs, mac) ==
  {o.subject : o \in {i \in IdentitiesIn(obs) :
                        i.property = "mac_address" /\ i.value = mac}}

Resolves(obs, mac, ip) == MacSubjects(obs, mac) = {ip}
=============================================================================
