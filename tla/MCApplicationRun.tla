-------------------------- MODULE MCApplicationRun --------------------------
(***************************************************************************)
(* Two networks, one of them written in two ways; values that are no       *)
(* network; every answer of the platform to a detection.                   *)
(***************************************************************************)
EXTENDS ApplicationRun

MCNetworks  == {"10.0.0.0/24", "10.0.1.0/24", "192.168.7.0/24"}
MCLocal     == "192.168.7.0/24"
MCCanonical == [value \in {"10.0.0.0/24", "10.0.0.7/24", "10.0.1.0/24", "::1/64"} |->
                  IF value = "::1/64" THEN None
                  ELSE IF value = "10.0.0.7/24" THEN "10.0.0.0/24" ELSE value]

Asks(profile, values, flags) ==
  [profile : {profile}, values : values, flags : {flags}, community : {TRUE}]

MCRequests ==
  Asks("fast", {<<"10.0.0.7/24", "10.0.1.0/24", "10.0.0.0/24">>, <<>>}, {"snmp", "arp", "lldp"})
    \cup Asks("standard", {<<"10.0.0.0/24", "10.0.1.0/24">>}, {"arp", "fdb"})
    \cup [profile : {"fast", "unknown"}, flags : {{}, {"snmp"}}, community : BOOLEAN,
          values : {<<"10.0.0.0/24">>, <<"10.0.0.0/24", "::1/64">>}]

MCMachines == Machine
=============================================================================
