---------------------------- MODULE DiscoveryLog ----------------------------
(***************************************************************************)
(* DiscoveryEngine implements EvidenceLog: it is open while providers      *)
(* discover, and the enrichment providers still to run are the waiting     *)
(* contributors.                                                           *)
(***************************************************************************)
EXTENDS DiscoveryEngine

Phase == IF stage = "discover" THEN "open"
         ELSE IF stage = "done" THEN "sealed"
         ELSE IF stage = "aborted" THEN "failed"
         ELSE "closed"

(* The turns of the enrichment providers that have not ended. *)
TurnsLeft == IF stage = "discover" THEN 1..Len(EnrichmentOrder)
             ELSE IF stage = "aborted" THEN {}
             ELSE turn..Len(EnrichmentOrder)

Waiting == {Run(EnrichmentOrder[i]) : i \in TurnsLeft}

Contributors == {Run(EnrichmentOrder[i]) : i \in 1..Len(EnrichmentOrder)}

Log == INSTANCE EvidenceLog WITH phase <- Phase, known <- Discovered,
                                 log <- observations, waiting <- Waiting

(* Every behaviour of the engine is one of EvidenceLog: evidence comes in    *)
(* whole batches, once per provider, and never widens what discovery found.  *)
ImplementsEvidenceLog == Log!LogSpec
=============================================================================
