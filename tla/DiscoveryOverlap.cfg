SPECIFICATION Spec
CONSTANTS
  a = a  b = b  c = c  m1 = m1  m2 = m2  n1 = n1  n2 = n2
  None = None
  Ip <- MCIp  Mac <- MCMac  Name <- MCName
  Subnets <- OverlapSubnets
  HostReports <- OverlapReports
  SystemGroups <- OverlapSystems
  ArpTables <- OverlapArp
  LldpTables <- NeighbourLldp
  FdbTables <- NeighbourFdb
  CategoryCardinality <- OverlapPolicy
  EnrichmentOrder <- OverlapOrder
INVARIANTS TypeOK OverlapNeverConfirms ClassifiedOnFinalEvidence
PROPERTIES FirstReportWins ConflictNeverHidden
