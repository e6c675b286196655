SPECIFICATION Spec
CONSTANTS
  a = a  b = b  m1 = m1  n1 = n1  n2 = n2  None = None
  Ip <- MCIp
  Mac = {m1}
  Name = {n1, n2}
  Subnet <- MCIp
  HostReports <- MCReports
  Profiles = {"fast", "standard", "deep"}
  HostData <- MCHostData
  CategoryCardinality <- MCPolicy
INVARIANTS TypeOK FactsAreEvidence MergeHidesNoConflict DiagnosticsMatchDevices
PROPERTIES EnrichmentOnlyAdds ImplementsScanContract
