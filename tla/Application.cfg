SPECIFICATION Spec
CONSTANTS
  None = None
  Requests <- MCRequests
  Machines <- MCMachines
  Networks <- MCNetworks
  LocalNetwork <- MCLocal
  Canonical <- MCCanonical
  MaxClock = 3
INVARIANTS TypeOK RecordsSpanOnePass RecordsFitRuntime ScansWhatWasAsked
