SPECIFICATION Spec
CONSTANTS
  r1 = r1  r2 = r2  r3 = r3
  None = None
  Runs <- MCRuns
  ScanProfile <- MCProfile
  DeviceCount <- MCDeviceCount
  MaxClock = 2
  Schedules = {TRUE}
  DistinctSeconds = TRUE
  Ip <- MCIp
  Mac <- MCMac
  Name <- MCName
  CategoryCardinality <- MCPolicy
  Rank <- MCRank
  NonAscii <- MCNonAscii
  Observed <- MCObserved
INVARIANT ReplayNeverRaises
