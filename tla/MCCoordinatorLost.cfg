\* An accepted result whose replies are lost is forgotten.
SPECIFICATION SystemSpec
CONSTANTS
  Discovery = {1, 2, 3, 4}
  Reducer = {11, 12, 13}
  MaxDiscoveryRuns = 2
  StopAfterNoNew = 2
  PartialCoverage = FALSE
  MaxGeneration = 2
  PoolSize = 2
  ErrorLimit = 2
  MaxFaults = 1
INVARIANTS
  AcceptedIsKnown
CHECK_DEADLOCK FALSE
