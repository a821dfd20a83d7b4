\* What an adopter finds accepted it cannot always reduce.
SPECIFICATION SystemSpec
CONSTANTS
  Discovery = {1, 2, 3, 4}
  Reducer = {11, 12, 13}
  MaxDiscoveryRuns = 2
  StopAfterNoNew = 2
  PartialCoverage = FALSE
  MaxGeneration = 3
  PoolSize = 2
  ErrorLimit = 2
  MaxFaults = 0
INVARIANTS
  AcceptedIsUsable
CHECK_DEADLOCK FALSE
