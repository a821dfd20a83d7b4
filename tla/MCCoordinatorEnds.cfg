\* Every run ends, whatever is disrupted and whichever write is lost.
SPECIFICATION FairSystemSpec
CONSTANTS
  Discovery = {1, 2, 3, 4}
  Reducer = {11, 12, 13, 14}
  MaxDiscoveryRuns = 2
  StopAfterNoNew = 1
  PartialCoverage = FALSE
  MaxGeneration = 3
  PoolSize = 1
  ErrorLimit = 2
  MaxFaults = 1
INVARIANTS
  PoolBounded
PROPERTIES
  RunEnds
  CancelTakesEffect
CHECK_DEADLOCK FALSE
