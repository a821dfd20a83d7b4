\* Three discoveries, two at a time, and two coordinators one after the other.
SPECIFICATION SystemSpec
CONSTANTS
  Discovery = {1, 2, 3}
  Reducer = {11, 12, 13}
  MaxDiscoveryRuns = 3
  StopAfterNoNew = 2
  PartialCoverage = TRUE
  MaxGeneration = 3
  PoolSize = 2
  ErrorLimit = 2
  MaxFaults = 0
INVARIANTS
  CoordinatorTypeOK
  AcceptedIsKnown
  ClaimsAreAccepted
  FinishIsAccepted
CHECK_DEADLOCK FALSE
