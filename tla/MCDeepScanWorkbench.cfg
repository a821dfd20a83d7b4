\* Three discovery results, two reducers, an unclaimed run and two adoptions.
SPECIFICATION Spec
CONSTANTS
  Discovery = {d1, d2, d3}
  Reducer = {r1, r2}
  MaxDiscoveryRuns = 2
  StopAfterNoNew = 2
  PartialCoverage = FALSE
  MaxGeneration = 3
SYMMETRY Symmetric
INVARIANTS
  TypeOK
  MergedExactlyOnce
  OneActiveReducer
  ActiveClaimIsWhole
  StreakIsExact
  DispatchAccounting
  ActiveRowsAreCurrent
  SucceededRunIsComplete
  ParentAgrees
  IInv
PROPERTIES
  NoStrandedByRecovery
  TerminalIsStable
  ImplementsLedger
