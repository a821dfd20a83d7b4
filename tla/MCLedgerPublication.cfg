\* Three reducers, each of which changes the ledger.
SPECIFICATION Spec
CONSTANTS
  Reducer = {1, 2, 3}
  Content = {a, b, c}
  NoFile = NoFile
  Name = {n1, n2, n3, n4, n5, n6, n7}
  KillsPerCommit = 1
  Rewrites = TRUE
SYMMETRY Symmetric
INVARIANTS
  IInv
  CommittedLedgerKept
  FailedCommitLeavesNoTrace
  UncommittedIsActive
PROPERTIES
  AdoptionRestores
CHECK_DEADLOCK FALSE
