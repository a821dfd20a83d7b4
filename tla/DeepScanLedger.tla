--------------------------- MODULE DeepScanLedger ---------------------------
(***************************************************************************)
(* The workbench's rows implement DiscoveryLedger.  The abstract ledger    *)
(* has no counters: the budget it charges is counted from the rows, so the *)
(* mapping holds only as long as discovery_runs_dispatched is right.       *)
(***************************************************************************)
EXTENDS DeepScanWorkbench

StageOf(d) ==
  IF status[d] = "none" THEN "absent"
  ELSE IF Active(d) THEN "pending"
  ELSE IF status[d] # "succeeded" THEN "lost"
  ELSE IF merge[d] = "merged" THEN "reduced" ELSE "accepted"

OutcomeOf ==
  IF run = "running" THEN "open"
  ELSE IF run = "succeeded" THEN reason ELSE "stopped"

Ledger == INSTANCE DiscoveryLedger WITH
  Result   <- Discovery,
  Budget   <- MaxDiscoveryRuns,
  Enough   <- StopAfterNoNew,
  MayOmit  <- PartialCoverage,
  stage    <- [d \in Discovery |-> StageOf(d)],
  returned <- refunded,
  outcome  <- OutcomeOf

\* Whatever commands arrive, in whatever order and from whichever coordinator,
\* the rows change only as the abstract ledger allows: within the budget, each
\* result accepted and folded in at most once, nothing after the end.
ImplementsLedger == Ledger!Spec
=============================================================================
