------------------------ MODULE MCDeepScanWorkbench ------------------------
(* DeepScanWorkbench with interchangeable worker identities.               *)
EXTENDS DeepScanLedger, TLC

Symmetric == Permutations(Discovery) \cup Permutations(Reducer)
=============================================================================
