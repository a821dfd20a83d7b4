----------------------- MODULE MCDeepScanCoordinator -----------------------
(* DeepScanCoordinator with numbered worker labels.                        *)
EXTENDS DeepScanCoordinator
=============================================================================
