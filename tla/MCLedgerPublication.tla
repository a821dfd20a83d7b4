------------------------ MODULE MCLedgerPublication ------------------------
(* LedgerPublication with interchangeable contents.                        *)
EXTENDS LedgerPublication, TLC

Symmetric == Permutations(Content)
=============================================================================
