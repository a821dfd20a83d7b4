--------------------------- MODULE MCScanResults ---------------------------
EXTENDS ScanResults, TLC
\* Tokens, threads and findings are only ever compared for equality.
Symmetric ==
  Permutations(Token) \cup Permutations(Thread) \cup Permutations(Finding)
=============================================================================
