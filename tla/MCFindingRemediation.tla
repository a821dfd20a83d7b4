------------------------ MODULE MCFindingRemediation ------------------------
EXTENDS FindingRemediation, TLC
\* Requests are ordered by insertion and tokens compared for equality only.
Symmetric ==
  Permutations(Request) \cup Permutations(Token) \cup Permutations(Caller)

\* Two commands at once while the rows are young, one at a time to the end.
TwoWhileYoung ==
  (\A c \in Caller : call[c] # NoCall) =>
    \A r, q \in Request : r # q => attempt[r].version + attempt[q].version <= 3

\* The checkout is edited between two reads of it only for a first attempt, and
\* a row that is recorded so is not followed further.
EditedOnce ==
  /\ \A c \in Caller :
       call[c].kind \in {"applying", "set"} /\ call[c].edited => created = 1
  /\ \A r \in Request : attempt[r].edited => attempt[r].version <= 4 /\ created = 1

\* One row goes to its end beside another that was hardly worked on.
OneToTheEnd ==
  \A r, q \in Request : r # q => attempt[r].version + attempt[q].version <= 9

Overlap == TwoWhileYoung /\ EditedOnce /\ OneToTheEnd
=============================================================================
