SPECIFICATION RemSpec
CONSTANTS
  Request = {r1, r2}
  Token = {t1, t2}
  Caller = {c1, c2}
  Edit = {e0}
  NoToken = NoToken
  NoContent = NoContent
  MaxVersion = 7
  MaxCreated = 2
SYMMETRY Symmetric
CONSTRAINT Overlap
INVARIANTS RemTypeOK OneLiveAttempt FixIsTheReviewedPatch ClosedIsQuiet
  CompareAndSwapIsSound
CHECK_DEADLOCK FALSE
