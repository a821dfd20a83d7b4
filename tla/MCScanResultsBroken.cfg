SPECIFICATION ResultsSpec
CONSTANTS
  Token = {t1}
  Recovery = {}
  Thread = {u1}
  NoToken = NoToken
  NoThread = NoThread
  Finding = {f1}
  Modes = {"app", "sdk", "deep"}
  NoSources = NoSources
  NoFindings = NoFindings
  NoDigest = NoDigest
  MaxFaults = 1
SYMMETRY Symmetric
INVARIANT StoppedIsPublishable
CHECK_DEADLOCK FALSE
