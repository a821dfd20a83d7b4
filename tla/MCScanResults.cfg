SPECIFICATION ResultsSpec
CONSTANTS
  Token = {t1, t2}
  Recovery = {}
  Thread = {u1}
  NoToken = NoToken
  NoThread = NoThread
  Finding = {f1, f2}
  Modes = {"app", "sdk", "deep"}
  NoSources = NoSources
  NoFindings = NoFindings
  NoDigest = NoDigest
  MaxFaults = 1
SYMMETRY Symmetric
INVARIANTS ResultsTypeOK ThreadHoldsTheClaim CompletedIsTheLastDraft StoppedKeepsDraft
PROPERTIES DeliveredIsFinal PublicationOnlyGrows
CHECK_DEADLOCK FALSE
