\* The commit of a reducer is killed, replayed and killed again.
SPECIFICATION Spec
CONSTANTS
  Reducer = {1, 2}
  Content = {a, b, c}
  NoFile = NoFile
  Name = {1, 2, 3, 4, 5, 6, 7}
  KillsPerCommit = 2
  Rewrites = TRUE
SYMMETRY Symmetric
PROPERTIES
  AdoptionRestores
CHECK_DEADLOCK FALSE
