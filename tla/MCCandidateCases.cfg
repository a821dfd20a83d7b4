SPECIFICATION Spec
CONSTANTS
  d1 = d1  d2 = d2  d3 = d3
  n = n  m = m
  A = A
  p = p  x = x  y = y
  Definition = {d1, d2, d3}
  Name = {n, m}
  Class = {A}
  Var = {p, x, y}
  NoVar = NoVar
  NoClass = NoClass
  NoName = NoName
  Kind = {"role_change", "configuration_write", "object_lookup"}
  Theme = {"identity", "other"}
  NameOf <- MCNameOf
  ClassOf <- MCClassOf
  Params <- MCParams
  HintsOf <- MCHintsOf
  Inside <- MCInside
  Program <- MCProgram
  Registrations <- MCRegistrations
  MaxDepth = 1
  MaxStates = 3
  MaxRounds = 1
INVARIANT EverySignalHasACase
CHECK_DEADLOCK FALSE
