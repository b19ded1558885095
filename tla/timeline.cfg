SPECIFICATION Spec
CONSTANTS
  Attempts = {1, 2}
  Scores = {1, 2}
  Prints = {p, q}
  p = p
  q = q
  Consumers = {c, d}
  c = c
  d = d
  MaxTurns = 1
SYMMETRY Calls
INVARIANTS
  TypeOK
  FinalIsFinal
PROPERTIES
  KeepsPromise
CHECK_DEADLOCK FALSE
