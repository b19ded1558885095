SPECIFICATION Spec
CONSTANTS
  Users = {"u1", "u2", "u3"}
  Due = {"u1", "u2"}
  Scopes = {"attempt", "judge"}
  Downgrades = {TRUE, FALSE}
  MaxTries = 1
  MaxUsed = 2
  MaxEnds = 2
  MaxRestarts = 1
INVARIANTS
  TypeOK
  OneKeyPerScope
  AuditableIsComplete
PROPERTIES
  KeyNotCut
  LedgerEnds
  PricedKeyIsDisabled
CHECK_DEADLOCK FALSE
