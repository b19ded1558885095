SPECIFICATION Spec
CONSTANTS
  a1 = a1
  a2 = a2
  r1 = r1
  Attempts <- OneAttempt
  Capacity = 1
  Verdicts <- AllVerdicts
  Ends <- EndWithoutScore
  UseEvals = TRUE
  Faults <- CaughtFaults
  Requests <- OneRequest
  MaxJobs = 3
  MaxStops = 0
  MaxRestarts = 1
SYMMETRY Symmetry
INVARIANTS
  RevisionsIncrease
  ScoreBacked
  DisplayAgreesWithLeader
PROPERTIES
  ExecutionVerdictKept
CHECK_DEADLOCK FALSE
