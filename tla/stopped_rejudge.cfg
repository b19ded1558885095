SPECIFICATION Spec
CONSTANTS
  a1 = a1
  a2 = a2
  r1 = r1
  Attempts <- OneAttempt
  Capacity = 1
  Verdicts <- Completed
  Ends <- AgentFailed
  UseEvals = TRUE
  Faults <- NoFaults
  Requests <- OneRequest
  MaxJobs = 2
  MaxStops = 1
  MaxRestarts = 0
SYMMETRY Symmetry
INVARIANTS
  RejudgeKeepsScore
CHECK_DEADLOCK FALSE
