SPECIFICATION Spec
CONSTANTS
  a1 = a1
  a2 = a2
  r1 = r1
  Attempts <- OneAttempt
  Capacity = 1
  Verdicts <- Completed
  Ends <- AgentFailed
  UseEvals = FALSE
  Faults <- OtherFault
  Requests <- NoRequests
  MaxJobs = 1
  MaxStops = 0
  MaxRestarts = 0
SYMMETRY Symmetry
INVARIANTS
  JobHasTask
CHECK_DEADLOCK FALSE
