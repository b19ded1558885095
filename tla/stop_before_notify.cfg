SPECIFICATION Spec
CONSTANTS
  a1 = a1
  a2 = a2
  r1 = r1
  Attempts <- OneAttempt
  Capacity = 1
  Verdicts <- Completed
  Ends <- AgentFailed
  UseEvals = TRUE
  Faults <- NoFaults
  Requests <- NoRequests
  MaxJobs = 1
  MaxStops = 1
  MaxRestarts = 0
INVARIANTS
  DroppedNotificationIsSafe
CHECK_DEADLOCK FALSE
