SPECIFICATION FairSpec
CONSTANTS
  a1 = a1
  a2 = a2
  r1 = r1
  Attempts <- TwoAttempts
  Capacity = 1
  Verdicts <- Completed
  Ends <- EndWithoutScore
  UseEvals = TRUE
  Faults <- CaughtFaults
  Requests <- NoRequests
  MaxJobs = 1
  MaxStops = 1
  MaxRestarts = 1
INVARIANTS
  TypeOK
  OutboxPerJob
  JobHasTask
PROPERTIES
  NoJudgeAfterStop
  NoJudgeAfterCommit
  StopIsFinal
  ExecutionVerdictKept
  ShownScoresReachLeader
CHECK_DEADLOCK FALSE
