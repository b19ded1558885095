SPECIFICATION Spec
CONSTANTS
  Runs = {"s", "p"}
  Plan <- MCPlan
  Serial = {"s"}
  Legacy = {"s"}
  Capacity = 1
  MaxStops = 1
INVARIANTS
  TypeOK
PROPERTIES
  NoAgentAfterStop
  StopIsTheEnd
  EveryAttemptHasItsTurn
CHECK_DEADLOCK FALSE
