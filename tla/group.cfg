SPECIFICATION Spec
CONSTANTS
  CellCount = 2
  AgentCount = 2
  Workers = 1
  ExecEnds = {"scoring"}
  ScoreEnds = {"completed"}
  Faults = {"input", "create"}
  MaxStops = 1
  MaxSweeps = 1
  MaxRestarts = 1
INVARIANTS
  TypeOK
  ProvisioningHasWorker
  RunningCellHasOwner
  GroupShowsCells
PROPERTIES
  OnlySweepReopens
  KeepsPromise
  SlotReturns
CHECK_DEADLOCK FALSE
