SPECIFICATION Spec
CONSTANTS
  Jobs = {j1, j2, big, emu}
  Clusters = {"c1", "e1"}
  Feasible <- MCFeasible
  Dispatchable = {"c1"}
  Room <- MCRoom
  HeadOfLineBlock = TRUE
  TextOrder = FALSE
  Clock <- MCClock
  Outcomes = {"success", "repairable", "wrongTarget", "transient"}
  EndStates = {"COMPLETED"}
  j1 = j1
  j2 = j2
  big = big
  emu = emu
  MaxSubmits = 2
  MaxReschedules = 1
  RepairMaxAttempts = 2
  StageMaxAttempts = 1
  Faults = {"status", "remoteCancel", "insert"}
  MaxCancels = 1
  Slots = {1, 2, 3}
  None = None
INVARIANTS
  TypeOK
  OwnAllocation
  AllocationsOwned
PROPERTIES
  NoOvertaking
SYMMETRY MCSymmetry
CHECK_DEADLOCK FALSE
