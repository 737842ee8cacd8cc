SPECIFICATION Spec
CONSTANTS
  j1 = j1
  j2 = j2
  big = big
  emu = emu
  Jobs = {j1, j2}
  Clusters = {"c1", "c2"}
  Feasible <- MCFeasible
  Dispatchable = {"c1", "c2"}
  Room <- MCRoom
  HeadOfLineBlock = FALSE
  TextOrder = FALSE
  Clock <- MCClock
  Outcomes = {"success", "wrongTarget"}
  EndStates = {"COMPLETED", "FAILED"}
  MaxSubmits = 2
  MaxReschedules = 1
  RepairMaxAttempts = 2
  StageMaxAttempts = 2
  Faults = {}
  MaxCancels = 1
  Slots = {1, 2, 3}
  None = None
INVARIANTS
  CancelFinal
