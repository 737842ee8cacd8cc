SPECIFICATION FairSpec
CONSTANTS
  j1 = j1
  j2 = j2
  big = big
  emu = emu
  Jobs = {j1, j2, big}
  Clusters = {"c1", "c2"}
  Feasible <- MCFeasible
  Dispatchable = {"c1", "c2"}
  Room <- MCRoom
  HeadOfLineBlock = FALSE
  TextOrder = TRUE
  Clock <- MCClock
  Outcomes = {"success", "repairable", "wrongTarget", "hardFail"}
  EndStates = {"COMPLETED", "FAILED"}
  MaxSubmits = 2
  MaxReschedules = 1
  RepairMaxAttempts = 2
  StageMaxAttempts = 2
  Faults = {}
  MaxCancels = 0
  Slots = {1, 2}
  None = None
INVARIANTS
  HeldByAStage
  RunsReserved
  OneAtATime
PROPERTIES
  JobsSettle
