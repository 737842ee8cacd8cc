SPECIFICATION Spec
CONSTANTS
  Clusters = {"c1", "c2"}
  Names = {"software"}
  Graphs = {1}
  Requests = {1, 2}
  MaxWorkers = 3
  MaxContexts = 2
  MaxGrants = 2
  None = None
INVARIANTS
  HeldUntilFreed
