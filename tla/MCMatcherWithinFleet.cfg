SPECIFICATION Spec
CONSTANTS
  Clusters = {"c1"}
  Containments <- MCContainments
  Names = {"software"}
  AuxGraphs <- MCAuxGraphs
  Specs <- MCSpecs
  MaxAllocs = 1
  Jobs = {"j1"}
  SpecOf <- MCSpecOf
  Offered <- MCOffered
  Configs <- MCConfigs
  Requests = {1, 2}
  MaxEdits = 3
  MaxCancels = 0
  EndStates = {"COMPLETED"}
  None = None
INVARIANTS
  MatcherWithinFleet
