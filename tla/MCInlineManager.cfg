SPECIFICATION Spec
CONSTANTS
  Clusters = {"c1"}
  Containments <- MCContainments
  Names = {"software"}
  AuxGraphs <- MCAuxGraphs
  Specs <- MCSpecs
  MaxAllocs = 2
  Jobs = {"j1", "j2"}
  SpecOf <- MCSpecOf
  Offered <- MCOffered
  Configs <- MCConfigs
  Requests = {1}
  MaxEdits = 4
  MaxCancels = 1
  EndStates = {"COMPLETED"}
  None = None
INVARIANTS
  TypeOK
  NothingHalfWay
  AllocationsOwned
PROPERTIES
  ReleasedForItsJob
