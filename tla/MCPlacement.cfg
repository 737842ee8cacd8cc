SPECIFICATION SpecA
CONSTANTS
  Fleets <- MCFleets
  Requests <- MCRequests
  Scorers = {"default", "first-feasible"}
  None = None
  MaxCount = 6
  Ask <- Counts
  Capacity <- NodeCapacity
  Satisfies <- SectionSatisfied
  Within <- Vertices
INVARIANTS
  SameAskOfBothMatchers
  AnyOfMeansOne
  RepackFits
  RepackComplete
  CoresPreserved
  BestFit
  StubContract
  ViewLoads
  DevicesClaimed
  VocabularyIsMatched
  RequiredIsReal
