SPECIFICATION Spec
CONSTANTS
  Clusters = {"c1", "c2"}
  Containments <- MCContainments
  Names = {"software"}
  AuxGraphs <- MCAuxGraphs
  Specs <- MCSpecs
  MaxAllocs = 3
INVARIANTS
  TypeOK
  NoDoubleBooking
  LedgerExact
  OneCandidatePerCluster
  FreeNowMeansRoom
PROPERTIES
  ImplementsReservations
