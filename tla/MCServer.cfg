SPECIFICATION Spec
CONSTANTS
  Subs = {s1}
  Clusters = {c1}
  AppName <- MCAppName
  Pods <- MCPods
  MaxPodFailures = 1
  MaxGone = 1
  IdSpace = 2
  Capacity = 1
  Rows = {1, 2}
  KindChoices <- MCKindChoices
  MaxCrashes = 2
  None = None
INVARIANTS
  TypeOK
  RunningIsWatched
  NoTwinObjects
  SuccessIsSeen
PROPERTIES
  WatchedEnds
CHECK_DEADLOCK FALSE
