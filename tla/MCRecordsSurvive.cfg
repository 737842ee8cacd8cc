SPECIFICATION Spec
CONSTANTS
  Subs = {s1, s2}
  Clusters = {c1}
  AppName <- MCAppName
  Pods <- MCPods
  MaxPodFailures = 1
  MaxGone = 1
  IdSpace = 3
  Capacity = 1
  Rows = {1, 2, 3}
  KindChoices <- MCKindChoices
  MaxCrashes = 1
  None = None
INVARIANTS
  RecordsSurvive
CHECK_DEADLOCK FALSE
