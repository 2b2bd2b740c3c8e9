SPECIFICATION Spec
CONSTANTS
  Edge <- MCEdge
  Task <- MCTask
  Input <- MCInput
  Initial = "b"
  Received = {"a"}
  Trace <- MCTrace
  Factor <- MCFactor
  Deviation <- MCDeviation
  Radii <- MCRadii
  DisableRedundant = FALSE
  CAL_CHANCES = 2
  SKIP_ITEMS = 3
  MaxAlloc = 4
  MaxFailed = 1
  MaxLevel = 1
INVARIANTS
  TypeOK
  ReferencesAreCounted
  NothingDangles
  DirectoryFollowsTheQueue
  PendingCountsHold
  FavoredFollowTheChampions
  EveryEdgeHasAChampion
