CONSTANTS
  smith = smith
  brown = brown
  Names = {smith, brown}
  Unnamed = unnamed
  Rosters <- Shrunk
  MaxReplicas = 2
  Full = 1
  Watchers = {w1, w2}
  None = none
  MaxAgent = 2
  MaxPod <- Twice
  Budget = 1
  Disturbances = {"evictPod", "restartContainer", "damage", "podEvent", "postFails", "postIgnored", "getFails", "updateFails", "restart", "deleteAgent", "editAgent", "editV1alpha1"}
SPECIFICATION Spec
SYMMETRY Symmetry
INVARIANTS
  TypeOK
  OneWatcherPerPod
  AliveCountsStatus
  TickersRun
PROPERTIES
  ReportsKept
  Vigilant
CHECK_DEADLOCK FALSE
