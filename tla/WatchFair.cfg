CONSTANTS
  smith = smith
  brown = brown
  Names = {smith, brown}
  Unnamed = unnamed
  Rosters <- Two
  MaxReplicas = 2
  Full = 1
  Watchers = {w1, w2}
  None = none
  MaxAgent = 1
  MaxPod <- Twice
  Budget = 1
  Disturbances = {"podEvent", "damage", "editV1alpha1", "restartContainer", "postFails", "getFails", "updateFails", "restart", "evictPod"}
SPECIFICATION FairSpec
PROPERTIES
  WorkerReturns
  HealthReported
CHECK_DEADLOCK FALSE
