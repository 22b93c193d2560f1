CONSTANTS
  smith = smith
  brown = brown
  Names = {smith, brown}
  Unnamed = unnamed
  Rosters <- Shrunk
  MaxReplicas = 2
  Full = 1
  Watchers = {w1, w2}
  None = none
  MaxAgent = 1
  MaxPod <- Once
  Budget = 1
  Disturbances = {"editAgent"}
SPECIFICATION FairSpec
PROPERTIES
  HealthReported
CHECK_DEADLOCK FALSE
