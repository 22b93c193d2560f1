CONSTANTS
  Twins = {t1, t2}
  Merovingians = {merovingian}
  ProgramName = merovingian
  NoOne = nobody
  MaxTwins = 1
  MaxMerovingian = 1
  MaxDeployment = 2
  Budget = 2
  Disturbances = {"callFails", "replyLost", "restart", "editMerovingian",
                  "deploymentStatus", "deleteMerovingian"}
SPECIFICATION Spec
SYMMETRY Symmetry
INVARIANTS
  TypeOK
PROPERTIES
  ExilesStay
  LeftIsReported
  StrandedStays
CHECK_DEADLOCK FALSE
