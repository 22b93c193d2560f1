CONSTANTS
  Twins = {t1}
  Merovingians = {merovingian, other}
  ProgramName = merovingian
  NoOne = nobody
  MaxTwins = 2
  MaxMerovingian = 1
  MaxDeployment = 2
  Budget = 2
  Disturbances = {"callFails", "replyLost", "restart", "editTwins",
                  "deploymentStatus", "deleteMerovingian"}
SPECIFICATION Spec
INVARIANTS
  NoLiveExile
  OwnerHasFinalizer
  StatusBacked
PROPERTIES
  ReleasedOnlyIfExiled
  Departs
CHECK_DEADLOCK FALSE
