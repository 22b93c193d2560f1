CONSTANTS
  Twins = {t1}
  Merovingians = {merovingian}
  ProgramName = merovingian
  NoOne = nobody
  MaxTwins = 1
  MaxMerovingian = 1
  MaxDeployment = 1
  Budget = 2
  Disturbances = {"deploymentStatus"}
SPECIFICATION FairSpec
PROPERTIES
  DeletionCompletes
CHECK_DEADLOCK FALSE
