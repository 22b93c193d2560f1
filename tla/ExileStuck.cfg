CONSTANTS
  Twins = {t1, t2}
  Merovingians = {merovingian}
  ProgramName = merovingian
  NoOne = nobody
  MaxTwins = 1
  MaxMerovingian = 1
  MaxDeployment = 1
  Budget = 0
  Disturbances = {}
SPECIFICATION FairSpec
PROPERTIES
  DeletionCompletes
CHECK_DEADLOCK FALSE
