CONSTANTS
  Twins = {t1}
  Merovingians = {merovingian}
  ProgramName = merovingian
  NoOne = nobody
  MaxTwins = 1
  MaxMerovingian = 1
  MaxDeployment = 1
  Budget = 1
  Disturbances = {"editMerovingian"}
SPECIFICATION FairSpec
PROPERTIES
  CountCurrent
CHECK_DEADLOCK FALSE
