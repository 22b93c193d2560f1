CONSTANTS
  first = first
  second = second
  Numbered = {}
  AgentNames = {}
  Roster <- NoRoster
  ServiceOf <- NoServices
  Programs = {first, second}
  Kind <- Architects
  NameOf <- ZionMain
  NamespaceOf <- InLevels
  Specs = {unset}
  Unset = unset
  NoOne = nobody
  MaxProgram = 1
  Budget = 0
  Disturbances = {}
SPECIFICATION FairSpec
PROPERTIES
  BindingSettles
CHECK_DEADLOCK FALSE
