CONSTANTS
  first = first
  second = second
  Programs = {first, second}
  Kind <- TwoAgents
  NameOf <- TwoNames
  NamespaceOf <- Matrix
  Specs = {unset, three}
  Unset = unset
  Numbered = {}
  AgentNames = {"Smith", "SMITH", "Jones"}
  Roster <- Rosters
  ServiceOf <- LowerCased
  NoOne = nobody
  MaxProgram = 1
  Budget = 1
  Disturbances = {"edit", "delete", "callFails"}
SPECIFICATION FairSpec
PROPERTIES
  Provisioned
CHECK_DEADLOCK FALSE
