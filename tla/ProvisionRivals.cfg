CONSTANTS
  first = first
  second = second
  Numbered = {}
  AgentNames = {}
  Roster <- NoRoster
  ServiceOf <- NoServices
  Programs = {first, second}
  Kind <- Architects
  NameOf <- TwoNames
  NamespaceOf <- Matrix
  Specs = {unset}
  Unset = unset
  NoOne = nobody
  MaxProgram = 1
  Budget = 1
  Disturbances = {"delete", "callFails", "replyLost", "restart"}
SPECIFICATION Spec
INVARIANTS
  TypeOK
  BoundBeforeDeployed
PROPERTIES
  InCustody
CHECK_DEADLOCK FALSE
