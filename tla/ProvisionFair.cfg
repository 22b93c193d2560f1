CONSTANTS
  first = first
  second = second
  Numbered = {blue1}
  AgentNames = {}
  Roster <- NoRoster
  ServiceOf <- NoServices
  Programs = {first}
  Kind <- OneOracle
  NameOf <- AsKind
  NamespaceOf <- Matrix
  Specs = {unset, red, blue, blue1}
  Unset = unset
  NoOne = nobody
  MaxProgram = 2
  Budget = 2
  Disturbances = {"edit", "delete", "unguarded", "callFails", "restart"}
SPECIFICATION FairSpec
PROPERTIES
  Provisioned
  OwnerKept
  InCustody
CHECK_DEADLOCK FALSE
