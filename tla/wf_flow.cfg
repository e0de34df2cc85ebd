SPECIFICATION Spec
CONSTANTS
  first = first
  second = second
  third = third
  sup = sup
  ann = ann
  bob = bob
  NoUser = NoUser
  Task = {first, second, third}
  User = {sup, ann}
  Managers = {sup}
  Tagged = {ann}
  UnitOf <- OneUnit
  Pipeline <- ShortPipeline
  RolesOf <- StageRoles
  DepEdges <- Chain
  Dated = {}
  Ops = {"deleteTask", "override", "returnTask", "cancelTask", "rejectTask", "resetTask", "removeDependency"}
INVARIANTS
  PendingMeansWaiting
  AssigneesAreMembers
PROPERTIES
  StaleWorkIsReset
  CancelFreezesDownstream
