SPECIFICATION Spec
CONSTANTS
  first = first
  second = second
  third = third
  sup = sup
  ann = ann
  bob = bob
  NoUser = NoUser
  Task = {first, second}
  User = {sup}
  Managers = {sup}
  Tagged = {}
  UnitOf <- OneUnit
  Pipeline <- TwoStages
  RolesOf <- EitherRole
  DepEdges <- ChainAndSelf
  Dated = {second}
  Ops = {"updateContent", "updateRole", "updateAssignee", "deleteTask", "override", "returnTask", "cancelTask", "rejectTask", "resetTask", "updateTaskDeadline", "removeDependency", "archiveProject", "softDeleteProject", "addMember", "removeMember", "overdueJob"}
PROPERTIES
  ArchiveRoundTrip
CHECK_DEADLOCK FALSE
