SPECIFICATION Spec
CONSTANTS
  Planner = {"p1"}
  Planned = {1, 2}
  MaxUnits = 2
  MaxRows = 3
  MaxItems = 3
  Role = {"translation", "timing"}
  Tag = {"g1", "g2"}
  User = {"u1"}
  Limit = {"NoLimit"}
  TagSet <- TagSets
  NoLimit = "NoLimit"
  NoEntry = NoEntry
  Created = {"copied", "bare"}
  TaskRole = {"translation", "supervisor"}
  Ext = {"ass", "mkv", "xml"}
  DefaultList = {"ass", "mkv"}
  Mime = {"text"}
  FileType = {"subtitle", "video"}
  OfMime <- TextFiles
  OfType <- FilesOf
  RoleTypes <- TypesOfRoles
  Bytes = {1, 2}
  Content <- Contents
  Policy <- Policies
  Default <- DefaultPolicy
  NoPolicy = NoPolicy
  NoRule = NoRule
  Sender = {"s1"}
  Uploader <- Uploaders
  Task = {1, 2, 3}
  RoleOf <- PageRoles
  OrderOf <- PageOrders
  UnitOf <- PageUnits
  WorkflowRoles <- PageWorkflow
  Version = {1}
  MaxAsked = 1
  MaxCalls = 2
  TextLine = {"a", "b"}
  MaxLines = 5
  MaxCells = 16
  Context = 1
INVARIANTS
  PoliciesAgree
  CandidatesMayClaim
  ResultsFollowSelection
  DiffTellsTheChange
PROPERTY
  UnforcedKeepsWork
CHECK_DEADLOCK FALSE
