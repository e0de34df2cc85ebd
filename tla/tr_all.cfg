SPECIFICATION Spec
CONSTANTS
  one = one
  two = two
  sup = sup
  ann = ann
  bob = bob
  NoUser = NoUser
  Task = {one}
  Rank <- RankOf
  User = {sup, ann}
  Managers = {sup}
  Tagged = {ann}
  Claim = {c1, c2, c3}
  Segments <- AllSegments
  Length = 3
  MaxLength = 2
  Ops = {"abandon", "start", "submitTranslation", "reject", "reset", "return", "removeMember", "assign"}
INVARIANTS
  SegmentsDisjoint
  
CHECK_DEADLOCK FALSE
