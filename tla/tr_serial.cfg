SPECIFICATION Spec
CONSTANTS
  one = one
  two = two
  sup = sup
  ann = ann
  bob = bob
  NoUser = NoUser
  Task = {one, two}
  Rank <- RankOf
  User = {sup, ann}
  Managers = {sup}
  Tagged = {ann}
  Claim = {c1, c2}
  Segments <- Halves
  Length = 2
  MaxLength = 2
  Ops = {"abandon", "start", "submitTranslation", "reject", "return", "assign"}
INVARIANTS
  OneAtATime
  QueueMoves
CHECK_DEADLOCK FALSE
