SPECIFICATION Spec
CONSTANTS
  root = root
  ann = ann
  bob = bob
  q1 = q1
  q2 = q2
  r1 = r1
  r2 = r2
  p1 = p1
  p2 = p2
  NoUser = NoUser
  NoQQ = NoQQ
  NoProvider = NoProvider
  User = {root, ann, bob}
  QQ = {q1, q2}
  SameSecret = TRUE
  Modes = {"open", "qq_verification"}
  MaxSessions = 2
  MaxCodes = 4
  Caller = {r1, r2}
  Provider = {p1, p2}
  MaxVersion = 4
  MaxAttempts = 1
  MaxTickets = 1
  Me = root
  Managed = {ann}
  MemberTag = {"g1"}
  MaxAnswers = 2
  MaxReplies = 2
  Tpl = {"t1", "t2"}
  Admin = {"a1", "a2"}
  MaxText = 1
  Person = {"me", "ann"}
  Owner = "me"
  Place <- MCPlace
  MaxProjects = 2
  MaxSeats = 2
INVARIANTS
  NumbersSurviveEdits
  RecoveryStaysRestricted
  OneSuperAdmin
  LoggedOutStaysOut
  RebindNeedsOldNumber
  ProofsAreSpentOnce
  DefaultSurvives
  CreatedIsWhole
CHECK_DEADLOCK FALSE
