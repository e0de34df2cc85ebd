SPECIFICATION Spec
CONSTANTS
  NoUser = NoUser
  Task = {t1}
  User = {sup, ann, bob}
  Managers = {sup}
  Tagged = {ann, bob}
  Request = {r1, r2, r3, r4}
  Kinds = {"claim", "start", "return", "assign"}
SYMMETRY Symmetry
INVARIANTS
  OneWinner
CHECK_DEADLOCK FALSE
