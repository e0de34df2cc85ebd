SPECIFICATION Spec
CONSTANTS
  Request = {r1, r2, r3, r4, r5}
  File = {f1, f2}
  Kinds = {"upload", "replace", "approve", "delete", "link", "download"}
  MaxVersion = 3
SYMMETRY Symmetry
INVARIANTS
  SomeVersionIsCurrent
  DeletedIsGone
CHECK_DEADLOCK FALSE
