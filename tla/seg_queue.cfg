SPECIFICATION SegmentSpec
CONSTANTS
  Claimant = {c1, c2, c3}
  Ender = {e1, e2}
  Segments <- Halves
SYMMETRY Symmetry
INVARIANTS
  QueueKeepsMoving
CHECK_DEADLOCK FALSE
