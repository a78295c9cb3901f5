CONSTANTS
  Backends = {b1, b2, b3}
  Exprs = {e1}
  Steps = {10, 60}
  Starts = {0}
  MaxValues = 2
SPECIFICATION Spec
INVARIANTS
  PointsKept
  NoPointInvented
