CONSTANTS
  Queries = {q1}
  N = 2
  MaxTries = 1
  Limit = 1
  Limited = {}
  Modes = {"any"}
SPECIFICATION Spec
INVARIANT BlockedOnlyWhenFull
