SPECIFICATION Spec
CONSTANTS
  c1 = c1
  c2 = c2
  b1 = b1
  b2 = b2
  Calls <- OneCall
  Backends <- TwoBackends
  Limit = 0
  MaxParts = 2
  Splitting = TRUE
  MultiFetch = TRUE
  RequireSuccessAll = FALSE
  Ops <- FetchOnly
  Answers <- DataOrError
INVARIANTS OkMeansComplete
CHECK_DEADLOCK FALSE
