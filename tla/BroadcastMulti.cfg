SPECIFICATION FairSpec
CONSTANTS
  c1 = c1
  c2 = c2
  b1 = b1
  b2 = b2
  Calls <- OneCall
  Backends <- TwoBackends
  Limit = 1
  MaxParts = 2
  Splitting = TRUE
  MultiFetch = TRUE
  RequireSuccessAll = FALSE
  Ops <- FetchOnly
  Answers <- DataOnly
INVARIANTS SlotAccounting
PROPERTIES EveryCallReturns
CHECK_DEADLOCK FALSE
