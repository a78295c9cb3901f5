SPECIFICATION FairSpec
CONSTANTS
  c1 = c1
  c2 = c2
  b1 = b1
  b2 = b2
  Calls <- TwoCalls
  Backends <- OneBackend
  Limit = 1
  MaxParts = 1
  Splitting = TRUE
  MultiFetch = FALSE
  RequireSuccessAll = FALSE
  Ops <- FetchOnly
  Answers <- DataOnly
INVARIANTS TypeOK SlotAccounting
PROPERTIES EveryCallReturns GoroutinesEnd
