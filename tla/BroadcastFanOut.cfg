SPECIFICATION Spec
CONSTANTS
  c1 = c1
  c2 = c2
  b1 = b1
  b2 = b2
  Calls <- OneCall
  Backends <- TwoBackends
  Limit = 1
  MaxParts = 2
  Splitting = TRUE
  MultiFetch = FALSE
  RequireSuccessAll = FALSE
  Ops <- AllOps
  Answers <- AllAnswers
SYMMETRY Symmetry
INVARIANTS RepliesFit OkMeansComplete
