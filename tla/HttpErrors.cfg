CONSTANTS
  NumTargets = 2
  Backends = {b1, b2}
  Codes <- MCCodes
  NotFoundStatusCode = 200
SPECIFICATION Spec
INVARIANTS
  AnswerIsLowest
  StableCode
