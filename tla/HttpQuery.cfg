CONSTANTS
  Queries = {q1, q2}
  N = 2
  MaxTries = 1
  Limit = 1
  Limited <- MCServers
  Modes = {"any", "all"}
SPECIFICATION FairSpec
INVARIANTS
  TypeOK
  SlotAccounting
  AllAsked
  FailureTriedAll
PROPERTIES
  EvenlyPicked
  QueryEnds
