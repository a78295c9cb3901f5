SPECIFICATION MCSpec
CONSTANTS
  Day = 2
  Stack = 2
  DefaultRange = 4
  Clients = {c1, c2}
  Scenarios <- AllScenarios
  Start = 20
  Latency = 1
  Lag = 1
  Sites <- AllSites
  Begins <- AllBegins
INVARIANTS
  LookupsFetched
  FiledRight
  SuccessAllComplete
  SomeoneMoves
  FoundIsShown
  InfoComplete
  TagsKept
PROPERTIES
  ImplementsService
  FeaturesOfOldest
SYMMETRY Symmetric
CHECK_DEADLOCK FALSE
