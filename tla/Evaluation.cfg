SPECIFICATION Spec
CONSTANTS
  From = 12
  Until = 18
  Minute = 4
  NameLen = 3
  Intervals <- AllIntervals
  Scenarios <- AllScenarios
  MaxSeries = 2
INVARIANTS
  SourcesNotAssigned
  RegularIsServed
  RegularFits
  ScaledToOneGrid
PROPERTIES
  ListsKept
CHECK_DEADLOCK FALSE
