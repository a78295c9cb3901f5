SPECIFICATION MCSpec
CONSTANTS
  MaxLimit = 3
  MaxMetrics = 4
  MaxMatches = 3
INVARIANTS TypeOK BatchSizes FullBatches InOrder NothingLeft
