CONSTANTS
  Backends = {b1, b2}
  Tlds = {t1, t2}
  Glob = glob
  SeriesByTag = seriesByTag
  Names <- MCNames
  TldCacheDisabled = FALSE
SPECIFICATION FairSpec
INVARIANTS
  AllHoldersAsked
  EntriesTrue
PROPERTY RoutingRecovers
