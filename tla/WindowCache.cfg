SPECIFICATION CacheSpec
CONSTANTS
  ImageRows = 3
  TailRows = 1
  BlockRows = 2
  TextRows = 2
  ExtraRows = 6
  SlackTokens = 6
  MaxPositions = 40
  MaxPageCap = 3
  EngineLimits <- CacheLimits
  PageCaps = {3}
  Requests <- CacheRequests
  FirstPages = {0, 1, 2, 3, 4, 5}
  OwnedPages = {1, 2}
INVARIANTS
  RowsInPlace
  ContextIsContiguous
  QueriesSeeTheirPage
