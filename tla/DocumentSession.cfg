SPECIFICATION FairSessionSpec
CONSTANTS
  ImageRows = 2
  TailRows = 1
  BlockRows = 2
  TextRows = 1
  ExtraRows = 3
  SlackTokens = 1
  MaxPositions = 19
  MaxPageCap = 2
  EngineLimits <- SmallLimits
  PageCaps = {0, 1, 2, 3}
  Requests <- SmallRequests
  FirstPages = {0, 1, 2, 3, 4}
  OwnedPages = {0, 1, 2}
INVARIANTS
  TypeOK
  FailuresContained
  WindowFits
  PagesStayCapped
PROPERTIES
  WindowReturnsOwnedPages
  WindowEnds
