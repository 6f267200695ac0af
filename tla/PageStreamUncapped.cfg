SPECIFICATION Spec
CONSTANTS
  ImageRows = 2
  TailRows = 1
  BlockRows = 2
  TextRows = 1
  ExtraRows = 3
  SlackTokens = 1
  MaxPositions = 19
  MaxPageCap = 2
  EngineLimits = {}
  PageCaps = {}
  Requests = {}
  FirstPages = {}
  OwnedPages = {}
  Instruction = 1
  MaxSource = 3
  Options <- OnePageOptions
  SingleRequests <- SmallSingles
  FirstEngine <- SmallEngine
INVARIANT
  UncappedWindowCompletes
