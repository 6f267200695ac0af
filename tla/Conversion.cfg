SPECIFICATION CompareSpec
CONSTANTS
  None = None
  NoQtype = NoQtype
  GroupSize = 2
  Sources <- McSources
  FileOrder <- McFileOrder
  Replacements <- McReplacements
  Contract <- McContract
  KeyNames <- McKeyNames
  SparseLayers = {1}
  ExpectedShape <- McShape
  MoeLayers = {1}
  Experts = 2
  ChunkRows = {1, 3}
  PayloadAlign = 4
  DataAlign = 8
  SectionAlign = 2
  Meta <- McMeta
  Damages <- McDamages
INVARIANTS
  ConversionTypeOK
  FileFaithful
  ExpertsPlaced
  ReadsItsTensors
  IdsStable
  CompareSound
CHECK_DEADLOCK FALSE
