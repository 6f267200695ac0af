SPECIFICATION Spec
CONSTANTS
  Procs = {p1, p2}
  Plans = {a, b}
  Foreign = Foreign
  Hole = Hole
  Inodes = {i1, i2, i3, i4, i5}
  NoInode = NoInode
  Chunks = 2
  Overlap = FALSE
INVARIANTS
  CacheTypeOK
  PublishesWhole
PROPERTIES
  StatsOfEntry
  FailureKeepsEntry
  MappedFilesStable
SYMMETRY Symmetry
CHECK_DEADLOCK FALSE
