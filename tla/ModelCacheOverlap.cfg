SPECIFICATION Spec
CONSTANTS
  Procs = {p1, p2}
  Plans = {a, b}
  Foreign = Foreign
  Hole = Hole
  Inodes = {i1, i2, i3, i4, i5}
  NoInode = NoInode
  Chunks = 2
  Overlap = TRUE
INVARIANTS
  EntryWhole
SYMMETRY Symmetry
CHECK_DEADLOCK FALSE
