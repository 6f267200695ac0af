SPECIFICATION Spec
CONSTANTS
  Requests <- MCRequests
  LayerCount = 3
  TopK = 2
  MaxDumps = 2
INVARIANTS
  ExpectationsOfOneDump
  FinishedDumpReloads
CHECK_DEADLOCK FALSE
