SPECIFICATION Spec
CONSTANTS
  V2 = FALSE
  MaxBytes = 2000000000
  ModelBytes <- Q4Model
  Budget = 250000000
  Requests <- LongTexts
  TailRows = {}
  TextRows = {}
INVARIANTS
  LiveWithinBudget
