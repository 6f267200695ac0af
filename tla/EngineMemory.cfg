SPECIFICATION EngineSpec
CONSTANTS
  V2 = TRUE
  MaxBytes = 2000000000
  ModelBytes <- Q4Model
  Budget = 182000000
  Requests <- V2Requests
  TailRows <- Tails
  TextRows <- Texts
INVARIANTS
  TrackerAgrees
  VisionBeforeDecoder
  FootprintOfEither
  LiveWithinEstimate
