CONSTANTS
  Event <- OneSwap
  StartBlock = 0
  BlockSlice = 2
  RangeMax = 4
  Confirmations = 1
  NoJob = NoJob
  FirstHead = 3
  MaxBlock = 4
  MaxUpdates = 2
  MaxFailures = 3
  MaxCrashes = 1
SPECIFICATION FairSpec
INVARIANTS TypeOK NothingSkipped
PROPERTIES RangeIsCovered SwapsAreFound
CHECK_DEADLOCK FALSE
