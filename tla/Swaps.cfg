CONSTANTS
  Address = {"ban_1"}
  Lower <- MCLower
  Requests <- SwapRequests
  NoRequest = NoRequest
  worker = worker
  Caller = {worker}
  RetryCount = 1
  Opening = 2
  RetryInFlight = FALSE
  TtlMayElapse = FALSE
  ToWBAN <- Wraps
  ToBAN <- OneUnwrap
  Gasless <- TwoFree
  Together <- Mixes
  Worker = worker
  NoJob = NoJob
  MaxTroubles = 1
SPECIFICATION FairSpec
INVARIANTS TypeOK ValueIsConserved DebitedAgainAfterFailure OneMintRelayed OneFreeSwap CompletedIsDone
PROPERTIES EveryJobEnds
CHECK_DEADLOCK FALSE
