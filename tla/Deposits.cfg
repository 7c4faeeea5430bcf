CONSTANTS
  Address = {"ban_1"}
  Lower <- MCLower
  Requests <- MCRequests
  NoRequest = NoRequest
  worker = worker
  b1 = b1
  b2 = b2
  ann = ann
  Caller = {worker, b1, b2}
  RetryCount = 1
  Opening = 0
  RetryInFlight = TRUE
  TtlMayElapse = FALSE
  BlockchainWallet = {ann}
  NoClaim = NoClaim
  NoWallet = NoWallet
  Rounded <- ThreeBan
  Odd <- TooManyDecimals
  Own <- OwnBlock
  Worker = worker
  Background = {b1, b2}
  NoJob = NoJob
  HotOpening = 6
  OneBan = 2
  Minimum = 10
  Ratio = 50
  MaxDeposits = 1
  MaxFailures = 2
  MayCrash = TRUE
SPECIFICATION FairSpec
INVARIANTS TypeOK SentBackOncePerFailure
PROPERTIES CreditedIsKept MinimumIsKept DepositsAreSettled
CHECK_DEADLOCK FALSE
