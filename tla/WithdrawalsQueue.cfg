CONSTANTS
  Address = {"ban_1"}
  Lower <- MCLower
  Requests <- PaymentsAndReads
  NoRequest = NoRequest
  worker = worker
  b1 = b1
  b2 = b2
  reader = reader
  Caller = {worker, b1}
  RetryCount = 1
  Opening = 3
  RetryInFlight = FALSE
  TtlMayElapse = FALSE
  Withdrawal <- TwoAsked
  Worker = worker
  Background = {b1}
  Reader = {}
  NoJob = NoJob
  HotOpening = 0
  Refill = 2
  MaxRefills = 2
  MaxAttempt = 2
  MaxCrashes = 1
  Timely = TRUE
  Faults = FALSE
SPECIFICATION FairSpec
INVARIANTS TypeOK PaidOncePerLife NoOverdraft NotDropped
PROPERTIES NoPaymentAfterRecord PaidIsRecorded
CHECK_DEADLOCK FALSE
