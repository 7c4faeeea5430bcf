CONSTANTS
  Address = {"ban_1"}
  Lower <- MCLower
  Requests <- PaymentsAndReads
  NoRequest = NoRequest
  worker = worker
  b1 = b1
  b2 = b2
  reader = reader
  Caller = {worker, b1, b2, reader}
  RetryCount = 1
  Opening = 3
  RetryInFlight = FALSE
  TtlMayElapse = FALSE
  Withdrawal <- TwoAsked
  Worker = worker
  Background = {b1, b2}
  Reader = {reader}
  NoJob = NoJob
  HotOpening = 4
  Refill = 2
  MaxRefills = 0
  MaxAttempt = 2
  MaxCrashes = 0
  Timely = TRUE
  Faults = FALSE
SPECIFICATION Spec
INVARIANTS NoOverdraft
CHECK_DEADLOCK FALSE
