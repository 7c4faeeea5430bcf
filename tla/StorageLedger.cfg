CONSTANTS
  Address = {"ban_1", "ban_2"}
  Lower <- MCLower
  Requests <- EveryStore
  NoRequest = NoRequest
  c1 = c1
  c2 = c2
  c3 = c3
  Caller = {c1, c2, c3}
  RetryCount = 1
  Opening = 3
  RetryInFlight = FALSE
  TtlMayElapse = FALSE
SPECIFICATION Spec
SYMMETRY CallersAreAlike
INVARIANTS TypeOK StoredAtMostOnce BalanceMatchesAudit WritesAreFresh
PROPERTIES ImplementsLedger
CHECK_DEADLOCK FALSE
