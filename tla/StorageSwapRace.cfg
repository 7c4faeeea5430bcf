CONSTANTS
  Address = {"ban_1"}
  Lower <- MCLower
  Requests <- SwapAndWithdrawal
  NoRequest = NoRequest
  c1 = c1
  c2 = c2
  c3 = c3
  Caller = {c1, c2}
  RetryCount = 1
  Opening = 3
  RetryInFlight = FALSE
  TtlMayElapse = FALSE
SPECIFICATION Spec
INVARIANTS BalanceMatchesAudit
CHECK_DEADLOCK FALSE
