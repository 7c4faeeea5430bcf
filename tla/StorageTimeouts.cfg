CONSTANTS
  Address = {"ban_1", "BAN_1"}
  Lower <- MCLower
  Requests <- WithTimeouts
  NoRequest = NoRequest
  c1 = c1
  c2 = c2
  c3 = c3
  Caller = {c1, c2}
  RetryCount = 1
  Opening = 3
  RetryInFlight = TRUE
  TtlMayElapse = TRUE
SPECIFICATION FairSpec
PROPERTIES OnlyHolderReleases EveryCallSettles LocksAreFreed
CHECK_DEADLOCK FALSE
