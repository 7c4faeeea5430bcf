CONSTANTS
  c1 = c1
  c2 = c2
  c3 = c3
  c4 = c4
  w1 = w1
  w2 = w2
  Connection = {c1, c2, c3, c4}
  Wallet = {w1, w2}
  WalletOf <- MCWalletOf
  Result <- MCResult
  NoWallet = NoWallet
  NoClient = NoClient
SPECIFICATION Spec
INVARIANTS TypeOK ClientsAreOpen NewestIsClient
PROPERTIES ResultsReachNewest
CHECK_DEADLOCK FALSE
