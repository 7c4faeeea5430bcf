CONSTANTS
  BanWallet = {ban_1, ban_2}
  BlockchainWallet = {ann, bob}
  Caller = {c1, c2}
  NoClaim = NoClaim
  NoWallet = NoWallet
  Overlap = TRUE
  TtlMayElapse = FALSE
SPECIFICATION Spec
INVARIANTS OneOwner
