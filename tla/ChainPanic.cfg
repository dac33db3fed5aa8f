SPECIFICATION Spec
CONSTANTS
  v1 = v1
  v2 = v2
  Vaults <- OneVault
  Amounts <- LargeWalletAmounts
  FeeBumps <- NoFeeBumps
  SpendValues <- NoSpends
  DepositSat = 4112
  UnvaultSat = 5055
  MAX_MONEY <- ScaledMaxMoney
  U64 <- ScaledU64
INVARIANTS
  NoPanic
