SPECIFICATION Spec
CONSTANTS
  v1 = v1
  v2 = v2
  Vaults <- TwoVaults
  Amounts <- TwoAmounts
  FeeBumps <- NoFeeBumps
  SpendValues <- ChainSpends
  DepositSat = 224
  UnvaultSat = 410
  MAX_MONEY <- ScaledMaxMoney
  U64 <- ScaledU64
INVARIANTS
  SpendFeesDefined
