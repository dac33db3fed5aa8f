SPECIFICATION Spec
CONSTANTS
  v1 = v1
  v2 = v2
  Vaults <- OneVault
  Amounts <- ChainAmounts
  FeeBumps <- ChainFeeBumps
  SpendValues <- NoSpends
  DepositSat = 224
  UnvaultSat = 410
  MAX_MONEY <- ScaledMaxMoney
  U64 <- ScaledU64
INVARIANTS
  TypeOK
  NoPanic
  EscapesOpen
  PresignedParse
  BumpKeepsOutputs
PROPERTIES
  RevaultedEscapes
