SPECIFICATION Spec
CONSTANTS
  DepositSat = 224
  UnvaultSat = 410
  MAX_MONEY <- ScaledMaxMoney
  U64 <- ScaledU64
  Deposits <- OneDeposit
  FeeBumps <- NoFeeBump
  SpendOuts <- OneSpendOut
  Changes <- NoChange
  MaxSpent = 1
  MaxEdits = 1
CHECK_DEADLOCK FALSE
INVARIANTS
  UnvaultDriverHolds
