SPECIFICATION Spec
CONSTANTS
  DepositSat = 224
  UnvaultSat = 410
  MAX_MONEY <- ScaledMaxMoney
  U64 <- ScaledU64
  Deposits <- ParsingDeposits
  FeeBumps <- ParsingFeeBumps
  SpendOuts <- ParsingSpendOuts
  Changes <- ParsingChanges
  MaxSpent = 2
  MaxEdits = 2
CHECK_DEADLOCK FALSE
INVARIANTS
  TypeOK
  OwnParse
  DriversHold
  TypesApart
  AcceptedAsBuilt
