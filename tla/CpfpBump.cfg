SPECIFICATION Spec
CONSTANTS
  CpfpSat = 150
  Packages <- UnvaultOrSpends
  Wallets <- SmallWallets
INVARIANTS
  TypeOK
  OverpaymentBounded
  FeerateAdded
  StandardSize
PROPERTIES
  KeepsPromise
CHECK_DEADLOCK FALSE
