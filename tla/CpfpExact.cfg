SPECIFICATION Spec
CONSTANTS
  CpfpSat = 150
  Packages <- UnvaultOrSpends
  Wallets <- SmallWallets
PROPERTIES
  CoversExactly
CHECK_DEADLOCK FALSE
