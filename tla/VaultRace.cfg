SPECIFICATION Spec
CONSTANTS
  c1 = c1
  c2 = c2
  b1 = b1
  Coins <- TwoCoins
  Index <- TwoIndexes
  FeeBumps <- OneFeeBump
  LockTimes <- TwoLockTimes
  Csv = 1
  MaxHeight = 2
  MaxVaults = 2
  MaxSpends = 1
  MaxBumps = 1
INVARIANTS
  TypeOK
  EscapesOpen
  SpendOpens
  SpendFindsUnvault
  CpfpFound
  RevaultFindsDeposit
PROPERTIES
  KeepsPromise
  ExitsSeen
