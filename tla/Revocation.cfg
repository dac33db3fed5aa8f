SPECIFICATION Spec
CONSTANTS
  c1 = c1
  c2 = c2
  s1 = s1
  s2 = s2
  m1 = m1
  k1 = k1
  f1 = f1
  Copies <- OneCopy
  Keys <- RevKeys
  Prevouts <- RevPrevouts
  Wsh <- RevWsh
  Branches <- RevBranches
  Txs <- RevTxs
  Kind <- RevKind
  Vin <- RevVin
  Vout <- RevVout
  Requests <- RevRequests
  LaxOlder = TRUE
  ForeignPsbts = TRUE
  CallersCheck = FALSE
INVARIANTS
  TypeOK
  NoPanic
  FinalizeOkIsValid
  OwnersConsented
PROPERTIES
  FinalizeFollowsIsFinalizable
  FailedFinalizeIsPermanent
