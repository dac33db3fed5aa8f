SPECIFICATION Spec
CONSTANTS
  c1 = c1
  c2 = c2
  s1 = s1
  s2 = s2
  m1 = m1
  k1 = k1
  f1 = f1
  Copies <- TwoCopies
  Keys <- BatchKeys
  Prevouts <- BatchPrevouts
  Wsh <- BatchPrevouts
  Branches <- BatchBranches
  Txs <- BatchTxs
  Kind <- BatchKind
  Vin <- BatchVin
  Vout <- BatchVout
  Requests <- BatchRequests
  LaxOlder = FALSE
  ForeignPsbts = FALSE
  CallersCheck = TRUE
INVARIANTS
  NoPanic
  RoundTrips
  EnoughSignaturesFinalize
