SPECIFICATION Spec
CONSTANTS
  s1 = s1
  s2 = s2
  m1 = m1
  m2 = m2
  m3 = m3
  c1 = c1
  c2 = c2
  x1 = x1
  Keys <- MCKeys
  Kind <- MCKind
  Setups <- AllSetups
  Ages <- MCAges
INVARIANTS
  TypeOK
  Custody
  ThresholdReadsBack
  DelayReadsBack
  ThresholdOfUnvaultsOnly
  RoundTrips
  GenericOrDerived
