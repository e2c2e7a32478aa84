SPECIFICATION Spec
CONSTANTS
  r1 = r1
  r2 = r2
  p1 = p1
  k1 = k1
  k2 = k2
  Refs <- TwoRefs
  Providers <- OneProvider
  Keys <- TwoKeys
  Backends <- FourBackends
  MaxAttempts = 3
  MaxFaults = 2
SYMMETRY Symmetry
INVARIANTS
  TypeOK
  AcknowledgedSecretsAreKept
  ReadinessIsHonest
