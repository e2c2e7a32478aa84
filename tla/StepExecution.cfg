SPECIFICATION Spec
CONSTANTS
  s1 = s1
  s2 = s2
  StepIds <- TwoStepIds
  MaxAttempts = 2
  MaxSteps = 2
  MaxLocks = 3
  MaxFaults = 2
SYMMETRY Symmetry
INVARIANTS
  TypeOK
  OneLiveLock
  LockOnDiskBeforeWork
  ActiveFieldAgrees
  AttemptsFormChain
  WorkIsAccounted
  RefusedStepsNeverWork
PROPERTIES
  StartsAlone
  ImplementsLease
