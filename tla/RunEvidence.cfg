SPECIFICATION Spec
CONSTANTS
  g1 = g1
  v1 = v1
  v2 = v2
  Goals <- OneGoal
  VerificationIds <- TwoVerificationIds
  original = original
  changed = changed
  Contents <- TwoContents
  Original = original
  NoContent = NoContent
  MaxRuns = 2
  MaxRecords = 3
  MaxHeads = 2
  MaxTrouble = 1
SYMMETRY Symmetry
INVARIANTS
  TypeOK
  GoalsRestOnEvidence
  WritesAreAccounted
  DirectoriesAreRemembered
CHECK_DEADLOCK FALSE
