SPECIFICATION Spec
CONSTANTS
  s1 = s1
  s2 = s2
  StepIds <- TwoStepIds
  MaxAttempts = 2
  MaxSteps = 2
  MaxLocks = 1
  MaxFaults = 0
PROPERTY
  PausedRunsStartNothing
