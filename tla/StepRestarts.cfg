SPECIFICATION FairSpec
CONSTANTS
  s1 = s1
  s2 = s2
  StepIds <- OneStepId
  MaxAttempts = 2
  MaxSteps = 1
  MaxLocks = 4
  MaxFaults = 3
INVARIANTS
  LockEndsOnTimeline
PROPERTIES
  CallbackEnds
  LocksEnd
