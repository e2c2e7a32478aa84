SPECIFICATION Spec
CONSTANTS
  r1 = r1
  r2 = r2
  Requests <- MCRequests
  Ops <- DecideOnly
  MaxEvents = 6
  MaxFaults = 0
PROPERTY
  DecisionsOnlyOnPendingRuns
CHECK_DEADLOCK FALSE
