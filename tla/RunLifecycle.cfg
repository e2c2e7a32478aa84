SPECIFICATION Spec
CONSTANTS
  r1 = r1
  r2 = r2
  Requests <- MCRequests
  Ops <- MCOps
  MaxEvents = 6
  MaxFaults = 2
SYMMETRY Symmetry
INVARIANTS
  TypeOK
  ApprovalOnlyWhenRequired
  NoOutcomeWithoutDecision
  DecisionExplainsStatus
  TimelineReplaysStatus
  AuditGapsBounded
  NotesOnTimeline
PROPERTY
  StoredHistoryGrows
\* The server is quiescent once no further request is admitted.
CHECK_DEADLOCK FALSE
