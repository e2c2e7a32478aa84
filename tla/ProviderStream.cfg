SPECIFICATION Spec
CONSTANTS
  Transports <- AllTransports
  MaxText = 1
  MaxCalls = 2
  MaxArgs = 2
  MaxInFlight = 6
INVARIANTS
  StreamedMatchesWhole
PROPERTIES
  StreamSettles
CHECK_DEADLOCK FALSE
