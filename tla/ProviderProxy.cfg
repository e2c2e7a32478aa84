SPECIFICATION Spec
CONSTANTS
  c1 = c1
  c2 = c2
  c3 = c3
  p1 = p1
  p2 = p2
  p3 = p3
  Chats <- AndOneOfCli
  Server <- TwoOfServer
  Providers <- TwoProviders
  Candidates <- Failover
  LimitStates <- NotTheSecond
  Budgets <- NoneOrSmall
  Estimates <- SmallEstimates
  Tokens <- SmallTokens
  Retries <- ShortRetries
  Aliases <- NoAlias
  DayLength = 1
  MaxTime = 1
  MaxSent = 4
  MaxFaults = 1
SYMMETRY Symmetry
INVARIANTS
  UsageIsExact
  NothingIsInvented
  OverrunIsBounded
PROPERTY
  WindowsAreRespected
\* The server is quiescent once no further request is sent.
CHECK_DEADLOCK FALSE
