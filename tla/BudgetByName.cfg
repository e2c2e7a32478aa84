SPECIFICATION Spec
CONSTANTS
  c1 = c1
  c2 = c2
  c3 = c3
  p1 = p1
  p2 = p2
  p3 = p3
  Chats <- OneOfServer
  Server <- OneOfServer
  Providers <- OneProvider
  Candidates <- Single
  LimitStates <- NotTheSecond
  Budgets <- OneCall
  Estimates <- SmallEstimates
  Tokens <- SmallTokens
  Retries <- ShortRetries
  Aliases <- OneAlias
  DayLength = 4
  MaxTime = 2
  MaxSent = 3
  MaxFaults = 0
INVARIANT
  BudgetCapsCalls
CHECK_DEADLOCK FALSE
