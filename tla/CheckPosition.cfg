SPECIFICATION SystemSpec
CONSTANTS
  Event = {e1, e2}
  Aggregate = {e1, e2}
  AggregateOf <- OwnId
  PoolSize = 1
  NumOfAttempts = 1
  DbNumOfAttempts = 1
  MaxOutboxAttempts = 3
  MaxTransactions = 2
  MaxCrashes = 0
  MaxDbErrors = 0
  WindowExpires = FALSE
  BatchSize = 1
  MaxChecks = 1
  MaxSelections = 0
INVARIANTS
  ProcessedWasPublished
CHECK_DEADLOCK FALSE
