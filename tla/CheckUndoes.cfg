SPECIFICATION SystemSpec
CONSTANTS
  Event = {e1}
  Aggregate = {e1}
  AggregateOf <- OwnId
  PoolSize = 1
  NumOfAttempts = 1
  DbNumOfAttempts = 1
  MaxOutboxAttempts = 3
  MaxTransactions = 1
  MaxCrashes = 0
  MaxDbErrors = 0
  WindowExpires = FALSE
  BatchSize = 1
  MaxChecks = 1
  MaxSelections = 0
PROPERTIES
  LifecycleHolds
CHECK_DEADLOCK FALSE
