SPECIFICATION Spec
CONSTANTS
  e1 = e1
  e2 = e2
  a1 = a1
  a2 = a2
  Event = {e1, e2}
  Aggregate = {a1}
  AggregateOf <- SharedAggregate
  PoolSize = 1
  NumOfAttempts = 1
  DbNumOfAttempts = 1
  MaxOutboxAttempts = 2
  MaxTransactions = 2
  MaxCrashes = 0
  MaxDbErrors = 0
  WindowExpires = FALSE
INVARIANTS
  ProcessedIsPublished
CHECK_DEADLOCK FALSE
