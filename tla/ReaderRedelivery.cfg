SPECIFICATION Spec
CONSTANTS
  e1 = e1
  e2 = e2
  a1 = a1
  a2 = a2
  Event = {e1}
  Aggregate = {a1}
  AggregateOf <- SharedAggregate
  PoolSize = 1
  NumOfAttempts = 2
  DbNumOfAttempts = 2
  MaxOutboxAttempts = 2
  MaxTransactions = 1
  MaxCrashes = 2
  MaxDbErrors = 2
  WindowExpires = TRUE
INVARIANTS
  AttemptsCountOutcomes
PROPERTIES
  ProcessedIsFinal
CHECK_DEADLOCK FALSE
