SPECIFICATION Spec
CONSTANTS
  e1 = e1
  e2 = e2
  a1 = a1
  a2 = a2
  Event = {e1, e2}
  Aggregate = {a1, a2}
  AggregateOf <- OwnAggregate
  PoolSize = 1
  NumOfAttempts = 1
  DbNumOfAttempts = 1
  MaxOutboxAttempts = 2
  MaxTransactions = 1
  MaxCrashes = 1
  MaxDbErrors = 1
  WindowExpires = FALSE
INVARIANTS
  ProcessedIsPublished
PROPERTIES
  ImplementsDelivery
CHECK_DEADLOCK FALSE
