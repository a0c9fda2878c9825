SPECIFICATION FairSpec
CONSTANTS
  e1 = e1
  e2 = e2
  a1 = a1
  a2 = a2
  Event = {e1, e2}
  Aggregate = {a1}
  AggregateOf <- SharedAggregate
  PoolSize = 1
  NumOfAttempts = 1
  DbNumOfAttempts = 2
  MaxOutboxAttempts = 1
  MaxTransactions = 1
  MaxCrashes = 1
  MaxDbErrors = 2
  WindowExpires = FALSE
PROPERTIES
  EveryRecordSettles
  SlotCatchesUp
CHECK_DEADLOCK FALSE
