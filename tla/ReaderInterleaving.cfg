SPECIFICATION Spec
CONSTANTS
  e1 = e1
  e2 = e2
  a1 = a1
  a2 = a2
  Event = {e1, e2}
  Aggregate = {a1}
  AggregateOf <- SharedAggregate
  PoolSize = 2
  NumOfAttempts = 1
  DbNumOfAttempts = 1
  MaxOutboxAttempts = 1
  MaxTransactions = 2
  MaxCrashes = 1
  MaxDbErrors = 1
  WindowExpires = FALSE
INVARIANTS
  TypeOK
  BeliefsAreHarmless
  RecordedSeqMatches
  BatchIsUnacknowledged
  OneTaskPerRecord
  PendingIsOwned
CHECK_DEADLOCK FALSE
