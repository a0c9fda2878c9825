SPECIFICATION SystemSpec
CONSTANTS
  Event = {e1}
  Aggregate = {e1}
  AggregateOf <- OwnId
  PoolSize = 1
  NumOfAttempts = 1
  DbNumOfAttempts = 1
  MaxOutboxAttempts = 2
  MaxTransactions = 1
  MaxCrashes = 1
  MaxDbErrors = 1
  WindowExpires = FALSE
  BatchSize = 1
  MaxChecks = 1
  MaxSelections = 1
INVARIANTS
  SystemTypeOK
  GiveUpsAreHarmless
  PendingIsOwnedOrSpent
PROPERTIES
  OnlyCheckUndoesProcessed
CHECK_DEADLOCK FALSE
