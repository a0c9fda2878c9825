SPECIFICATION FairSpec
CONSTANTS
  Record = {r1, r2}
  NumOfAttempts = 2
  MaxSessions = 3
INVARIANTS
  TypeOK
  OneSession
PROPERTIES
  OnlyDrains
  SignalEndsProcess
CHECK_DEADLOCK FALSE
