SPECIFICATION Spec
CONSTANTS
  Process = {p1}
  TableName <- SomeTableNames
INVARIANTS
  EveryNamingWorks
CHECK_DEADLOCK FALSE
