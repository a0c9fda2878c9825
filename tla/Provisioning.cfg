SPECIFICATION Spec
CONSTANTS
  Process = {p1, p2}
  TableName <- SomeTableNames
INVARIANTS
  TypeOK
  SetupProvidesSlot
  OneModel
  SnakeCaseWorks
  DefaultsServeClient
CHECK_DEADLOCK FALSE
