SPECIFICATION Spec
CONSTANTS
  Lines <- MCLines
  Exceptions <- MCExceptions
  MaxEvents = 3
  MaxNesting = 2
CHECK_DEADLOCK FALSE
INVARIANTS
  LinesAccounted
PROPERTIES
  HandlersRight
  LinesServed
