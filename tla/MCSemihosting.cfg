SPECIFICATION Spec
CONSTANTS
  Visible = {a, b}
  Newline = nl
  CAPACITY = 2
  MaxText = 3
  MaxCalls = 3
INVARIANTS
  TypeOK
  LogIsComplete
CHECK_DEADLOCK FALSE
