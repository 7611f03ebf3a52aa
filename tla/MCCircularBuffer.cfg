SPECIFICATION Spec
CONSTANTS
  _size = 4
  Values = {1, 2}
  Keys = {1, 2}
  Lengths = {1, 5}
  BYTE = 4
  WORD = 16
INVARIANTS
  IndexesAgree
  QueriesAnswer
PROPERTY
  IsDeque
CHECK_DEADLOCK FALSE
