\* The slave listens again in the middle of a read.
SPECIFICATION Spec
CONSTANTS
  Addresses = {10}
  RX_SIZE = 1
  TX_SIZE = 2
  NewSizes = {2}
  BIT_ERRORS = FALSE
  ReadLengths = {2}
  WriteLengths = {}
  MAX_CHANGES = 1
  MAX_FRAMES = 2
CHECK_DEADLOCK FALSE
INVARIANT
  ReadsFromStart
