\* A buffer that replaces another is at least as large.
SPECIFICATION FairSpec
CONSTANTS
  Addresses = {10, 11}
  RX_SIZE = 1
  TX_SIZE = 1
  NewSizes = {2}
  MAX_CHANGES = 1
  BIT_ERRORS = TRUE
  ReadLengths = {1, 2, 3}
  WriteLengths = {0, 1, 2}
  MAX_FRAMES = 3
CHECK_DEADLOCK FALSE
INVARIANTS
  TypeOK
  CallbacksFollowFrames
  AddressNotStale
  ReadsServed
  UnderflowTold
PROPERTIES
  FramesEnd
  StoresInBuffer
