SPECIFICATION FairSpec
CONSTANTS
  rx_buffer_length = 2
  tx_buffer_length = 2
  Blocks = {1, 2}
  MAX_LENGTH = 3
  MAX_FRAMES = 3
INVARIANTS
  TypeOK
  WritesInBuffer
  ReadsAreFrames
  NeverNegative
  ServedAsTold
PROPERTY
  AllIsRead
