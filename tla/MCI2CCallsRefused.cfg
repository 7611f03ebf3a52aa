SPECIFICATION Spec
CONSTANTS
  NUM_FIFOS = 3
  MAX_MASTER_READ_LENGTH = 3
  MAX_FAULTS = 1
  MAX_LATE_FAULTS = 1
  Calls <- SomeCalls
  MAX_CALLS = 3
  MAX_LATE_CALLS = 2
  rx_buffer_length = 2
CHECK_DEADLOCK FALSE
INVARIANT
  ReadyIsDone
