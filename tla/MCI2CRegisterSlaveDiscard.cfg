\* A register that cannot be written is selected, and written twice.
SPECIFICATION Spec
CONSTANTS
  mutable_buffer_size = 2
  read_only_buffer_size = 2
  REG_SLAVE_WRITE_BUFFER_LENGTH = 3
  RegisterNumbers = {0, 1, 2, 3, 4}
  MAX_LENGTH = 4
  MAX_FRAMES = 4
CHECK_DEADLOCK FALSE
PROPERTY
  IsRegisterFile
