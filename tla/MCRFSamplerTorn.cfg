SPECIFICATION Spec
CONSTANTS
  Channels <- TwoChannels
  Enabled = {"A"}
  Readings = {1, 2}
  RF_INVALID_VALUE = 9
  RF_BUFFER_LENGTH = 3
  OUTPUT_INTERVAL = 1
  LATENCY = 1
  MICROS_WRAP = 3
INVARIANTS
  FrameIsStored
