SPECIFICATION ProgressSpec
CONSTANTS
  Channels <- ThreeChannels
  Enabled = {"A", "B"}
  Fitted = {"A", "B"}
  Bytes = {1, 254}
  OUTPUT_INTERVAL = 1
  MAX_SAMPLES = 2
  MAX_LATE = 2
INVARIANTS
  TypeOK
PROPERTIES
  OwnReadings
  DueIsPublished
