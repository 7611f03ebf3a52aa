\* Every interleaving of the interrupt with the accesses of loop(); reports
\* that fall due together, windows of up to four samples.
SPECIFICATION Spec
CONSTANTS
  Channels <- TwoChannels
  Enabled = {"A"}
  Readings = {1, 2}
  RF_INVALID_VALUE = 9
  RF_BUFFER_LENGTH = 4
  OUTPUT_INTERVAL = 1
  LATENCY = 2
  MICROS_WRAP = 4
INVARIANTS
  TypeOK
  NoOverrun
  StampsGrow
  ReportComplete
PROPERTY
  Promise
