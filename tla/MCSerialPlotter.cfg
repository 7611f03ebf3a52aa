\* The device may be switched between its modes at any time.
SPECIFICATION Spec
CONSTANTS
  N_CHANNELS = 3
  N_ENABLED = 2
  N_BLANKS = 2
  MAX_REPORTS = 4
CHECK_DEADLOCK FALSE
INVARIANTS
  TypeOK
  ColumnsFollowReports
  OneReportPerColumn
  LineExists
