SPECIFICATION MonSpec
CONSTANTS
  Marks = {"init", "complete"}
  Final = "complete"
  Width = 3
  Overlap = 2
  MaxSize = 7
  MaxLogs = 2
  TailTurns = 12
INVARIANTS
  MonTypeOK
  EquivalentToFullScan
PROPERTIES
  SeesCompletion
\* The logs are written and the monitor has returned.
CHECK_DEADLOCK FALSE
