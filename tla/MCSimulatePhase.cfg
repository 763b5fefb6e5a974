SPECIFICATION PhaseSpec
CONSTANTS
  MaxRuns = 2
  MaxVms = 2
  Options <- MCOptions
INVARIANTS
  PhaseTypeOK
  SuccessIsWhole
  RunningVmReachable
  VerdictIsFresh
PROPERTIES
  OpenFilesUntouched
\* The bound on the invocations is reached.
CHECK_DEADLOCK FALSE
