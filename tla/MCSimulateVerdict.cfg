SPECIFICATION SimSpec
CONSTANTS
  Checks = 3
  Deadline = 6
  FallbackAfter = 3
  MaxClockSets = 2
  MarkerAttempts = 5
INVARIANTS
  SimTypeOK
  CompleteMeansVerified
  PassMeansOk
  FailWins
PROPERTIES
  FinishedIsNotLost
  KeepsContract
  SimulateDecides
\* The result is there and the guest comes to rest.
CHECK_DEADLOCK FALSE
