SPECIFICATION SimSpec
CONSTANTS
  Checks = 3
  Deadline = 6
  FallbackAfter = 3
  MaxClockSets = 0
  MarkerAttempts = 5
INVARIANTS
  NoFailAfterPass
\* The result is there and the guest comes to rest.
CHECK_DEADLOCK FALSE
