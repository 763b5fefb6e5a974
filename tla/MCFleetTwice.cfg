SPECIFICATION Spec
CONSTANTS
  ubuntu = ubuntu
  gentoo = gentoo
  Distros <- MCDistros
  Foreign = foreign
  Order <- MCTwice
  Pids <- MCFreshPids
  Orphans <- MCNone
  PgrepFaults <- MCAllFaults
  PromptLauncher = FALSE
  GracePolls = 1
  KillRounds = 1
  VerifyPolls = 1
  DiscoverPolls = 1
  MaxInterrupts = 1
INVARIANTS
  IInv
PROPERTIES
  StartedVmIsShutDown
  FleetTerminates
  KeepsLoop
\* The program ends and the host comes to rest.
CHECK_DEADLOCK FALSE
