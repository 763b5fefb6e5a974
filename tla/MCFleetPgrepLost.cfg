SPECIFICATION Spec
CONSTANTS
  ubuntu = ubuntu
  gentoo = gentoo
  Distros <- MCDistros
  Foreign = foreign
  Order <- MCOrder
  Pids <- MCFreshPids
  Orphans <- MCNone
  PgrepFaults <- MCUnusable
  PromptLauncher = TRUE
  GracePolls = 1
  KillRounds = 1
  VerifyPolls = 1
  DiscoverPolls = 1
  MaxInterrupts = 0
INVARIANTS
  OnlyInterruptAborts
\* The program ends and the host comes to rest.
CHECK_DEADLOCK FALSE
